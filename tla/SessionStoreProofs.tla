-------------------------- MODULE SessionStoreProofs --------------------------
(***************************************************************************)
(* Proofs about SessionStore, for any set of identifiers and labels and    *)
(* any number of faults: the JSONL storage implements the session tree,    *)
(* what it has acknowledged is in its file, and every entry is listed.     *)
(* The tree comes first.                                                   *)
(***************************************************************************)
EXTENDS SessionStore, FiniteSetTheorems, SequenceTheorems, WellFoundedInduction, TLAPS

-----------------------------------------------------------------------------
(***************************************************************************)
(* The tree itself, whatever storage its operations run on: that it is     *)
(* rooted, and that its caches point at entries, are inductive only        *)
(* together: a move hangs its entry below the cached leaf, and a summary   *)
(* below what move_to still owes.                                          *)
(***************************************************************************)

TreeInv == Tree!TypeOK /\ Tree!TreeRooted /\ Tree!CachesPointAtEntries

(* What an entry must be for the tree to stay a tree. *)
Fits(e) ==
  /\ e \in Tree!EntryType
  /\ e.id \notin Tree!Known
  /\ \/ e.parent \in Tree!Known \cup {NoId}
     \/ e.parent = RootId /\ e.kind = "branch_summary"
  /\ e.kind \in {"leaf", "label"} => e.target \in Tree!Known \cup {NoId}
  /\ e.kind = "label" => e.target \in Tree!Known

(* Appending keeps what was there and adds one at the end. *)
LEMMA AppendedEntry ==
  ASSUME NEW S, NEW s \in Seq(S), NEW e \in S
  PROVE  /\ Append(s, e) \in Seq(S)
         /\ DOMAIN Append(s, e) = 1 .. Len(s) + 1
         /\ Append(s, e)[Len(s) + 1] = e
         /\ \A i \in 1 .. Len(s) : Append(s, e)[i] = s[i]
         /\ DOMAIN s = 1 .. Len(s)
         /\ Len(s) \in Nat
  OBVIOUS

LEMMA TreeInit == Tree!Init => TreeInv
<1> SUFFICES ASSUME Tree!Init PROVE TreeInv
  OBVIOUS
<1>1. Tree!TypeOK
  BY DEF Tree!Init, Tree!TypeOK
<1>2. Tree!TreeRooted
  BY DEF Tree!Init, Tree!TreeRooted
<1>3. Tree!CachesPointAtEntries
  BY DEF Tree!Init, Tree!CachesPointAtEntries
<1> QED
  BY <1>1, <1>2, <1>3 DEF TreeInv

-----------------------------------------------------------------------------
(* What Add does with an entry that fits. *)

LEMMA AddTypes ==
  ASSUME Tree!TypeOK, NEW e, Fits(e), Tree!Add(e)
  PROVE  /\ entries' \in Seq(Tree!EntryType)
         /\ labels' \in [Ids -> Names \cup {NoName}]
         /\ leaf' \in Ids \cup {NoId}
<1>1. Tree!Known \subseteq Ids
  <2>1. \A i \in DOMAIN entries : entries[i] \in Tree!EntryType
    BY DEF Tree!TypeOK
  <2> QED
    BY <2>1 DEF Tree!Known, Tree!EntryType
<1>2. e.id \in Ids /\ e.name \in Names \cup {NoName}
  BY DEF Fits, Tree!EntryType
<1>3. entries' \in Seq(Tree!EntryType)
  BY DEF Tree!TypeOK, Tree!Add, Fits
<1>4. leaf' \in Ids \cup {NoId}
  BY <1>1, <1>2 DEF Tree!Add, Tree!LeafAfter, Fits
<1>5. labels' \in [Ids -> Names \cup {NoName}]
  BY <1>1, <1>2 DEF Tree!TypeOK, Tree!Add, Tree!LabelsAfter, Fits
<1> QED
  BY <1>3, <1>4, <1>5

LEMMA AddKnown ==
  ASSUME Tree!TypeOK, NEW e, Fits(e), Tree!Add(e)
  PROVE  Tree!Known' = Tree!Known \cup {e.id}
<1>1. entries \in Seq(Tree!EntryType) /\ e \in Tree!EntryType /\ entries' = Append(entries, e)
  BY DEF Tree!TypeOK, Fits, Tree!Add
<1>2. Tree!Known = {entries[i].id : i \in 1 .. Len(entries)}
  BY <1>1, AppendedEntry DEF Tree!Known
<1>3. Tree!Known' = {entries'[i].id : i \in 1 .. Len(entries) + 1}
  BY <1>1, AppendedEntry DEF Tree!Known
<1>4. /\ Len(entries) \in Nat
      /\ entries'[Len(entries) + 1] = e
      /\ \A i \in 1 .. Len(entries) : entries'[i] = entries[i]
  BY <1>1, AppendedEntry
<1> QED
  BY <1>2, <1>3, <1>4

LEMMA AddRooted ==
  ASSUME Tree!TypeOK, Tree!TreeRooted, NEW e, Fits(e), Tree!Add(e)
  PROVE  Tree!TreeRooted'
<1> DEFINE n == Len(entries)
<1>1. entries \in Seq(Tree!EntryType) /\ e \in Tree!EntryType /\ entries' = Append(entries, e)
  BY DEF Tree!TypeOK, Fits, Tree!Add
<1>2. /\ n \in Nat /\ DOMAIN entries = 1 .. n /\ DOMAIN entries' = 1 .. n + 1
      /\ entries'[n + 1] = e /\ \A i \in 1 .. n : entries'[i] = entries[i]
  BY <1>1, AppendedEntry
<1>3. \A i \in 1 .. n : entries[i].id # e.id
  BY <1>2 DEF Fits, Tree!Known
<1>4. ASSUME NEW i \in 1 .. n + 1, NEW j \in 1 .. n + 1, entries'[i].id = entries'[j].id
      PROVE  i = j
  <2>1. CASE i \in 1 .. n /\ j \in 1 .. n
    BY <2>1, <1>2, <1>4 DEF Tree!TreeRooted
  <2>2. CASE i = n + 1 \/ j = n + 1
    BY <2>2, <1>2, <1>3, <1>4
  <2> QED
    BY <1>2, <2>1, <2>2
<1>5. ASSUME NEW i \in 1 .. n
      PROVE  \/ entries'[i].parent = NoId
             \/ \E j \in 1 .. i - 1 : entries'[i].parent = entries'[j].id
             \/ entries'[i].parent = RootId /\ entries'[i].kind = "branch_summary"
  <2>1. \A j \in 1 .. i - 1 : j \in 1 .. n
    BY <1>2
  <2> QED
    BY <1>2, <2>1 DEF Tree!TreeRooted
<1>6. \/ e.parent = NoId
      \/ \E j \in 1 .. n : e.parent = entries'[j].id
      \/ e.parent = RootId /\ e.kind = "branch_summary"
  BY <1>2 DEF Fits, Tree!Known
<1>7. ASSUME NEW i \in 1 .. n + 1
      PROVE  \/ entries'[i].parent = NoId
             \/ \E j \in 1 .. i - 1 : entries'[i].parent = entries'[j].id
             \/ entries'[i].parent = RootId /\ entries'[i].kind = "branch_summary"
  <2>1. CASE i \in 1 .. n
    BY <2>1, <1>5
  <2>2. CASE i = n + 1
    <3>1. 1 .. i - 1 = 1 .. n
      BY <2>2, <1>2
    <3> QED
      BY <2>2, <3>1, <1>6, <1>2
  <2> QED
    BY <2>1, <2>2, <1>2
<1> QED
  BY <1>2, <1>4, <1>7 DEF Tree!TreeRooted

LEMMA AddCaches ==
  ASSUME Tree!TypeOK, Tree!CachesPointAtEntries, NEW e, Fits(e), Tree!Add(e)
  PROVE  /\ leaf' \in Tree!Known' \cup {NoId}
         /\ \A id \in Ids : labels'[id] # NoName => id \in Tree!Known'
<1>1. Tree!Known' = Tree!Known \cup {e.id}
  BY AddKnown
<1>2. leaf' \in Tree!Known' \cup {NoId}
  BY <1>1 DEF Tree!Add, Tree!LeafAfter, Fits
<1>3. ASSUME NEW id \in Ids, labels'[id] # NoName PROVE id \in Tree!Known'
  <2>1. CASE e.kind = "label" /\ e.target = id
    BY <2>1, <1>1 DEF Fits
  <2>2. CASE ~(e.kind = "label" /\ e.target = id)
    <3>1. labels'[id] = labels[id]
      BY <2>2 DEF Tree!Add, Tree!LabelsAfter, Tree!TypeOK
    <3> QED
      BY <3>1, <1>1, <1>3 DEF Tree!CachesPointAtEntries
  <2> QED
    BY <2>1, <2>2
<1> QED
  BY <1>2, <1>3

(* A step that appends a fitting entry and owes a known target, the root   *)
(* or nothing keeps the invariant.                                         *)
LEMMA AddKeepsInv ==
  ASSUME TreeInv, NEW e, Fits(e), Tree!Add(e), owed' \in Tree!Known \cup {NoId, RootId}
  PROVE  TreeInv'
<1> USE DEF TreeInv
<1>1. Tree!Known' = Tree!Known \cup {e.id}
  BY AddKnown
<1>2. Tree!Known \subseteq Ids
  <2>1. \A i \in DOMAIN entries : entries[i] \in Tree!EntryType
    BY DEF Tree!TypeOK
  <2> QED
    BY <2>1 DEF Tree!Known, Tree!EntryType
<1>3. Tree!TypeOK'
  BY <1>2, AddTypes DEF Tree!TypeOK
<1>4. Tree!TreeRooted'
  BY AddRooted
<1>5. Tree!CachesPointAtEntries'
  BY <1>1, AddCaches DEF Tree!CachesPointAtEntries
<1> QED
  BY <1>3, <1>4, <1>5

-----------------------------------------------------------------------------
LEMMA TreeStep ==
  ASSUME Tree!TreeAssumption
  PROVE  TreeInv /\ [Tree!Next]_(Tree!vars) => TreeInv'
<1> SUFFICES ASSUME TreeInv, [Tree!Next]_(Tree!vars) PROVE TreeInv'
  OBVIOUS
<1> USE DEF Tree!TreeAssumption
<1>0. Tree!CurrentLeaf \in Tree!Known \cup {NoId} /\ Tree!Known \subseteq Ids
  <2>1. \A i \in DOMAIN entries : entries[i] \in Tree!EntryType
    BY DEF TreeInv, Tree!TypeOK
  <2> QED
    BY <2>1 DEF Tree!CurrentLeaf, Tree!Known, Tree!EntryType
<1>1. ASSUME NEW id \in Tree!FreshIds, Tree!AppendPlain(id) PROVE TreeInv'
  <2>1. Fits(Tree!PlainEntry(id))
    BY <1>0 DEF Fits, Tree!PlainEntry, Tree!Entry, Tree!EntryType, Tree!Kinds, Tree!FreshIds
  <2> QED
    BY <2>1, <1>1, AddKeepsInv DEF Tree!AppendPlain, TreeInv, Tree!CachesPointAtEntries
<1>2. ASSUME NEW id \in Tree!FreshIds, NEW t \in Ids, NEW n \in Names \cup {NoName},
             Tree!AppendLabel(id, t, n)
      PROVE  TreeInv'
  <2>1. Fits(Tree!LabelEntry(id, t, n))
    BY <1>0, <1>2 DEF Fits, Tree!LabelEntry, Tree!Entry, Tree!EntryType, Tree!Kinds,
      Tree!FreshIds, Tree!AppendLabel, Tree!Targets
  <2> QED
    BY <2>1, <1>2, AddKeepsInv DEF Tree!AppendLabel, TreeInv, Tree!CachesPointAtEntries
<1>3. ASSUME NEW id \in Tree!FreshIds, NEW t \in Ids \cup {NoId}, NEW summarised \in BOOLEAN,
             Tree!MoveTo(id, t, summarised)
      PROVE  TreeInv'
  <2>1. t \in Tree!Known \cup {NoId}
    BY <1>3 DEF Tree!MoveTo, Tree!Targets
  <2>2. leaf \in Tree!Known \cup {NoId}
    BY DEF TreeInv, Tree!CachesPointAtEntries
  <2>3. Fits(Tree!LeafEntry(id, t))
    BY <1>0, <2>1, <2>2 DEF Fits, Tree!LeafEntry, Tree!Entry, Tree!EntryType,
      Tree!Kinds, Tree!FreshIds
  <2>4. owed' \in Tree!Known \cup {NoId, RootId}
    BY <1>3, <2>1 DEF Tree!MoveTo, Tree!SummaryParent
  <2> QED
    BY <2>3, <2>4, <1>3, AddKeepsInv DEF Tree!MoveTo
<1>4. ASSUME NEW id \in Tree!FreshIds, Tree!AddSummary(id) PROVE TreeInv'
  <2>1. owed \in Tree!Known \cup {RootId}
    BY <1>4 DEF Tree!AddSummary, TreeInv, Tree!CachesPointAtEntries
  <2>2. Fits(Tree!SummaryEntry(id))
    BY <1>0, <2>1 DEF Fits, Tree!SummaryEntry, Tree!Entry, Tree!EntryType, Tree!Kinds,
      Tree!FreshIds
  <2> QED
    BY <2>2, <1>4, AddKeepsInv DEF Tree!AddSummary
<1>5. ASSUME NEW id \in Tree!FreshIds, NEW first \in Tree!Known \cup {NoId},
             Tree!AppendCompaction(id, first)
      PROVE  TreeInv'
  <2>1. Fits(Tree!CompactionEntry(id, first))
    BY <1>0 DEF Fits, Tree!CompactionEntry, Tree!Entry, Tree!EntryType, Tree!Kinds,
      Tree!FreshIds
  <2> QED
    BY <2>1, <1>5, AddKeepsInv DEF Tree!AppendCompaction, TreeInv, Tree!CachesPointAtEntries
<1>6. CASE Tree!SummaryFails
  BY <1>6 DEF Tree!SummaryFails, TreeInv, Tree!TypeOK, Tree!TreeRooted,
    Tree!CachesPointAtEntries, Tree!Known
<1>7. CASE Tree!Clear
  BY <1>7 DEF Tree!Clear, TreeInv, Tree!TypeOK, Tree!TreeRooted,
    Tree!CachesPointAtEntries, Tree!Known
<1>8. CASE UNCHANGED Tree!vars
  BY <1>8 DEF Tree!vars, TreeInv, Tree!TypeOK, Tree!TreeRooted,
    Tree!CachesPointAtEntries, Tree!Known
<1> QED
  BY <1>1, <1>2, <1>3, <1>4, <1>5, <1>6, <1>7, <1>8 DEF Tree!Next

LEMMA TreeHolds == ASSUME Tree!TreeAssumption PROVE Tree!Spec => []TreeInv
  BY TreeInit, TreeStep, PTL DEF Tree!Spec

(* Type correctness of the session tree. *)
THEOREM TreeTypes == ASSUME Tree!TreeAssumption PROVE Tree!Spec => []Tree!TypeOK
<1>1. TreeInv => Tree!TypeOK
  BY DEF TreeInv
<1> QED
  BY <1>1, TreeHolds, PTL

(* Identifiers are unique and every parent comes before its child, so the  *)
(* walk of get_path_to_root always ends; only the summary of a move to the *)
(* root hangs below something that is no entry.                            *)
THEOREM TreeIsRooted == ASSUME Tree!TreeAssumption PROVE Tree!Spec => []Tree!TreeRooted
<1>1. TreeInv => Tree!TreeRooted
  BY DEF TreeInv
<1> QED
  BY <1>1, TreeHolds, PTL

(* The leaf and every label belong to entries, so get_leaf_id never hides  *)
(* the leaf and a new entry is never attached to nothing by accident.      *)
THEOREM TreeCachesPointAtEntries ==
  ASSUME Tree!TreeAssumption PROVE Tree!Spec => []Tree!CachesPointAtEntries
<1>1. TreeInv => Tree!CachesPointAtEntries
  BY DEF TreeInv
<1> QED
  BY <1>1, TreeHolds, PTL

(* Both: the walk from the cached leaf goes from entry to entry.           *)
THEOREM TreeIsConsistent == ASSUME Tree!TreeAssumption PROVE Tree!Spec => []Tree!TreeConsistent
<1>1. TreeInv => Tree!TreeConsistent
  BY DEF TreeInv, Tree!TreeConsistent
<1> QED
  BY <1>1, TreeHolds, PTL

-----------------------------------------------------------------------------
(***************************************************************************)
(* The listing of /tree holds every entry: what is listed from the j-th    *)
(* entry on hangs below the entries before it, each entry once; by         *)
(* induction from the last entry to the first.                             *)
(***************************************************************************)

(* Induction by the least counterexample. *)
LEMMA LeastOf ==
  ASSUME NEW S, S \subseteq Nat, S # {}
  PROVE  \E x \in S : \A y \in S : x <= y
<1>1. PICK x \in S : \A y \in S : <<y, x>> \notin OpToRel(<, Nat)
  BY NatLessThanWellFounded, WFMin
<1>2. \A y \in S : ~(y < x)
  BY <1>1 DEF OpToRel
<1>3. \A y \in S : x \in Nat /\ y \in Nat
  OBVIOUS
<1> QED
  BY <1>2, <1>3

(* There is a function like the one that Listing is defined by. *)
LEMMA UnderExists ==
  ASSUME Len(entries) \in Nat
  PROVE  \E f : f = [j \in 1 .. Len(entries) + 1 |->
                       IF j > Len(entries) THEN Tree!NothingUnder ELSE Tree!Hang(j, f[j + 1])]
<1> DEFINE n == Len(entries)
           Row(j, g) == IF j > n THEN Tree!NothingUnder ELSE Tree!Hang(j, g)
           Stands(m) == \E f : f = [j \in m .. n + 1 |-> Row(j, f[j + 1])]
           Missing == {k \in 0 .. n : ~Stands(n + 1 - k)}
<1>1. n \in Nat /\ \A g, h : Row(n + 1, g) = Row(n + 1, h)
  OBVIOUS
<1> HIDE DEF n
<1>2. Missing = {}
  <2> HIDE DEF Row
  <2> SUFFICES ASSUME Missing # {} PROVE FALSE
    OBVIOUS
  <2>1. PICK k \in Missing : \A y \in Missing : k <= y
    <3>1. Missing \subseteq Nat
      BY <1>1
    <3> HIDE DEF Missing
    <3> QED
      BY <3>1, LeastOf
  <2>2. k \in 0 .. n /\ ~Stands(n + 1 - k)
    BY <2>1
  <2>3. CASE k = 0
    <3> DEFINE f == [j \in n + 1 .. n + 1 |-> Row(j, <<>>)]
    <3>1. \A j \in n + 1 .. n + 1 : f[j] = Row(j, f[j + 1])
      BY <1>1
    <3>2. f = [j \in n + 1 .. n + 1 |-> f[j]]
      OBVIOUS
    <3> HIDE DEF f
    <3>3. f = [j \in n + 1 .. n + 1 |-> Row(j, f[j + 1])]
      BY <3>1, <3>2
    <3>4. Stands(n + 1)
      BY <3>3
    <3> QED
      BY <1>1, <2>2, <2>3, <3>4
  <2>4. CASE k # 0
    <3> DEFINE m == n + 1 - k
    <3>1. m \in 1 .. n /\ k - 1 \in 0 .. n /\ n + 1 - (k - 1) = m + 1 /\ m \in Nat
      BY <1>1, <2>2, <2>4
    <3>2. Stands(m + 1)
      <4>1. k - 1 \notin Missing
        <5> HIDE DEF Missing
        <5> QED
          BY <1>1, <2>1, <2>2, <2>4
      <4> HIDE DEF Stands
      <4> QED
        BY <3>1, <4>1
    <3>3. PICK f : f = [j \in m + 1 .. n + 1 |-> Row(j, f[j + 1])]
      BY <3>2
    <3> DEFINE g == [j \in m .. n + 1 |-> IF j = m THEN Row(m, f[m + 1]) ELSE f[j]]
    <3> HIDE DEF m
    <3>4. \A j \in m + 1 .. n + 1 : f[j] = Row(j, f[j + 1])
      BY <3>3
    <3>5. ASSUME NEW j \in m .. n + 1 PROVE g[j] = Row(j, g[j + 1])
      <4>1. CASE j = m
        BY <1>1, <3>1, <4>1
      <4>2. CASE j \in m + 1 .. n
        BY <1>1, <3>1, <3>4, <4>2
      <4>3. CASE j = n + 1
        BY <1>1, <3>1, <3>4, <4>3
      <4> QED
        BY <1>1, <3>1, <4>1, <4>2, <4>3
    <3>6. g = [j \in m .. n + 1 |-> Row(j, g[j + 1])]
      <4>1. g = [j \in m .. n + 1 |-> g[j]]
        OBVIOUS
      <4> HIDE DEF g
      <4> QED
        BY <3>5, <4>1
    <3> HIDE DEF g
    <3>7. Stands(m)
      BY <3>6
    <3> QED
      BY <2>2, <3>7 DEF m
  <2> QED
    BY <2>3, <2>4
<1>3. Stands(1)
  <2>1. n \in 0 .. n /\ n + 1 - n = 1
    BY <1>1
  <2> HIDE DEF Stands
  <2> QED
    BY <1>2, <2>1
<1> QED
  BY <1>3 DEF n

(* What the listing is made of, from the last entry to the first. *)
LEMMA ListingRows ==
  ASSUME Len(entries) \in Nat
  PROVE  \E f : /\ Tree!Listing = f[1][0]
                /\ f[Len(entries) + 1] = Tree!NothingUnder
                /\ \A j \in 1 .. Len(entries) : f[j] = Tree!Hang(j, f[j + 1])
<1> DEFINE n == Len(entries)
           Is(f) == f = [j \in 1 .. n + 1 |-> IF j > n THEN Tree!NothingUnder ELSE Tree!Hang(j, f[j + 1])]
           u == CHOOSE f : Is(f)
<1>1. Is(u)
  <2>1. \E f : Is(f)
    BY UnderExists
  <2> HIDE DEF Is
  <2> QED
    BY <2>1
<1>2. Tree!Listing = u[1][0]
  BY DEF Tree!Listing
<1> HIDE DEF u
<1>3. u[n + 1] = Tree!NothingUnder /\ \A j \in 1 .. n : u[j] = Tree!Hang(j, u[j + 1])
  BY <1>1
<1> QED
  BY <1>2, <1>3

(* Two sequences with nothing in common, one behind the other. *)
LEMMA Joined ==
  ASSUME NEW S, NEW s \in Seq(S), NEW t \in Seq(S), IsInjective(s), IsInjective(t),
         Range(s) \cap Range(t) = {}
  PROVE  IsInjective(s \o t)
<1>1. /\ DOMAIN s = 1 .. Len(s) /\ DOMAIN t = 1 .. Len(t) /\ Len(s) \in Nat /\ Len(t) \in Nat
      /\ DOMAIN (s \o t) = 1 .. Len(s) + Len(t)
      /\ \A i \in 1 .. Len(s) + Len(t) : (s \o t)[i] = IF i <= Len(s) THEN s[i] ELSE t[i - Len(s)]
  OBVIOUS
<1>2. \A a, b \in DOMAIN s : s[a] = s[b] => a = b
  BY DEF IsInjective
<1>3. \A a, b \in DOMAIN t : t[a] = t[b] => a = b
  BY DEF IsInjective
<1>4. \A a \in DOMAIN s, b \in DOMAIN t : s[a] # t[b]
  BY DEF Range
<1> SUFFICES ASSUME NEW a \in 1 .. Len(s) + Len(t), NEW b \in 1 .. Len(s) + Len(t),
                    (s \o t)[a] = (s \o t)[b]
             PROVE  a = b
  BY <1>1 DEF IsInjective
<1>5. CASE a <= Len(s) /\ b <= Len(s)
  BY <1>1, <1>2, <1>5
<1>6. CASE a <= Len(s) /\ ~(b <= Len(s))
  BY <1>1, <1>4, <1>6
<1>7. CASE ~(a <= Len(s)) /\ b <= Len(s)
  BY <1>1, <1>4, <1>7
<1>8. CASE ~(a <= Len(s)) /\ ~(b <= Len(s))
  <2>1. a - Len(s) \in DOMAIN t /\ b - Len(s) \in DOMAIN t
    BY <1>1, <1>8
  <2>2. t[a - Len(s)] = t[b - Len(s)]
    BY <1>1, <1>8
  <2> QED
    BY <1>1, <1>3, <2>1, <2>2
<1> QED
  BY <1>5, <1>6, <1>7, <1>8

-----------------------------------------------------------------------------
(* The listing when the entries from j on are in it: each of them is below *)
(* one of the entries before j, once.                                      *)
ListedFrom(g, j) ==
  /\ g \in [0 .. Len(entries) -> Seq(Tree!EntryType)]
  /\ \A i \in 0 .. Len(entries) : Range(g[i]) \subseteq {entries[k] : k \in j .. Len(entries)}
  /\ \A k \in j .. Len(entries) : \E i \in 0 .. j - 1 : entries[k] \in Range(g[i])
  /\ \A i \in 0 .. j - 1 : IsInjective(g[i])
  /\ \A i, h \in 0 .. j - 1 : i # h => Range(g[i]) \cap Range(g[h]) = {}

(* An entry is listed below an entry before it, or at the top.             *)
LEMMA ParentsBefore ==
  ASSUME Tree!TreeAssumption, TreeInv, NEW j \in 1 .. Len(entries)
  PROVE  Tree!ParentOf(j) \in 0 .. j - 1
<1>1. /\ Len(entries) \in Nat /\ DOMAIN entries = 1 .. Len(entries)
      /\ \A i \in 1 .. Len(entries) : entries[i] \in Tree!EntryType
  BY DEF TreeInv, Tree!TypeOK
<1>2. CASE entries[j].parent \notin Tree!Known
  BY <1>1, <1>2 DEF Tree!ParentOf
<1>3. CASE entries[j].parent \in Tree!Known
  <2>1. \A i \in 1 .. Len(entries) : entries[i].id \in Ids
    BY <1>1 DEF Tree!EntryType
  <2>2. entries[j].parent \in Ids
    BY <1>1, <1>3, <2>1 DEF Tree!Known
  <2>3. PICK i \in 1 .. j - 1 : entries[j].parent = entries[i].id
    BY <1>1, <2>2 DEF TreeInv, Tree!TreeRooted, Tree!TreeAssumption
  <2>4. i \in DOMAIN entries
    BY <1>1
  <2>5. Tree!IndexOf(entries[j].parent) = i
    BY <1>1, <2>3, <2>4 DEF Tree!IndexOf, TreeInv, Tree!TreeRooted
  <2> QED
    BY <1>1, <1>3, <2>5 DEF Tree!ParentOf
<1> QED
  BY <1>2, <1>3

(* Hanging the j-th entry puts it, and what hangs below it, in its place.  *)
LEMMA HangLists ==
  ASSUME Tree!TreeAssumption, TreeInv, NEW j \in 1 .. Len(entries), NEW g, ListedFrom(g, j + 1)
  PROVE  ListedFrom(Tree!Hang(j, g), j)
<1> DEFINE n == Len(entries)
           p == Tree!ParentOf(j)
           e == entries[j]
           new == <<e>> \o g[j] \o g[p]
           h == Tree!Hang(j, g)
<1>1. /\ n \in Nat /\ DOMAIN entries = 1 .. n /\ j \in 1 .. n
      /\ \A i \in 1 .. n : entries[i] \in Tree!EntryType
  BY DEF TreeInv, Tree!TypeOK
<1>2. p \in 0 .. j - 1
  BY ParentsBefore
<1>3. \A i, k \in 1 .. n : entries[i] = entries[k] => i = k
  BY <1>1 DEF TreeInv, Tree!TreeRooted
<1>4. h = [g EXCEPT ![p] = new]
  BY DEF Tree!Hang
<1> HIDE DEF p, e, h
<1>5. /\ g \in [0 .. n -> Seq(Tree!EntryType)]
      /\ \A i \in 0 .. n : Range(g[i]) \subseteq {entries[k] : k \in j + 1 .. n}
      /\ \A k \in j + 1 .. n : \E i \in 0 .. j : entries[k] \in Range(g[i])
      /\ \A i \in 0 .. j : IsInjective(g[i])
      /\ \A i, l \in 0 .. j : i # l => Range(g[i]) \cap Range(g[l]) = {}
  <2>1. 0 .. (j + 1) - 1 = 0 .. j
    BY <1>1
  <2>2. n = Len(entries)
    OBVIOUS
  <2> HIDE DEF n
  <2> QED
    BY Zenon, <2>1, <2>2 DEF ListedFrom
<1> HIDE DEF n
<1>6. /\ e \in Tree!EntryType /\ e = entries[j]
      /\ p \in 0 .. n /\ j \in 0 .. n /\ p \in 0 .. j /\ j \in 0 .. j /\ p # j
      /\ g[p] \in Seq(Tree!EntryType) /\ g[j] \in Seq(Tree!EntryType)
  BY <1>1, <1>2, <1>5 DEF e
<1>7. \A i \in 0 .. n : e \notin Range(g[i])
  <2> SUFFICES ASSUME NEW i \in 0 .. n, e \in Range(g[i]) PROVE FALSE
    OBVIOUS
  <2>1. PICK k \in j + 1 .. n : e = entries[k]
    BY <1>5
  <2>2. k \in 1 .. n /\ k # j
    BY <1>1, <2>1
  <2> QED
    BY <1>1, <1>3, <1>6, <2>1, <2>2
<1>8. /\ new \in Seq(Tree!EntryType) /\ IsInjective(new)
      /\ Range(new) = {e} \cup Range(g[j]) \cup Range(g[p])
  <2>1. /\ <<e>> \in Seq(Tree!EntryType) /\ IsInjective(<<e>>) /\ Range(<<e>>) = {e}
    BY <1>6 DEF IsInjective, Range
  <2> DEFINE head == <<e>>
             mid == head \o g[j]
  <2> HIDE DEF head
  <2>2. /\ mid \in Seq(Tree!EntryType) /\ Range(mid) = {e} \cup Range(g[j])
    <3>1. head \in Seq(Tree!EntryType) /\ Range(head) = {e}
      BY <2>1 DEF head
    <3>2. mid \in Seq(Tree!EntryType)
      BY <1>6, <3>1, ConcatProperties
    <3>3. Range(mid) = Range(head) \cup Range(g[j])
      BY <1>6, <3>1, RangeConcatenation
    <3> HIDE DEF mid
    <3> QED
      BY <3>1, <3>2, <3>3
  <2>3. IsInjective(mid)
    <3>1. head \in Seq(Tree!EntryType) /\ IsInjective(head) /\ Range(head) \cap Range(g[j]) = {}
      BY <1>6, <1>7, <2>1 DEF head
    <3> QED
      BY <1>5, <1>6, <3>1, Joined
  <2> HIDE DEF mid
  <2>4. Range(mid) \cap Range(g[p]) = {}
    <3>1. Range(g[j]) \cap Range(g[p]) = {} /\ e \notin Range(g[p])
      BY <1>5, <1>6, <1>7
    <3> QED
      BY <2>2, <3>1
  <2>5. mid \o g[p] \in Seq(Tree!EntryType) /\ Range(mid \o g[p]) = Range(mid) \cup Range(g[p])
    BY <1>6, <2>2, RangeConcatenation, ConcatProperties
  <2>6. IsInjective(mid \o g[p])
    BY <1>5, <1>6, <2>2, <2>3, <2>4, Joined
  <2>7. new = mid \o g[p]
    BY DEF mid, head
  <2> HIDE DEF new
  <2> QED
    BY <2>2, <2>5, <2>6, <2>7
<1> HIDE DEF new
<1>9. /\ h \in [0 .. n -> Seq(Tree!EntryType)] /\ h[p] = new
      /\ \A i \in 0 .. n : i # p => h[i] = g[i]
  BY <1>4, <1>5, <1>6, <1>8
<1>10. ASSUME NEW i \in 0 .. n PROVE Range(h[i]) \subseteq {entries[k] : k \in j .. n}
  <2>1. {entries[k] : k \in j + 1 .. n} \subseteq {entries[k] : k \in j .. n}
    BY <1>1
  <2>2. e \in {entries[k] : k \in j .. n}
    BY <1>1, <1>6
  <2> QED
    BY <1>5, <1>6, <1>8, <1>9, <2>1, <2>2
<1>11. ASSUME NEW k \in j .. n PROVE \E i \in 0 .. j - 1 : entries[k] \in Range(h[i])
  <2>1. CASE k = j
    BY <1>2, <1>6, <1>8, <1>9, <2>1
  <2>2. CASE k # j
    <3>1. PICK i \in 0 .. j : entries[k] \in Range(g[i])
      <4>1. k \in j + 1 .. n
        BY <1>1, <2>2
      <4> QED
        BY <1>5, <4>1
    <3>2. CASE i = j \/ i = p
      BY <1>2, <1>8, <1>9, <3>1, <3>2
    <3>3. CASE i # j /\ i # p
      <4>1. i \in 0 .. j - 1 /\ i \in 0 .. n
        BY <1>1, <3>3
      <4> QED
        BY <1>9, <3>1, <3>3, <4>1
    <3> QED
      BY <3>2, <3>3
  <2> QED
    BY <2>1, <2>2
<1>12. ASSUME NEW i \in 0 .. j - 1 PROVE IsInjective(h[i]) /\ i \in 0 .. n /\ i \in 0 .. j /\ i # j
  <2>1. i \in 0 .. n /\ i \in 0 .. j /\ i # j
    BY <1>1
  <2> QED
    BY <1>5, <1>8, <1>9, <2>1
<1>13. ASSUME NEW i \in 0 .. j - 1, NEW l \in 0 .. j - 1, i # l
       PROVE  Range(h[i]) \cap Range(h[l]) = {}
  <2>1. \A a, b \in 0 .. j : a # b => Range(g[a]) \cap Range(g[b]) = {}
    BY <1>5
  <2>2. ASSUME NEW a \in 0 .. j - 1, a # p PROVE Range(h[a]) \cap Range(h[p]) = {}
    <3>1. a \in 0 .. j /\ a \in 0 .. n /\ a # j
      BY <1>12
    <3>2. Range(g[a]) \cap Range(g[j]) = {} /\ Range(g[a]) \cap Range(g[p]) = {}
      BY <1>6, <2>1, <2>2, <3>1
    <3>3. e \notin Range(g[a]) /\ h[a] = g[a]
      BY <1>7, <1>9, <2>2, <3>1
    <3> QED
      BY <1>8, <1>9, <3>2, <3>3
  <2>3. CASE i = p \/ l = p
    BY <1>13, <2>2, <2>3
  <2>4. CASE i # p /\ l # p
    BY <1>9, <1>12, <1>13, <2>1, <2>4
  <2> QED
    BY <2>3, <2>4
<1> QED
  BY <1>9, <1>10, <1>11, <1>12, <1>13 DEF ListedFrom, n, h

(* Everything is below row 0 in the end: the listing is injective and onto *)
(* the entries, so it is as long as they are.                              *)
LEMMA ListsAll ==
  ASSUME Tree!TreeAssumption, TreeInv
  PROVE  Tree!EveryEntryListed
<1> DEFINE n == Len(entries)
<1>1. /\ n \in Nat /\ DOMAIN entries = 1 .. n
      /\ \A i \in 1 .. n : entries[i] \in Tree!EntryType
      /\ \A i, k \in 1 .. n : entries[i] = entries[k] => i = k
  BY DEF TreeInv, Tree!TypeOK, Tree!TreeRooted
<1>2. PICK f : /\ Tree!Listing = f[1][0]
               /\ f[n + 1] = Tree!NothingUnder
               /\ \A j \in 1 .. n : f[j] = Tree!Hang(j, f[j + 1])
  BY <1>1, ListingRows
<1>3. ListedFrom(f[n + 1], n + 1)
  <2>1. /\ Tree!NothingUnder \in [0 .. n -> Seq(Tree!EntryType)]
        /\ \A i \in 0 .. n : Tree!NothingUnder[i] = <<>>
    BY DEF Tree!NothingUnder
  <2>2. Range(<<>>) = {} /\ IsInjective(<<>>)
    BY DEF Range, IsInjective
  <2>3. n + 1 - 1 = n /\ n + 1 .. n = {}
    BY <1>1
  <2> HIDE DEF n
  <2> QED
    BY <1>1, <1>2, <2>1, <2>2, <2>3 DEF ListedFrom, n
<1> DEFINE Unlisted == {k \in 0 .. n : ~ListedFrom(f[n + 1 - k], n + 1 - k)}
<1>4. Unlisted = {}
  <2> SUFFICES ASSUME Unlisted # {} PROVE FALSE
    OBVIOUS
  <2>1. PICK k \in Unlisted : \A y \in Unlisted : k <= y
    <3>1. Unlisted \subseteq Nat
      BY <1>1
    <3> HIDE DEF Unlisted
    <3> QED
      BY <3>1, LeastOf
  <2>2. k \in 0 .. n /\ ~ListedFrom(f[n + 1 - k], n + 1 - k)
    BY <2>1
  <2>3. k # 0
    <3>1. n + 1 - 0 = n + 1
      BY <1>1
    <3> QED
      BY <1>3, <2>2, <3>1
  <2> DEFINE m == n + 1 - k
  <2>4. m \in 1 .. n /\ k - 1 \in 0 .. n /\ n + 1 - (k - 1) = m + 1
    BY <1>1, <2>2, <2>3
  <2>5. k - 1 \notin Unlisted
    <3> HIDE DEF Unlisted
    <3> QED
      BY <1>1, <2>1, <2>2, <2>4
  <2>6. ListedFrom(f[m + 1], m + 1)
    <3> HIDE DEF m
    <3> QED
      BY <2>4, <2>5
  <2> HIDE DEF m
  <2>7. ListedFrom(f[m], m)
    BY <1>2, <2>4, <2>6, HangLists
  <2> QED
    BY <2>2, <2>7 DEF m
<1>5. ListedFrom(f[1], 1)
  <2>1. n \in 0 .. n /\ n + 1 - n = 1
    BY <1>1
  <2> HIDE DEF n
  <2> QED
    BY <1>4, <2>1
<1> DEFINE s == Tree!Listing
           T == {entries[k] : k \in 1 .. n}
<1>6. s \in Seq(Tree!EntryType) /\ IsInjective(s) /\ Range(s) = T
  <2>1. 0 \in 0 .. n /\ 1 - 1 = 0 /\ 0 .. 0 = {0}
    BY <1>1
  <2> HIDE DEF s, n
  <2>2. /\ f[1][0] \in Seq(Tree!EntryType) /\ IsInjective(f[1][0])
        /\ Range(f[1][0]) \subseteq {entries[k] : k \in 1 .. n}
        /\ \A k \in 1 .. n : entries[k] \in Range(f[1][0])
    BY <1>5, <2>1 DEF ListedFrom, n
  <2> QED
    BY <1>2, <2>2 DEF s
<1> HIDE DEF s, n
<1>7. /\ Len(s) \in Nat /\ DOMAIN s = 1 .. Len(s)
      /\ s \in Surjection(1 .. Len(s), T) /\ s \in Injection(1 .. Len(s), T)
  <2>1. Len(s) \in Nat /\ DOMAIN s = 1 .. Len(s) /\ s = [i \in 1 .. Len(s) |-> s[i]]
    BY <1>6
  <2>2. \A i \in 1 .. Len(s) : s[i] \in T
    BY <1>6, <2>1 DEF Range
  <2>3. s \in [1 .. Len(s) -> T]
    <3> HIDE DEF T
    <3> QED
      BY <2>1, <2>2
  <2>4. \A t \in T : \E i \in 1 .. Len(s) : s[i] = t
    BY <1>6, <2>1 DEF Range
  <2> HIDE DEF T
  <2> QED
    BY <1>6, <2>1, <2>3, <2>4 DEF Surjection, Injection
<1>8. entries \in Surjection(1 .. n, T) /\ entries \in Injection(1 .. n, T)
  <2>1. entries = [i \in 1 .. n |-> entries[i]]
    BY <1>1 DEF TreeInv, Tree!TypeOK, n
  <2>2. entries \in [1 .. n -> T]
    BY <2>1
  <2>3. IsInjective(entries)
    BY <1>1 DEF IsInjective
  <2> QED
    BY <2>2, <2>3 DEF Surjection, Injection
<1> HIDE DEF T
<1>9. /\ IsFiniteSet(1 .. n) /\ Cardinality(1 .. n) = n
      /\ IsFiniteSet(1 .. Len(s)) /\ Cardinality(1 .. Len(s)) = Len(s)
  <2>1. \A k \in Nat : IsFiniteSet(1 .. k) /\ Cardinality(1 .. k) = k
    BY FS_Interval
  <2> QED
    BY <1>1, <1>7, <2>1
<1>10. Cardinality(T) = n
  BY <1>8, <1>9, FS_Surjection
<1>11. Cardinality(T) = Len(s)
  BY <1>7, <1>9, FS_Surjection
<1>12. \A i \in DOMAIN entries : \E k \in DOMAIN s : s[k] = entries[i]
  <2>1. \A i \in 1 .. n : entries[i] \in T
    BY DEF T
  <2> QED
    BY <1>1, <1>6, <2>1 DEF Range
<1> QED
  BY <1>10, <1>11, <1>12 DEF Tree!EveryEntryListed, s, n
-----------------------------------------------------------------------------
(* What a set of numbers becomes when a greater one is added.              *)
LEMMA NthOfMore ==
  ASSUME NEW n \in Nat, NEW S, S \subseteq 1 .. n
  PROVE  /\ Cardinality(S) \in Nat
         /\ Cardinality(S \cup {n + 1}) = Cardinality(S) + 1
         /\ \A k \in 1 .. Cardinality(S) : Nth(S \cup {n + 1}, k) = Nth(S, k)
         /\ Nth(S \cup {n + 1}, Cardinality(S) + 1) = {n + 1}
<1>1. IsFiniteSet(S) /\ Cardinality(S) \in Nat
  <2>1. IsFiniteSet(1 .. n)
    BY FS_Interval
  <2>2. IsFiniteSet(S)
    BY <2>1, FS_Subset
  <2> QED
    BY <2>2, FS_CardinalityType
<1>2. /\ \A i \in S : i \in Nat /\ i <= n + 1 /\ ~(n + 1 <= i)
      /\ n + 1 \notin S /\ n + 1 \in Nat
  OBVIOUS
<1>3. Cardinality(S \cup {n + 1}) = Cardinality(S) + 1
  BY <1>1, <1>2, FS_AddElement
<1>4. \A i \in S : {j \in S \cup {n + 1} : j <= i} = {j \in S : j <= i}
  BY <1>2
<1>5. {j \in S \cup {n + 1} : j <= n + 1} = S \cup {n + 1}
  <2>1. n + 1 <= n + 1
    BY <1>2
  <2> QED
    BY <1>2, <2>1
<1>6. ASSUME NEW i \in S
      PROVE  /\ Cardinality({j \in S : j <= i}) \in Nat
             /\ Cardinality({j \in S : j <= i}) <= Cardinality(S)
  <2>1. PICK T \in SUBSET S : T = {j \in S : j <= i}
    OBVIOUS
  <2>2. IsFiniteSet(T) /\ Cardinality(T) <= Cardinality(S)
    BY <1>1, FS_Subset
  <2> QED
    BY <2>1, <2>2, FS_CardinalityType
<1>7. ASSUME NEW k \in 1 .. Cardinality(S) PROVE Nth(S \cup {n + 1}, k) = Nth(S, k)
  <2>1. Cardinality({j \in S \cup {n + 1} : j <= n + 1}) # k
    <3>1. PICK c \in Nat : c = Cardinality(S)
      BY <1>1
    <3>2. k # c + 1
      BY <3>1
    <3>3. Cardinality({j \in S \cup {n + 1} : j <= n + 1}) = c + 1
      BY <1>3, <1>5, <3>1
    <3> QED
      BY <3>2, <3>3
  <2>2. \A i \in S : Cardinality({j \in S \cup {n + 1} : j <= i}) = Cardinality({j \in S : j <= i})
    BY <1>4
  <2> QED
    BY <2>1, <2>2 DEF Nth
<1>8. Nth(S \cup {n + 1}, Cardinality(S) + 1) = {n + 1}
  <2>1. Cardinality({j \in S \cup {n + 1} : j <= n + 1}) = Cardinality(S) + 1
    BY <1>3, <1>5
  <2>2. ASSUME NEW i \in S
        PROVE  Cardinality({j \in S \cup {n + 1} : j <= i}) # Cardinality(S) + 1
    <3>1. PICK c : c = Cardinality({j \in S : j <= i})
      OBVIOUS
    <3>2. c \in Nat
      BY <1>6, <3>1
    <3>3. c <= Cardinality(S)
      BY <1>6, <3>1
    <3>4. Cardinality({j \in S \cup {n + 1} : j <= i}) = c
      BY <1>4, <3>1
    <3> QED
      BY <1>1, <3>2, <3>3, <3>4
  <2> QED
    BY <2>1, <2>2 DEF Nth
<1> QED
  BY <1>1, <1>3, <1>7, <1>8

LEMMA OneOfOne == ASSUME NEW x PROVE One({x}) = x
  BY DEF One

(* Only a JSON piece adds an entry, and it adds it at the end.             *)
LEMMA EntriesOfAppend ==
  ASSUME NEW P, NEW f \in Seq(P), NEW p \in P
  PROVE  /\ p.piece # "entry" => EntriesIn(Append(f, p)) = EntriesIn(f)
         /\ p.piece = "entry" => /\ \A T : EntriesIn(f) \in Seq(T) /\ p.entry \in T =>
                                      EntriesIn(Append(f, p)) = Append(EntriesIn(f), p.entry)
<1> DEFINE g == Append(f, p)
           n == Len(f)
<1>1. /\ n \in Nat /\ DOMAIN f = 1 .. n /\ DOMAIN g = 1 .. n + 1
      /\ g[n + 1] = p /\ \A i \in 1 .. n : g[i] = f[i]
  OBVIOUS
<1>2. 1 .. n + 1 = (1 .. n) \cup {n + 1} /\ n + 1 \notin 1 .. n
  BY <1>1
<1> HIDE DEF g, n
<1>3. Jsons(f) \subseteq 1 .. n
  BY <1>1 DEF Jsons
<1>4. \A k : Nth(Jsons(f), k) \subseteq 1 .. n
  BY <1>3 DEF Nth
<1>5. \A k : {g[i].entry : i \in Nth(Jsons(f), k)} = {f[i].entry : i \in Nth(Jsons(f), k)}
  BY <1>1, <1>4
<1>6. ASSUME p.piece # "entry" PROVE EntriesIn(g) = EntriesIn(f)
  <2>1. Jsons(g) = Jsons(f)
    BY <1>1, <1>2, <1>6 DEF Jsons
  <2> QED
    BY <1>5, <2>1 DEF EntriesIn
<1>7. ASSUME p.piece = "entry", NEW T, EntriesIn(f) \in Seq(T), p.entry \in T
      PROVE  EntriesIn(g) = Append(EntriesIn(f), p.entry)
  <2>1. PICK J, c : J = Jsons(f) /\ c = Cardinality(J)
    OBVIOUS
  <2>2. Jsons(g) = J \cup {n + 1}
    BY <1>1, <1>2, <1>7, <2>1 DEF Jsons
  <2>3. /\ c \in Nat /\ Cardinality(Jsons(g)) = c + 1
        /\ \A k \in 1 .. c : Nth(Jsons(g), k) = Nth(J, k)
        /\ Nth(Jsons(g), c + 1) = {n + 1}
    <3>1. J \subseteq 1 .. n /\ n \in Nat
      BY <1>1, <1>3, <2>1
    <3>2. /\ Cardinality(J) \in Nat
          /\ Cardinality(J \cup {n + 1}) = Cardinality(J) + 1
          /\ \A k \in 1 .. Cardinality(J) : Nth(J \cup {n + 1}, k) = Nth(J, k)
          /\ Nth(J \cup {n + 1}, Cardinality(J) + 1) = {n + 1}
      BY <3>1, NthOfMore
    <3> QED
      BY <2>1, <2>2, <3>2
  <2>4. PICK es \in Seq(T) : es = EntriesIn(f)
    BY <1>7
  <2>5. /\ DOMAIN es = 1 .. c /\ Len(es) = c
        /\ \A k \in 1 .. c : es[k] = One({f[i].entry : i \in Nth(J, k)})
    <3>1. DOMAIN es = 1 .. c /\ \A k \in 1 .. c : es[k] = One({f[i].entry : i \in Nth(J, k)})
      BY <2>1, <2>4 DEF EntriesIn
    <3> QED
      BY <2>3, <2>4, <3>1
  <2>6. \A k \in 1 .. c : One({g[i].entry : i \in Nth(Jsons(g), k)}) = es[k]
    BY <1>5, <2>1, <2>3, <2>5
  <2>7. One({g[i].entry : i \in Nth(Jsons(g), c + 1)}) = p.entry
    <3>1. {g[i].entry : i \in {n + 1}} = {p.entry}
      BY <1>1
    <3> QED
      BY <2>3, <3>1, OneOfOne
  <2>8. PICK fs : fs = Append(es, p.entry)
    OBVIOUS
  <2>9. /\ DOMAIN fs = 1 .. c + 1 /\ fs[c + 1] = p.entry
        /\ \A k \in 1 .. c : fs[k] = es[k]
        /\ fs = [k \in 1 .. c + 1 |-> fs[k]]
    BY <1>7, <2>4, <2>5, <2>8
  <2>10. \A k \in 1 .. c + 1 : One({g[i].entry : i \in Nth(Jsons(g), k)}) = fs[k]
    <3>1. \A k \in 1 .. c + 1 : k \in 1 .. c \/ k = c + 1
      BY <2>3
    <3> QED
      BY <2>6, <2>7, <2>9, <3>1
  <2>11. EntriesIn(g) = [k \in 1 .. c + 1 |-> fs[k]]
    BY <2>3, <2>10 DEF EntriesIn
  <2> QED
    BY <2>4, <2>8, <2>9, <2>11
<1> QED
  BY <1>6, <1>7 DEF g

-----------------------------------------------------------------------------
(* Replaying one entry more is what appending it does to the caches.       *)
LEMMA LabelsOfAppend ==
  ASSUME NEW T, NEW es \in Seq(T), NEW e \in T
  PROVE  LabelsOf(Append(es, e)) = Tree!LabelsAfter(LabelsOf(es), e)
<1> DEFINE fs == Append(es, e)
           n  == Len(es)
<1>1. /\ n \in Nat /\ DOMAIN es = 1 .. n /\ DOMAIN fs = 1 .. n + 1
      /\ fs[n + 1] = e /\ \A i \in 1 .. n : fs[i] = es[i] /\ i # n + 1 /\ i <= n + 1
      /\ \A i \in 1 .. n + 1 : i \in 1 .. n \/ i = n + 1
      /\ \A i \in 1 .. n : i \in 1 .. n + 1 /\ ~(n + 1 <= i)
      /\ n + 1 \in 1 .. n + 1 /\ n + 1 <= n + 1
  OBVIOUS
<1> HIDE DEF fs, n
<1>2. ASSUME NEW id \in Ids, e.kind = "label", e.target = id
      PROVE  LabelsOf(fs)[id] = e.name
  <2>1. LabelsFor(fs, id) = LabelsFor(es, id) \cup {n + 1}
    BY <1>1, <1>2 DEF LabelsFor
  <2>2. LabelsFor(es, id) \subseteq 1 .. n
    BY <1>1 DEF LabelsFor
  <2>3. {i \in LabelsFor(fs, id) : \A j \in LabelsFor(fs, id) : j <= i} = {n + 1}
    BY <1>1, <2>1, <2>2
  <2>4. {fs[i].name : i \in {i \in LabelsFor(fs, id) : \A j \in LabelsFor(fs, id) : j <= i}}
          = {e.name}
    BY <1>1, <2>3
  <2>5. LabelsFor(fs, id) # {}
    BY <2>1
  <2> QED
    BY <2>4, <2>5, OneOfOne DEF LabelsOf
<1>3. ASSUME NEW id \in Ids, ~(e.kind = "label" /\ e.target = id)
      PROVE  LabelsOf(fs)[id] = LabelsOf(es)[id]
  <2>1. LabelsFor(fs, id) = LabelsFor(es, id)
    BY <1>1, <1>3 DEF LabelsFor
  <2>2. LabelsFor(es, id) \subseteq 1 .. n
    BY <1>1 DEF LabelsFor
  <2>3. PICK L : L = {i \in LabelsFor(es, id) : \A j \in LabelsFor(es, id) : j <= i}
    OBVIOUS
  <2>4. L \subseteq 1 .. n
    BY <2>2, <2>3
  <2>5. PICK N : N = {es[i].name : i \in L} /\ N = {fs[i].name : i \in L}
    BY <1>1, <2>4
  <2>6. LabelsOf(es)[id] = IF LabelsFor(es, id) = {} THEN NoName ELSE One(N)
    BY <2>3, <2>5 DEF LabelsOf
  <2>7. LabelsOf(fs)[id] = IF LabelsFor(es, id) = {} THEN NoName ELSE One(N)
    BY <2>1, <2>3, <2>5 DEF LabelsOf
  <2> QED
    BY <2>6, <2>7
<1>4. PICK l, m : l = LabelsOf(es) /\ m = LabelsOf(fs)
  OBVIOUS
<1>5. /\ DOMAIN l = Ids /\ DOMAIN m = Ids
      /\ m = [id \in Ids |-> m[id]] /\ l = [id \in Ids |-> l[id]]
  BY <1>4 DEF LabelsOf
<1>6. CASE e.kind = "label"
  <2>1. \A id \in Ids : m[id] = IF id = e.target THEN e.name ELSE l[id]
    BY <1>2, <1>3, <1>4, <1>6
  <2>2. m = [l EXCEPT ![e.target] = e.name]
    <3>1. PICK t, v : t = e.target /\ v = e.name
      OBVIOUS
    <3>2. [l EXCEPT ![t] = v] = [id \in Ids |-> IF id = t THEN v ELSE l[id]]
      BY <1>5
    <3>3. m = [id \in Ids |-> IF id = t THEN v ELSE l[id]]
      BY <1>5, <2>1, <3>1
    <3> QED
      BY <3>1, <3>2, <3>3
  <2> QED
    BY <1>4, <1>6, <2>2 DEF Tree!LabelsAfter, fs
<1>7. CASE e.kind # "label"
  <2>1. \A id \in Ids : m[id] = l[id]
    BY <1>3, <1>4, <1>7
  <2>2. m = l
    BY <1>5, <2>1
  <2> QED
    BY <1>4, <1>7, <2>2 DEF Tree!LabelsAfter, fs
<1> QED
  BY <1>6, <1>7

LEMMA LeafOfAppend ==
  ASSUME NEW T, NEW es \in Seq(T), NEW e \in T
  PROVE  LeafOf(Append(es, e)) = Tree!LeafAfter(e)
<1>1. PICK fs : fs = Append(es, e)
  OBVIOUS
<1>2. fs # <<>> /\ Last(fs) = e
  BY <1>1 DEF Last
<1> QED
  BY <1>1, <1>2 DEF LeafOf

-----------------------------------------------------------------------------
(***************************************************************************)
(* The invariant: what is being appended is what an operation asked for in *)
(* the tree as it stands, the caches are those of the entries, and the     *)
(* file, unless a line of it is torn, tells of the entries and of what has *)
(* been written since.                                                     *)
(***************************************************************************)

Asked(job) ==
  \E id \in Tree!FreshIds :
    \/ owed = NoId /\ job = Job(Tree!PlainEntry(id), NoId)
    \/ \E first \in Tree!Known \cup {NoId} :
         owed = NoId /\ job = Job(Tree!CompactionEntry(id, first), NoId)
    \/ \E t \in Ids, n \in Names \cup {NoName} :
         owed = NoId /\ t \in Tree!Targets /\ job = Job(Tree!LabelEntry(id, t, n), NoId)
    \/ \E t \in Ids \cup {NoId}, summarised \in BOOLEAN :
         /\ owed = NoId /\ t \in Tree!Targets \cup {NoId}
         /\ job = Job(Tree!LeafEntry(id, t),
                      IF summarised THEN Tree!SummaryParent(t) ELSE NoId)
    \/ owed # NoId /\ job = Job(Tree!SummaryEntry(id), NoId)

JobStands ==
  /\ pc = "ready" => pending = NoJob
  /\ pc \in {"opening", "writing", "written"} => pending # NoJob
  /\ pending # NoJob => Asked(pending)

CachesReplayed == labels = LabelsOf(entries) /\ leaf = LeafOf(entries)

Whole(f) == \A i \in DOMAIN f : f[i] # Torn

FileTells ==
  /\ Len(file) > 0 /\ file[1] = Header
  /\ Whole(file) =>
       /\ pc \in {"ready", "opening", "writing"} => EntriesIn(file) = entries
       /\ pc = "written" => EntriesIn(file) = Append(entries, pending.entry)
       /\ pc = "down" => \/ EntriesIn(file) = entries
                         \/ pending # NoJob /\ EntriesIn(file) = Append(entries, pending.entry)

Inv == TypeOK /\ TreeInv /\ JobStands /\ CachesReplayed /\ FileTells

-----------------------------------------------------------------------------
(* The operations. *)

LEMMA AskedTyped ==
  ASSUME Tree!TypeOK, NEW job, Asked(job)
  PROVE  job \in [entry : Tree!EntryType, owed : Ids \cup {NoId, RootId}] /\ job # NoJob
<1>1. Tree!Known \subseteq Ids
  <2>1. \A i \in DOMAIN entries : entries[i] \in Tree!EntryType
    BY DEF Tree!TypeOK
  <2> QED
    BY <2>1 DEF Tree!Known, Tree!EntryType
<1>2. Tree!CurrentLeaf \in Ids \cup {NoId} /\ leaf \in Ids \cup {NoId}
      /\ owed \in Ids \cup {NoId, RootId}
  BY DEF Tree!TypeOK, Tree!CurrentLeaf
<1>3. PICK id \in Tree!FreshIds :
    \/ owed = NoId /\ job = Job(Tree!PlainEntry(id), NoId)
    \/ \E first \in Tree!Known \cup {NoId} :
         owed = NoId /\ job = Job(Tree!CompactionEntry(id, first), NoId)
    \/ \E t \in Ids, n \in Names \cup {NoName} :
         owed = NoId /\ t \in Tree!Targets /\ job = Job(Tree!LabelEntry(id, t, n), NoId)
    \/ \E t \in Ids \cup {NoId}, summarised \in BOOLEAN :
         /\ owed = NoId /\ t \in Tree!Targets \cup {NoId}
         /\ job = Job(Tree!LeafEntry(id, t),
                      IF summarised THEN Tree!SummaryParent(t) ELSE NoId)
    \/ owed # NoId /\ job = Job(Tree!SummaryEntry(id), NoId)
  BY DEF Asked
<1>4. id \in Ids
  BY DEF Tree!FreshIds
<1>5. \A e \in Tree!EntryType, o \in Ids \cup {NoId, RootId} :
        Job(e, o) \in [entry : Tree!EntryType, owed : Ids \cup {NoId, RootId}]
  BY DEF Job
<1>6. \A e, o : Job(e, o) # NoJob
  BY DEF Job, NoJob
<1>7. Tree!PlainEntry(id) \in Tree!EntryType
  BY <1>2, <1>4 DEF Tree!PlainEntry, Tree!Entry, Tree!EntryType, Tree!Kinds
<1>8. \A first \in Tree!Known \cup {NoId} : Tree!CompactionEntry(id, first) \in Tree!EntryType
  BY <1>1, <1>2, <1>4 DEF Tree!CompactionEntry, Tree!Entry, Tree!EntryType, Tree!Kinds
<1>9. \A t \in Ids, n \in Names \cup {NoName} : Tree!LabelEntry(id, t, n) \in Tree!EntryType
  BY <1>2, <1>4 DEF Tree!LabelEntry, Tree!Entry, Tree!EntryType, Tree!Kinds
<1>10. \A t \in Ids \cup {NoId} : /\ Tree!LeafEntry(id, t) \in Tree!EntryType
                                  /\ Tree!SummaryParent(t) \in Ids \cup {RootId}
  BY <1>2, <1>4 DEF Tree!LeafEntry, Tree!Entry, Tree!EntryType, Tree!Kinds,
    Tree!SummaryParent
<1>11. owed # NoId => Tree!SummaryEntry(id) \in Tree!EntryType
  BY <1>2, <1>4 DEF Tree!SummaryEntry, Tree!Entry, Tree!EntryType, Tree!Kinds
<1> QED
  BY <1>3, <1>5, <1>6, <1>7, <1>8, <1>9, <1>10, <1>11

LEMMA AskedStays ==
  ASSUME UNCHANGED tree, NEW job, Asked(job)
  PROVE  Asked(job)'
<1>1. /\ Tree!FreshIds' = Tree!FreshIds /\ Tree!Known' = Tree!Known
      /\ Tree!CurrentLeaf' = Tree!CurrentLeaf /\ Tree!Targets' = Tree!Targets
      /\ leaf' = leaf /\ owed' = owed
  BY DEF tree, Tree!FreshIds, Tree!Known, Tree!CurrentLeaf, Tree!Targets
<1> QED
  BY <1>1 DEF Asked, Tree!PlainEntry, Tree!CompactionEntry, Tree!LabelEntry, Tree!LeafEntry,
              Tree!SummaryEntry

(* What was asked for is a step of the tree once it is added, whether or   *)
(* not what move_to owes then is still known.                              *)
LEMMA AskedAdds ==
  ASSUME NEW job, Asked(job), Tree!Add(job.entry), owed' \in {job.owed, NoId}
  PROVE  Tree!Next
<1>1. PICK id \in Tree!FreshIds :
    \/ owed = NoId /\ job = Job(Tree!PlainEntry(id), NoId)
    \/ \E first \in Tree!Known \cup {NoId} :
         owed = NoId /\ job = Job(Tree!CompactionEntry(id, first), NoId)
    \/ \E t \in Ids, n \in Names \cup {NoName} :
         owed = NoId /\ t \in Tree!Targets /\ job = Job(Tree!LabelEntry(id, t, n), NoId)
    \/ \E t \in Ids \cup {NoId}, summarised \in BOOLEAN :
         /\ owed = NoId /\ t \in Tree!Targets \cup {NoId}
         /\ job = Job(Tree!LeafEntry(id, t),
                      IF summarised THEN Tree!SummaryParent(t) ELSE NoId)
    \/ owed # NoId /\ job = Job(Tree!SummaryEntry(id), NoId)
  BY DEF Asked
<1>j. \A e, o : Job(e, o).entry = e /\ Job(e, o).owed = o
  BY DEF Job
<1>2. CASE owed = NoId /\ job = Job(Tree!PlainEntry(id), NoId)
  <2>1. Tree!AppendPlain(id)
    BY <1>2, <1>j DEF Tree!AppendPlain
  <2> QED
    BY <2>1 DEF Tree!Next
<1>3. ASSUME NEW first \in Tree!Known \cup {NoId}, owed = NoId,
             job = Job(Tree!CompactionEntry(id, first), NoId)
      PROVE  Tree!Next
  <2>1. Tree!AppendCompaction(id, first)
    BY <1>3, <1>j DEF Tree!AppendCompaction
  <2> QED
    BY <2>1 DEF Tree!Next
<1>4. ASSUME NEW t \in Ids, NEW n \in Names \cup {NoName}, owed = NoId, t \in Tree!Targets,
             job = Job(Tree!LabelEntry(id, t, n), NoId)
      PROVE  Tree!Next
  <2>1. Tree!AppendLabel(id, t, n)
    BY <1>4, <1>j DEF Tree!AppendLabel
  <2> QED
    BY <2>1 DEF Tree!Next
<1>5. ASSUME NEW t \in Ids \cup {NoId}, NEW summarised \in BOOLEAN, owed = NoId,
             t \in Tree!Targets \cup {NoId},
             job = Job(Tree!LeafEntry(id, t),
                       IF summarised THEN Tree!SummaryParent(t) ELSE NoId)
      PROVE  Tree!Next
  <2>1. Tree!Add(Tree!LeafEntry(id, t))
    BY <1>5, <1>j
  <2>2. owed' = NoId \/ (summarised /\ owed' = Tree!SummaryParent(t))
    BY <1>5, <1>j
  <2>3. Tree!MoveTo(id, t, FALSE) \/ Tree!MoveTo(id, t, TRUE)
    BY <1>5, <2>1, <2>2 DEF Tree!MoveTo
  <2> QED
    BY <2>3 DEF Tree!Next
<1>6. CASE owed # NoId /\ job = Job(Tree!SummaryEntry(id), NoId)
  <2>1. Tree!AddSummary(id)
    BY <1>6, <1>j DEF Tree!AddSummary
  <2> QED
    BY <2>1 DEF Tree!Next
<1> QED
  BY <1>1, <1>2, <1>3, <1>4, <1>5, <1>6

(* The operations hand append_entry what they ask for and touch nothing.   *)
Begins == pc = "ready" /\ pc' = "opening" /\ UNCHANGED <<tree, disk, faults>>

Operation ==
  \E id \in Tree!FreshIds :
    \/ AppendPlain(id)
    \/ \E first \in Tree!Known \cup {NoId} : AppendCompaction(id, first)
    \/ \E t \in Ids, n \in Names \cup {NoName} : AppendLabel(id, t, n)
    \/ \E t \in Ids \cup {NoId}, summarised \in BOOLEAN : MoveTo(id, t, summarised)
    \/ AddSummary(id)

LEMMA OperationBegins == Operation => Begins /\ Asked(pending')
<1> SUFFICES ASSUME NEW id \in Tree!FreshIds,
                    \/ AppendPlain(id)
                    \/ \E first \in Tree!Known \cup {NoId} : AppendCompaction(id, first)
                    \/ \E t \in Ids, n \in Names \cup {NoName} : AppendLabel(id, t, n)
                    \/ \E t \in Ids \cup {NoId}, summarised \in BOOLEAN : MoveTo(id, t, summarised)
                    \/ AddSummary(id)
             PROVE  Begins /\ Asked(pending')
  BY DEF Operation
<1>1. \A e, o : Begin(e, o) => Begins /\ pending' = Job(e, o)
  BY DEF Begin, Begins, tree, disk
<1> HIDE DEF Begins
<1>2. CASE AppendPlain(id)
  BY <1>1, <1>2 DEF AppendPlain, Asked
<1>3. CASE \E first \in Tree!Known \cup {NoId} : AppendCompaction(id, first)
  BY <1>1, <1>3 DEF AppendCompaction, Asked
<1>4. CASE \E t \in Ids, n \in Names \cup {NoName} : AppendLabel(id, t, n)
  BY <1>1, <1>4 DEF AppendLabel, Asked
<1>5. CASE \E t \in Ids \cup {NoId}, summarised \in BOOLEAN : MoveTo(id, t, summarised)
  BY <1>1, <1>5 DEF MoveTo, Asked
<1>6. CASE AddSummary(id)
  BY <1>1, <1>6 DEF AddSummary, Asked
<1> QED
  BY <1>2, <1>3, <1>4, <1>5, <1>6

-----------------------------------------------------------------------------
(* The storage implements the tree. *)

LEMMA Adding ==
  ASSUME Tree!TypeOK, CachesReplayed, NEW e \in Tree!EntryType, entries' = Append(entries, e)
  PROVE  /\ (labels' = LabelsOf(entries') /\ leaf' = LeafOf(entries')) <=> Tree!Add(e)
         /\ entries' \in Seq(Tree!EntryType)
<1>1. entries \in Seq(Tree!EntryType)
  BY DEF Tree!TypeOK
<1>2. LabelsOf(Append(entries, e)) = Tree!LabelsAfter(LabelsOf(entries), e)
  BY <1>1, LabelsOfAppend
<1>3. LeafOf(Append(entries, e)) = Tree!LeafAfter(e)
  BY <1>1, LeafOfAppend
<1>4. Append(entries, e) \in Seq(Tree!EntryType)
  BY <1>1
<1> QED
  BY <1>2, <1>3, <1>4 DEF CachesReplayed, Tree!Add

LEMMA JobTyped ==
  ASSUME TypeOK, pending # NoJob
  PROVE  pending.entry \in Tree!EntryType /\ pending.owed \in Ids \cup {NoId, RootId}
  BY DEF TypeOK

LEMMA StepRefines == Inv /\ [Next]_vars => [Tree!Next]_(Tree!vars)
<1> SUFFICES ASSUME Inv, [Next]_vars PROVE [Tree!Next]_(Tree!vars)
  OBVIOUS
<1>i. TypeOK /\ Tree!TypeOK /\ JobStands /\ CachesReplayed /\ FileTells
  BY DEF Inv, TypeOK
<1>s. UNCHANGED tree => UNCHANGED Tree!vars
  BY DEF tree, Tree!vars
<1>f. ASSUME UNCHANGED <<entries, labels, leaf>>, owed' = NoId PROVE [Tree!Next]_(Tree!vars)
  <2>1. CASE owed = NoId
    BY <1>f, <2>1 DEF Tree!vars
  <2>2. CASE owed # NoId
    <3>1. Tree!SummaryFails
      BY <1>f, <2>2 DEF Tree!SummaryFails
    <3> QED
      BY <3>1 DEF Tree!Next
  <2> QED
    BY <2>1, <2>2
<1>1. CASE Operation
  <2>1. UNCHANGED tree
    BY <1>1, OperationBegins DEF Begins
  <2> QED
    BY <1>s, <2>1
<1>2. CASE \/ Opened \/ JsonLands \/ NewlineLands \/ NewlineFails \/ HeaderEndLands
           \/ HeaderEndFails \/ Crash
  <2>1. UNCHANGED tree
    BY <1>2 DEF Opened, JsonLands, NewlineLands, NewlineFails, HeaderEndLands,
      HeaderEndFails,
                Crash, tree
  <2> QED
    BY <1>s, <2>1
<1>3. CASE Acknowledge
  <2>1. Tree!Add(pending.entry) /\ owed' = pending.owed /\ pc = "written"
    BY <1>3 DEF Acknowledge, JsonWritten
  <2>2. Asked(pending)
    BY <1>i, <2>1 DEF JobStands
  <2>3. Tree!Next
    BY <2>1, <2>2, AskedAdds
  <2> QED
    BY <2>3
<1>4. CASE AppendFails
  BY <1>4, <1>f DEF AppendFails
<1>5. CASE Reopen
  <2>1. /\ pc = "down" /\ Opens(file) /\ entries' = EntriesIn(file) /\ owed' = NoId
        /\ labels' = LabelsOf(entries') /\ leaf' = LeafOf(entries')
    BY <1>5 DEF Reopen
  <2>2. Whole(file)
    BY <2>1 DEF Whole, Opens
  <2>3. CASE EntriesIn(file) = entries
    <3>1. UNCHANGED <<entries, labels, leaf>>
      BY <1>i, <2>1, <2>3 DEF CachesReplayed
    <3> QED
      BY <1>f, <2>1, <3>1
  <2>4. CASE pending # NoJob /\ EntriesIn(file) = Append(entries, pending.entry)
    <3>1. Asked(pending) /\ pending.entry \in Tree!EntryType
      BY <1>i, <2>4, JobTyped DEF JobStands
    <3>2. Tree!Add(pending.entry)
      BY <1>i, <2>1, <2>4, <3>1, Adding
    <3>3. Tree!Next
      BY <2>1, <3>1, <3>2, AskedAdds
    <3> QED
      BY <3>3
  <2> QED
    BY <1>i, <2>1, <2>2, <2>3, <2>4 DEF FileTells
<1>6. CASE UNCHANGED vars
  BY <1>6, <1>s DEF vars, tree
<1> QED
  BY <1>1, <1>2, <1>3, <1>4, <1>5, <1>6 DEF Next, Operation

-----------------------------------------------------------------------------
(* The invariant is inductive. *)

Pieces == {Header, Newline, Torn} \cup {Json(e) : e \in Tree!EntryType}

LEMMA PieceKinds ==
  /\ Header.piece # "entry" /\ Newline.piece # "entry" /\ Torn.piece # "entry"
  /\ Header # Torn /\ Newline # Torn
  /\ \A e : Json(e).piece = "entry" /\ Json(e).entry = e /\ Json(e) # Torn
  BY DEF Header, Newline, Torn, Json

LEMMA NothingInHeader ==
  /\ EntriesIn(<<Header>>) = <<>> /\ EntriesIn(<<Header, Newline>>) = <<>>
<1>1. Jsons(<<Header>>) = {} /\ Jsons(<<Header, Newline>>) = {}
  BY PieceKinds DEF Jsons
<1>2. Cardinality({}) = 0 /\ 1 .. 0 = {}
  BY FS_EmptySet
<1>3. [k \in {} |-> One({<<Header>>[i].entry : i \in Nth({}, k)})] = <<>>
  OBVIOUS
<1>4. [k \in {} |-> One({<<Header, Newline>>[i].entry : i \in Nth({}, k)})] = <<>>
  OBVIOUS
<1> QED
  BY <1>1, <1>2, <1>3, <1>4 DEF EntriesIn

(* One piece more at the end of the file. *)
LEMMA PieceAdded ==
  ASSUME NEW f \in Seq(Pieces), Len(f) > 0, f[1] = Header, NEW p \in Pieces
  PROVE  /\ Append(f, p) \in Seq(Pieces)
         /\ Len(Append(f, p)) > 0 /\ Append(f, p)[1] = Header
         /\ Whole(Append(f, p)) => Whole(f) /\ p # Torn
         /\ p = Newline => EntriesIn(Append(f, p)) = EntriesIn(f)
<1>1. /\ Append(f, p) \in Seq(Pieces) /\ Len(Append(f, p)) > 0 /\ Append(f, p)[1] = Header
  OBVIOUS
<1>2. Whole(Append(f, p)) => Whole(f) /\ p # Torn
  <2>1. PICK g : g = Append(f, p)
    OBVIOUS
  <2>2. /\ DOMAIN g = 1 .. Len(f) + 1 /\ DOMAIN f = 1 .. Len(f) /\ Len(f) \in Nat
        /\ \A i \in DOMAIN f : i \in DOMAIN g /\ g[i] = f[i]
        /\ Len(f) + 1 \in DOMAIN g /\ g[Len(f) + 1] = p
    BY <2>1
  <2>3. Whole(g) => Whole(f) /\ p # Torn
    BY <2>2 DEF Whole
  <2> QED
    BY <2>1, <2>3
<1>3. p = Newline => EntriesIn(Append(f, p)) = EntriesIn(f)
  BY EntriesOfAppend, PieceKinds
<1> QED
  BY <1>1, <1>2, <1>3

LEMMA JsonAdded ==
  ASSUME NEW f \in Seq(Pieces), NEW e \in Tree!EntryType, EntriesIn(f) \in Seq(Tree!EntryType)
  PROVE  EntriesIn(Append(f, Json(e))) = Append(EntriesIn(f), e)
<1>1. Json(e) \in Pieces
  BY DEF Pieces
<1> QED
  BY <1>1, EntriesOfAppend, PieceKinds

(* The header's newline finds only the header, or spoils a line.           *)
LEMMA HeaderEnded ==
  ASSUME NEW f \in Seq(Pieces), Len(f) > 0, f[1] = Header
  PROVE  /\ WithHeaderEnd(f) \in Seq(Pieces)
         /\ Len(WithHeaderEnd(f)) > 0 /\ WithHeaderEnd(f)[1] = Header
         /\ Whole(WithHeaderEnd(f)) => Whole(f) /\ EntriesIn(WithHeaderEnd(f)) = EntriesIn(f)
<1>p. Header \in Pieces /\ Newline \in Pieces /\ Torn \in Pieces
  BY DEF Pieces
<1>1. CASE Len(f) = 1
  <2>1. f = <<Header>>
    BY <1>1
  <2>2. WithHeaderEnd(f) = <<Header, Newline>>
    BY <1>1 DEF WithHeaderEnd
  <2>3. Whole(<<Header>>)
    BY PieceKinds DEF Whole
  <2>4. PICK g : g = <<Header, Newline>>
    OBVIOUS
  <2>5. g \in Seq(Pieces)
    BY <1>p, <2>4
  <2>6. Len(g) > 0 /\ g[1] = Header
    BY <2>4
  <2>7. Whole(f) /\ EntriesIn(g) = EntriesIn(f)
    BY <2>1, <2>3, <2>4, NothingInHeader
  <2> QED
    BY <2>2, <2>4, <2>5, <2>6, <2>7
<1>2. CASE Len(f) # 1
  <2>1. PICK r \in Seq(Pieces) : r = SubSeq(f, 3, Len(f))
    <3>1. SubSeq(f, 3, Len(f)) \in Seq(Pieces)
      OBVIOUS
    <3> QED
      BY <3>1
  <2>2. WithHeaderEnd(f) = <<Header, Newline>> \o (<<Torn>> \o r)
    BY <1>2, <2>1 DEF WithHeaderEnd
  <2>3. PICK q : q = <<Torn>> \o r
    OBVIOUS
  <2>q. q \in Seq(Pieces) /\ Len(q) > 0 /\ q[1] = Torn
    <3>1. <<Torn>> \in Seq(Pieces)
      BY <1>p
    <3>2. Len(<<Torn>>) = 1 /\ <<Torn>>[1] = Torn
      OBVIOUS
    <3>3. Len(r) \in Nat
      OBVIOUS
    <3>4. PICK a \in Seq(Pieces) : a = <<Torn>>
      BY <3>1
    <3>5. Len(a) = 1 /\ a[1] = Torn
      BY <3>2, <3>4
    <3>6. /\ a \o r \in Seq(Pieces) /\ Len(a \o r) = Len(a) + Len(r)
          /\ \A i \in 1 .. Len(a) + Len(r) : (a \o r)[i] = IF i <= Len(a) THEN a[i] ELSE r[i - Len(a)]
      BY ConcatProperties
    <3>7. a \o r \in Seq(Pieces) /\ Len(a \o r) > 0 /\ (a \o r)[1] = Torn
      BY <3>3, <3>5, <3>6
    <3>8. q = a \o r
      BY <2>3, <3>4
    <3> QED
      BY <3>7, <3>8
  <2>4. PICK g : g = <<Header, Newline>> \o q
    OBVIOUS
  <2>5. /\ g \in Seq(Pieces) /\ Len(g) > 0 /\ g[1] = Header /\ 3 \in DOMAIN g /\ g[3] = Torn
    <3>1. <<Header, Newline>> \in Seq(Pieces)
      BY <1>p
    <3>2. Len(<<Header, Newline>>) = 2 /\ <<Header, Newline>>[1] = Header
      OBVIOUS
    <3>3. Len(q) \in Nat /\ Len(q) > 0
      BY <2>q
    <3>4. PICK a \in Seq(Pieces) : a = <<Header, Newline>>
      BY <3>1
    <3>5. Len(a) = 2 /\ a[1] = Header
      BY <3>2, <3>4
    <3>6. /\ a \o q \in Seq(Pieces) /\ Len(a \o q) = Len(a) + Len(q)
          /\ \A i \in 1 .. Len(a) + Len(q) : (a \o q)[i] = IF i <= Len(a) THEN a[i] ELSE q[i - Len(a)]
      BY <2>q, ConcatProperties
    <3>7. /\ Len(a \o q) > 0 /\ (a \o q)[1] = Header /\ 3 \in 1 .. Len(a \o q)
          /\ (a \o q)[3] = q[1]
      BY <3>3, <3>5, <3>6
    <3>8. g = a \o q
      BY <2>4, <3>4
    <3>9. 3 \in DOMAIN (a \o q)
      BY <3>6, <3>7
    <3> QED
      BY <2>q, <3>6, <3>7, <3>8, <3>9
  <2>6. ~Whole(g)
    BY <2>5 DEF Whole
  <2> QED
    BY <2>2, <2>3, <2>4, <2>5, <2>6
<1> QED
  BY <1>1, <1>2

LEMMA InitInv == StoreAssumption /\ Init => Inv
<1> SUFFICES ASSUME StoreAssumption, Init PROVE Inv
  OBVIOUS
<1>1. TreeInv
  <2>1. Tree!Init
    BY DEF Init
  <2> QED
    BY <2>1, TreeInit
<1>2. Tree!TypeOK
  BY <1>1 DEF TreeInv
<1>3. TypeOK
  <2>1. file \in Seq(Pieces)
    <3>1. Header \in Pieces
      BY DEF Pieces
    <3> QED
      BY <3>1 DEF Init
  <2>2. newlines \in Nat /\ headerEnd \in BOOLEAN /\ faults \in 0 .. MaxFaults
    BY DEF Init, StoreAssumption
  <2>3. pc \in Phases /\ pending = NoJob
    BY DEF Init, Phases
  <2> QED
    BY <1>2, <2>1, <2>2, <2>3 DEF TypeOK, Pieces
<1>4. JobStands
  BY DEF Init, JobStands
<1>5. CachesReplayed
  <2>1. \A id : LabelsFor(<<>>, id) = {}
    BY DEF LabelsFor
  <2>2. LabelsOf(<<>>) = [id \in Ids |-> NoName]
    BY <2>1 DEF LabelsOf
  <2>3. LeafOf(<<>>) = NoId
    BY DEF LeafOf
  <2> QED
    BY <2>2, <2>3 DEF Init, Tree!Init, CachesReplayed
<1>6. FileTells
  BY NothingInHeader DEF Init, Tree!Init, FileTells
<1> QED
  BY <1>1, <1>3, <1>4, <1>5, <1>6 DEF Inv

(* The parts of the invariant that speak of the file and the caches, of    *)
(* the next state.                                                         *)
LEMMA NextCaches ==
  CachesReplayed' <=> labels' = LabelsOf(entries') /\ leaf' = LeafOf(entries')
  BY DEF CachesReplayed

LEMMA NextTells ==
  FileTells' <=>
    /\ Len(file') > 0 /\ file'[1] = Header
    /\ Whole(file') =>
         /\ pc' \in {"ready", "opening", "writing"} => EntriesIn(file') = entries'
         /\ pc' = "written" => EntriesIn(file') = Append(entries', pending'.entry)
         /\ pc' = "down" => \/ EntriesIn(file') = entries'
                            \/ pending' # NoJob /\ EntriesIn(file') = Append(entries', pending'.entry)
  BY DEF FileTells

LEMMA StepTree == ASSUME StoreAssumption PROVE Inv /\ [Next]_vars => TreeInv'
<1> SUFFICES ASSUME Inv, [Next]_vars PROVE TreeInv'
  OBVIOUS
<1>1. [Tree!Next]_(Tree!vars)
  BY StepRefines
<1>2. TreeInv /\ Tree!TreeAssumption
  BY DEF Inv, StoreAssumption
<1> QED
  BY <1>1, <1>2, TreeStep

(* Steps that leave the storage's memory and the job as they are, and keep *)
(* the process between the job's start and its end.                        *)
Inside ==
  \/ Opened \/ JsonLands \/ NewlineLands \/ NewlineFails \/ HeaderEndLands \/ HeaderEndFails
  \/ Crash \/ UNCHANGED vars

(* Steps at which the job is over. *)
Ending == Acknowledge \/ AppendFails \/ Reopen

LEMMA StepKinds == [Next]_vars => Operation \/ Inside \/ Ending
  BY DEF Next, Operation, Inside, Ending

LEMMA InsideKeeps == Inside => UNCHANGED <<tree, pending>>
<1> SUFFICES ASSUME Inside PROVE UNCHANGED <<tree, pending>>
  OBVIOUS
<1>1. CASE Opened
  BY <1>1 DEF Opened, tree
<1>2. CASE JsonLands
  BY <1>2 DEF JsonLands, tree
<1>3. CASE NewlineLands
  BY <1>3 DEF NewlineLands, tree
<1>4. CASE NewlineFails
  BY <1>4 DEF NewlineFails, tree
<1>5. CASE HeaderEndLands
  BY <1>5 DEF HeaderEndLands, tree
<1>6. CASE HeaderEndFails
  BY <1>6 DEF HeaderEndFails, tree
<1>7. CASE Crash
  BY <1>7 DEF Crash, tree
<1>8. CASE UNCHANGED vars
  BY <1>8 DEF vars, tree
<1> QED
  BY <1>1, <1>2, <1>3, <1>4, <1>5, <1>6, <1>7, <1>8 DEF Inside

(* The job that runs is one that was asked for in the tree as it stands.   *)
LEMMA StepJob == Inv /\ [Next]_vars => JobStands'
<1> SUFFICES ASSUME Inv, [Next]_vars PROVE JobStands'
  OBVIOUS
<1>i. JobStands /\ Tree!TypeOK
  BY DEF Inv, TypeOK
<1>s. ASSUME UNCHANGED tree, Asked(pending') PROVE Asked(pending)'
  <2>1. PICK j : j = pending'
    OBVIOUS
  <2>2. Asked(j)
    BY <1>s, <2>1
  <2>3. Asked(j)'
    BY <1>s, <2>2, AskedStays
  <2> QED
    BY <2>1, <2>3 DEF Asked
<1>1. CASE Operation
  <2>1. Begins /\ Asked(pending')
    BY <1>1, OperationBegins
  <2>2. UNCHANGED tree /\ pc' = "opening"
    BY <2>1 DEF Begins
  <2>3. Asked(pending)'
    BY <1>s, <2>1, <2>2
  <2>4. pending' # NoJob
    <3>1. PICK j : j = pending'
      OBVIOUS
    <3>2. Asked(j)
      BY <2>1, <3>1
    <3>3. j # NoJob
      BY <1>i, <3>2, AskedTyped
    <3> QED
      BY <3>1, <3>3
  <2> QED
    BY <2>2, <2>3, <2>4 DEF JobStands
<1>2. CASE Inside
  <2>1. UNCHANGED tree /\ pending' = pending
    BY <1>2, InsideKeeps
  <2>2. pending # NoJob => Asked(pending)'
    <3>1. SUFFICES ASSUME pending # NoJob PROVE Asked(pending)'
      OBVIOUS
    <3>2. Asked(pending')
      BY <1>i, <2>1, <3>1 DEF JobStands
    <3> QED
      BY <1>s, <2>1, <3>2
  <2>3. /\ pc' = "ready" => pc = "ready"
        /\ pc' \in {"opening", "writing", "written"} => pc \in {"opening", "writing", "written"}
    BY <1>2 DEF Inside, Opened, JsonLands, NewlineLands, NewlineFails, HeaderEndLands,
                HeaderEndFails, Crash, vars
  <2> QED
    BY <1>i, <2>1, <2>2, <2>3 DEF JobStands
<1>3. CASE Ending
  <2>1. pending' = NoJob /\ pc' = "ready"
    BY <1>3 DEF Ending, Acknowledge, AppendFails, Reopen
  <2> QED
    BY <2>1 DEF JobStands
<1> QED
  BY <1>1, <1>2, <1>3, StepKinds

(* The labels and the leaf remain those of the entries.                    *)
LEMMA StepCaches == Inv /\ [Next]_vars => CachesReplayed'
<1> SUFFICES ASSUME Inv, [Next]_vars PROVE CachesReplayed'
  OBVIOUS
<1>i. JobStands /\ CachesReplayed /\ TypeOK /\ Tree!TypeOK
  BY DEF Inv, TypeOK
<1>s. UNCHANGED <<entries, labels, leaf>> => CachesReplayed'
  BY <1>i, NextCaches DEF CachesReplayed
<1>1. CASE Operation
  <2>1. UNCHANGED tree
    BY <1>1, OperationBegins DEF Begins
  <2> QED
    BY <1>s, <2>1 DEF tree
<1>2. CASE Inside
  <2>1. UNCHANGED tree
    BY <1>2, InsideKeeps
  <2> QED
    BY <1>s, <2>1 DEF tree
<1>3. CASE Acknowledge
  <2>1. pending # NoJob /\ Tree!Add(pending.entry)
    BY <1>3, <1>i DEF Acknowledge, JsonWritten, JobStands
  <2>2. PICK e \in Tree!EntryType : e = pending.entry
    BY <1>i, <2>1, JobTyped
  <2>3. Tree!Add(e)
    BY <2>1, <2>2
  <2>4. entries' = Append(entries, e)
    BY <2>3 DEF Tree!Add
  <2>5. labels' = LabelsOf(entries') /\ leaf' = LeafOf(entries')
    BY <1>i, <2>3, <2>4, Adding
  <2> QED
    BY <2>5, NextCaches
<1>4. CASE AppendFails
  BY <1>4, <1>s DEF AppendFails
<1>5. CASE Reopen
  <2>1. labels' = LabelsOf(entries') /\ leaf' = LeafOf(entries')
    BY <1>5 DEF Reopen
  <2> QED
    BY <2>1, NextCaches
<1> QED
  BY <1>1, <1>2, <1>3, <1>4, <1>5, StepKinds DEF Ending

(* The file goes on telling of the entries and of what is being appended.  *)
LEMMA StepFile == Inv /\ [Next]_vars => FileTells' /\ file' \in Seq(Pieces)
<1> SUFFICES ASSUME Inv, [Next]_vars PROVE FileTells' /\ file' \in Seq(Pieces)
  OBVIOUS
<1>i. /\ JobStands /\ FileTells /\ TypeOK
      /\ file \in Seq(Pieces) /\ entries \in Seq(Tree!EntryType) /\ pc \in Phases
  BY DEF Inv, TypeOK, Tree!TypeOK, Pieces
<1>t. /\ Len(file) > 0 /\ file[1] = Header
      /\ Whole(file) =>
           /\ pc \in {"ready", "opening", "writing"} => EntriesIn(file) = entries
           /\ pc = "written" => EntriesIn(file) = Append(entries, pending.entry)
           /\ pc = "down" => \/ EntriesIn(file) = entries
                             \/ pending # NoJob /\ EntriesIn(file) = Append(entries, pending.entry)
  BY <1>i DEF FileTells
<1>p. Torn \in Pieces /\ Newline \in Pieces
  BY DEF Pieces
(* The file stays, or tells of the same entries unless it is torn now. *)
<1>s. ASSUME file' \in Seq(Pieces), Len(file') > 0, file'[1] = Header,
             Whole(file') => Whole(file) /\ EntriesIn(file') = EntriesIn(file),
             entries' = entries,
             \/ pc' = pc /\ pending' = pending
             \/ pc \in {"ready", "opening", "writing"} /\ pc' \in {"ready", "opening", "writing"}
             \/ pc # "down" /\ pc' = "down" /\ pending' = pending
      PROVE  FileTells' /\ file' \in Seq(Pieces)
  <2>1. SUFFICES ASSUME Whole(file')
        PROVE  /\ pc' \in {"ready", "opening", "writing"} => EntriesIn(file') = entries'
               /\ pc' = "written" => EntriesIn(file') = Append(entries', pending'.entry)
               /\ pc' = "down" =>
                    \/ EntriesIn(file') = entries'
                    \/ pending' # NoJob /\ EntriesIn(file') = Append(entries', pending'.entry)
    BY <1>s, NextTells
  <2>2. Whole(file) /\ EntriesIn(file') = EntriesIn(file)
    BY <1>s, <2>1
  <2>3. CASE pc' = pc /\ pending' = pending
    BY <1>t, <1>s, <2>2, <2>3
  <2>4. CASE pc \in {"ready", "opening", "writing"} /\ pc' \in {"ready", "opening", "writing"}
    BY <1>t, <1>s, <2>2, <2>4
  <2>5. CASE pc # "down" /\ pc' = "down" /\ pending' = pending
    <3>1. pc = "written" => pending # NoJob
      BY <1>i DEF JobStands
    <3> QED
      BY <1>t, <1>i, <1>s, <2>2, <2>5, <3>1 DEF Phases
  <2> QED
    BY <1>s, <2>3, <2>4, <2>5
<1>same. file' = file =>
           /\ file' \in Seq(Pieces) /\ Len(file') > 0 /\ file'[1] = Header
           /\ Whole(file') => Whole(file) /\ EntriesIn(file') = EntriesIn(file)
  BY <1>i, <1>t
<1>torn. file' = Append(file, Torn) =>
           /\ file' \in Seq(Pieces) /\ Len(file') > 0 /\ file'[1] = Header
           /\ Whole(file') => Whole(file) /\ EntriesIn(file') = EntriesIn(file)
  BY <1>i, <1>t, <1>p, PieceAdded
<1>json. ASSUME pc = "writing", file' = Append(file, Json(pending.entry)), entries' = entries,
                pending' = pending, pc' \in {"written", "down"}
         PROVE  FileTells' /\ file' \in Seq(Pieces)
  <2>1. pending # NoJob
    BY <1>i, <1>json DEF JobStands
  <2>2. PICK e \in Tree!EntryType : e = pending.entry
    BY <1>i, <2>1, JobTyped
  <2>3. file' = Append(file, Json(e)) /\ Json(e) \in Pieces
    BY <1>json, <2>2 DEF Pieces
  <2>4. /\ file' \in Seq(Pieces) /\ Len(file') > 0 /\ file'[1] = Header
        /\ Whole(file') => Whole(file)
    BY <1>i, <1>t, <2>3, PieceAdded
  <2>5. Whole(file) => EntriesIn(file) = entries
    BY <1>t, <1>json
  <2>6. Whole(file) => EntriesIn(Append(file, Json(e))) = Append(entries, e)
    <3>1. SUFFICES ASSUME Whole(file) PROVE EntriesIn(Append(file, Json(e))) = Append(entries, e)
      OBVIOUS
    <3>2. EntriesIn(file) = entries
      BY <2>5, <3>1
    <3>3. EntriesIn(file) \in Seq(Tree!EntryType)
      BY <1>i, <3>2
    <3>4. EntriesIn(Append(file, Json(e))) = Append(EntriesIn(file), e)
      BY <1>i, <3>3, JsonAdded
    <3> QED
      BY <3>2, <3>4
  <2>7. Whole(file') => EntriesIn(file') = Append(entries', pending'.entry)
    BY <1>json, <2>2, <2>3, <2>4, <2>6
  <2> QED
    BY <1>json, <2>1, <2>4, <2>7, NextTells
<1>1. CASE Operation
  <2>1. file' = file /\ entries' = entries /\ pc = "ready" /\ pc' = "opening"
    BY <1>1, OperationBegins DEF Begins, tree, disk
  <2> QED
    BY <1>s, <1>same, <2>1
<1>2. CASE Opened
  <2>1. file' = file /\ entries' = entries /\ pc = "opening" /\ pc' = "writing"
    BY <1>2 DEF Opened
  <2> QED
    BY <1>s, <1>same, <2>1
<1>3. CASE JsonLands
  BY <1>3, <1>json DEF JsonLands
<1>4. CASE NewlineLands
  <2>1. /\ file' = Append(file, Newline) /\ entries' = entries /\ pc' = pc /\ pending' = pending
    BY <1>4 DEF NewlineLands
  <2>2. /\ file' \in Seq(Pieces) /\ Len(file') > 0 /\ file'[1] = Header
        /\ Whole(file') => Whole(file) /\ EntriesIn(file') = EntriesIn(file)
    BY <1>i, <1>t, <1>p, <2>1, PieceAdded
  <2> QED
    BY <1>s, <2>1, <2>2
<1>5. CASE HeaderEndLands
  <2>1. file' = WithHeaderEnd(file) /\ entries' = entries /\ pc' = pc /\ pending' = pending
    BY <1>5 DEF HeaderEndLands
  <2>2. /\ file' \in Seq(Pieces) /\ Len(file') > 0 /\ file'[1] = Header
        /\ Whole(file') => Whole(file) /\ EntriesIn(file') = EntriesIn(file)
    BY <1>i, <1>t, <2>1, HeaderEnded
  <2> QED
    BY <1>s, <2>1, <2>2
<1>6. CASE NewlineFails \/ HeaderEndFails \/ UNCHANGED vars
  <2>1. file' = file /\ entries' = entries /\ pc' = pc /\ pending' = pending
    BY <1>6 DEF NewlineFails, HeaderEndFails, vars
  <2> QED
    BY <1>s, <1>same, <2>1
<1>7. CASE Crash
  <2>1. /\ pc # "down" /\ pc' = "down" /\ entries' = entries /\ pending' = pending
        /\ \/ file' = file
           \/ file' = Append(file, Torn)
           \/ pc = "writing" /\ file' = Append(file, Json(pending.entry))
    BY <1>7 DEF Crash, Remains
  <2>2. CASE file' = file \/ file' = Append(file, Torn)
    BY <1>s, <1>same, <1>torn, <2>1, <2>2
  <2>3. CASE pc = "writing" /\ file' = Append(file, Json(pending.entry))
    BY <1>json, <2>1, <2>3
  <2> QED
    BY <2>1, <2>2, <2>3
<1>8. CASE Acknowledge
  <2>1. /\ pc = "written" /\ pc' = "ready" /\ file' = file
        /\ entries' = Append(entries, pending.entry)
    BY <1>8 DEF Acknowledge, JsonWritten, Tree!Add
  <2> QED
    BY <1>i, <1>t, <2>1, NextTells
<1>9. CASE AppendFails
  <2>1. /\ pc \in {"opening", "writing"} /\ pc' = "ready" /\ entries' = entries
        /\ file' = file \/ file' = Append(file, Torn)
    BY <1>9 DEF AppendFails, Remains
  <2> QED
    BY <1>s, <1>same, <1>torn, <2>1
<1>10. CASE Reopen
  <2>1. file' = file /\ pc' = "ready" /\ entries' = EntriesIn(file)
    BY <1>10 DEF Reopen
  <2> QED
    BY <1>i, <1>t, <2>1, NextTells
<1> QED
  BY <1>1, <1>2, <1>3, <1>4, <1>5, <1>6, <1>7, <1>8, <1>9, <1>10, StepKinds DEF Inside,
    Ending

LEMMA StepTyped ==
  ASSUME Inv, [Next]_vars, MaxFaults \in Nat
  PROVE  /\ pc' \in Phases /\ newlines' \in Nat /\ headerEnd' \in BOOLEAN
         /\ faults' \in 0 .. MaxFaults
         /\ pending' \in {NoJob} \cup [entry : Tree!EntryType, owed : Ids \cup {NoId, RootId}]
<1>i. TypeOK /\ Tree!TypeOK
  BY DEF Inv, TypeOK
<1>t. /\ pc \in Phases /\ newlines \in Nat /\ headerEnd \in BOOLEAN /\ faults \in 0 .. MaxFaults
      /\ pending \in {NoJob} \cup [entry : Tree!EntryType, owed : Ids \cup {NoId, RootId}]
  BY <1>i DEF TypeOK
<1>f. Fault => faults' \in 0 .. MaxFaults
  BY <1>t DEF Fault
<1>1. CASE Operation
  <2>1. Begins /\ Asked(pending')
    BY <1>1, OperationBegins
  <2>2. PICK j : j = pending'
    OBVIOUS
  <2>3. j \in [entry : Tree!EntryType, owed : Ids \cup {NoId, RootId}]
    BY <1>i, <2>1, <2>2, AskedTyped
  <2>4. /\ pc' = "opening" /\ newlines' = newlines /\ headerEnd' = headerEnd /\ faults' = faults
    BY <2>1 DEF Begins, disk
  <2> QED
    BY <1>t, <2>2, <2>3, <2>4 DEF Phases
<1>2. CASE Inside
  <2>1. pending' = pending
    BY <1>2, InsideKeeps
  <2>2. pc' \in Phases
    BY <1>2, <1>t DEF Inside, Opened, JsonLands, NewlineLands, NewlineFails, HeaderEndLands,
                      HeaderEndFails, Crash, vars, Phases
  <2>3. newlines' \in Nat /\ headerEnd' \in BOOLEAN
    <3>1. newlines' \in Nat
      BY <1>2, <1>t DEF Inside, Opened, JsonLands, NewlineLands, NewlineFails,
        HeaderEndLands,
                        HeaderEndFails, Crash, vars
    <3>2. headerEnd' = headerEnd \/ headerEnd' = FALSE
      BY <1>2 DEF Inside, Opened, JsonLands, NewlineLands, NewlineFails, HeaderEndLands,
                  HeaderEndFails, Crash, vars
    <3> QED
      BY <1>t, <3>1, <3>2
  <2>4. faults' = faults \/ Fault
    BY <1>2 DEF Inside, Opened, JsonLands, NewlineLands, NewlineFails, HeaderEndLands,
                HeaderEndFails, Crash, vars
  <2> QED
    BY <1>t, <1>f, <2>1, <2>2, <2>3, <2>4
<1>3. CASE Ending
  <2>1. /\ pending' = NoJob /\ pc' = "ready" /\ headerEnd' = headerEnd
        /\ newlines' = newlines \/ newlines' = newlines + 1
        /\ faults' = faults \/ Fault
    BY <1>3 DEF Ending, Acknowledge, AppendFails, Reopen
  <2> QED
    BY <1>t, <1>f, <2>1 DEF Phases
<1> QED
  BY <1>1, <1>2, <1>3, StepKinds

LEMMA StepInv == ASSUME StoreAssumption PROVE Inv /\ [Next]_vars => Inv'
<1> SUFFICES ASSUME Inv, [Next]_vars PROVE Inv'
  OBVIOUS
<1>1. TreeInv'
  BY StepTree
<1>2. TypeOK'
  <2>1. Tree!TypeOK'
    BY <1>1 DEF TreeInv
  <2>2. MaxFaults \in Nat
    BY DEF StoreAssumption
  <2>3. file' \in Seq(Pieces)
    BY StepFile
  <2>4. /\ pc' \in Phases /\ newlines' \in Nat /\ headerEnd' \in BOOLEAN
        /\ faults' \in 0 .. MaxFaults
        /\ pending' \in {NoJob} \cup [entry : Tree!EntryType, owed : Ids \cup {NoId, RootId}]
    BY <2>2, StepTyped
  <2> QED
    BY <2>1, <2>3, <2>4 DEF TypeOK, Pieces
<1> QED
  BY <1>1, <1>2, StepJob, StepCaches, StepFile DEF Inv

LEMMA SpecInv == ASSUME StoreAssumption PROVE Spec => []Inv
  BY InitInv, StepInv, PTL DEF Spec

-----------------------------------------------------------------------------
(* Type correctness of the storage.                                        *)
THEOREM StoreTypes == ASSUME StoreAssumption PROVE Spec => []TypeOK
<1>1. Inv => TypeOK
  BY DEF Inv
<1> QED
  BY <1>1, SpecInv, PTL

(* append_entry: a file that opens holds what was acknowledged, in order,  *)
(* and at most the one entry whose append was under way.                   *)
THEOREM StoreAcknowledgedKept == ASSUME StoreAssumption PROVE Spec => []AcknowledgedKept
<1>1. Inv => AcknowledgedKept
  <2> SUFFICES ASSUME Inv, Opens(file)
               PROVE  \/ EntriesIn(file) = entries
                      \/ /\ pc \in {"written", "down"} /\ pending # NoJob
                         /\ EntriesIn(file) = Append(entries, pending.entry)
    BY DEF AcknowledgedKept
  <2>1. Whole(file)
    BY DEF Whole, Opens
  <2>2. pc \in Phases /\ (pc = "written" => pending # NoJob) /\ FileTells
    BY DEF Inv, TypeOK, JobStands
  <2> QED
    BY <2>1, <2>2 DEF FileTells, Phases
<1> QED
  BY <1>1, SpecInv, PTL

(* JsonlSessionStorage is a SessionStorage: what it answers, through       *)
(* failed appends, crashes and reopening, is what a tree answers after the *)
(* same operations, the interrupted one done or not done.                  *)
THEOREM StoreImplementsTree == ASSUME StoreAssumption PROVE Spec => ImplementsTree
<1>1. Init => Tree!Init
  BY DEF Init
<1>2. Inv /\ [Next]_vars => [Tree!Next]_(Tree!vars)
  BY StepRefines
<1> QED
  BY <1>1, <1>2, SpecInv, PTL DEF Spec, ImplementsTree, Tree!Spec

(* The session tree stays consistent in the storage: parents, labels and   *)
(* the leaf are of entries that are there.                                 *)
THEOREM StoreTreeConsistent == ASSUME StoreAssumption PROVE Spec => []TreeConsistent
<1>1. Inv => TreeConsistent
  BY DEF Inv, TreeInv, TreeConsistent, Tree!TreeConsistent
<1> QED
  BY <1>1, SpecInv, PTL

(* /tree shows every entry exactly once, whatever has been appended, moved,*)
(* labelled, lost and reopened: a summary whose parent does not exist too. *)
THEOREM StoreEveryEntryListed == ASSUME StoreAssumption PROVE Spec => []EveryEntryListed
<1>1. Inv => EveryEntryListed
  BY ListsAll, StoreAssumption DEF Inv, EveryEntryListed, StoreAssumption
<1> QED
  BY <1>1, SpecInv, PTL
=============================================================================
