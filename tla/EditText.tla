------------------------------ MODULE EditText ------------------------------
(***************************************************************************)
(* The text work of the edit tool (coding_agent/tools/edit.rs): from the   *)
(* raw file and a list of replacements to the raw file that is written.    *)
(* A text is a sequence of characters of which only those that the code    *)
(* treats specially are told apart:                                        *)
(*   "BOM"  the byte order mark       "LF", "CR"  the line ends            *)
(*   "SP"   a blank                   "Q", "'"    a smart and a plain quote*)
(* and any other value is an ordinary character.                           *)
(***************************************************************************)
EXTENDS Naturals, Sequences, SequencesExt, TLC

Rejected   == [ok |-> FALSE]
Applied(t) == [ok |-> TRUE, text |-> t]

-----------------------------------------------------------------------------
(* Around the replacement: byte order mark and line ends. *)

HasBom(raw)   == raw # <<>> /\ raw[1] = "BOM"
StripBom(raw) == IF HasBom(raw) THEN Tail(raw) ELSE raw

CrLfAt(t, i) == t[i] = "CR" /\ i < Len(t) /\ t[i + 1] = "LF"

HasCrLf(t) == \E i \in DOMAIN t : CrLfAt(t, i)

NormalizeToLf(t) ==
  FlattenSeq([i \in DOMAIN t |-> IF CrLfAt(t, i) THEN <<>>
                                 ELSE IF t[i] = "CR" THEN <<"LF">> ELSE <<t[i]>>])

(* Every line end becomes CR LF when the file had one such line end. *)
RestoreLineEndings(t, crlf) ==
  FlattenSeq([i \in DOMAIN t |-> IF crlf /\ t[i] = "LF" THEN <<"CR", "LF">>
                                 ELSE <<t[i]>>])

-----------------------------------------------------------------------------
(* Finding the old text. *)

(* Quotes become plain and the blanks at the end of every line go. *)
NormalizeForFuzzyMatch(t) ==
  FoldRight(LAMBDA c, rest :
              IF c = "SP" /\ (rest = <<>> \/ Head(rest) = "LF") THEN rest
              ELSE <<IF c = "Q" THEN "'" ELSE c>> \o rest,
            t, <<>>)

OccursAt(t, part, i) == SubSeq(t, i, i + Len(part) - 1) = part

Places(t, part) == { i \in 1 .. (Len(t) - Len(part) + 1) : OccursAt(t, part, i) }

(* str::find, or 0. *)
Find(t, part) == IF Places(t, part) = {} THEN 0 ELSE Min(Places(t, part))

(* str::matches: occurrences from left to right that do not overlap; the    *)
(* empty string occurs around every character.                              *)
Count(t, part) ==
  LET from[i \in 1 .. Len(t) + Len(part) + 1] ==
        IF i + Len(part) > Len(t) + 1 THEN 0
        ELSE IF OccursAt(t, part, i) THEN 1 + from[i + Len(part)]
        ELSE from[i + 1]
  IN  IF part = <<>> THEN Len(t) + 1 ELSE from[1]

(* fuzzy_find_text: the place, the length and whether it took the fuzzy     *)
(* form of both texts to find it.                                           *)
FuzzyFindText(t, old) ==
  LET plain == NormalizeForFuzzyMatch(old)
  IN  IF Find(t, old) # 0 THEN [at |-> Find(t, old), len |-> Len(old), fuzzy |-> FALSE]
      ELSE [at |-> Find(NormalizeForFuzzyMatch(t), plain), len |-> Len(plain),
            fuzzy |-> TRUE]

CountOccurrences(t, old) ==
  Count(NormalizeForFuzzyMatch(t), NormalizeForFuzzyMatch(old))

-----------------------------------------------------------------------------
(* Applying the edits. *)

FromTheFront(ms) == SortSeq(ms, LAMBDA a, b : a.at < b.at)    \* mutant

(* apply_replacements works from the back, so that offsets stay valid. *)
Ordered(ms) == SortSeq(ms, LAMBDA a, b : a.at > b.at)

ApplyReplacements(t, ms) ==
  FoldLeft(LAMBDA s, m : SubSeq(s, 1, m.at - 1) \o m.new \o SubSeq(s, m.at + m.len, Len(s)),
           t, Ordered(ms))

Overlapping(ms) ==
  \E i, j \in DOMAIN ms : i # j /\ ms[i].at <= ms[j].at /\ ms[i].at + ms[i].len > ms[j].at

ApplyEditsToNormalizedContent(t, edits) ==
  LET old(i)    == NormalizeToLf(edits[i].old)
      someFuzzy == \E i \in DOMAIN edits : FuzzyFindText(t, old(i)).fuzzy
                                            /\ FuzzyFindText(t, old(i)).at # 0
      base      == IF someFuzzy THEN NormalizeForFuzzyMatch(t) ELSE t
      ms        == [i \in DOMAIN edits |->
                      FuzzyFindText(base, old(i)) @@ ("new" :> NormalizeToLf(edits[i].new))]
  IN  IF \/ edits = <<>>
         \/ \E i \in DOMAIN edits : \/ edits[i].old = <<>>
                                    \/ ms[i].at = 0
                                    \/ CountOccurrences(base, old(i)) > 1
         \/ Overlapping(ms)
         \/ ApplyReplacements(base, ms) = t
      THEN Rejected
      ELSE Applied(ApplyReplacements(base, ms))

(* EditTool::execute between the read and the write. *)
Edited(raw, edits) ==
  LET content == StripBom(raw)
      applied == ApplyEditsToNormalizedContent(NormalizeToLf(content), edits)
  IN  IF ~applied.ok THEN Rejected
      ELSE Applied((IF HasBom(raw) THEN <<"BOM">> ELSE <<>>)
                     \o RestoreLineEndings(applied.text, HasCrLf(content)))
=============================================================================
