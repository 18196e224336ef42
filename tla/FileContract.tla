---------------------------- MODULE FileContract ----------------------------
(***************************************************************************)
(* What the write and edit tools promise of a file, whoever else works on  *)
(* it: each call takes effect at once or not at all, and an edit replaces  *)
(* the regions its old texts name and nothing else.  The effect of an edit *)
(* is described here without an algorithm: as the simultaneous replacement *)
(* of disjoint regions of the text.  FileTools implements this contract    *)
(* with locks, reads and writes that take time.                            *)
(***************************************************************************)
EXTENDS Naturals, Sequences, SequencesExt

CONSTANTS
  Calls,      (* the calls of the tools                                     *)
  Files,      (* the files                                                  *)
  Texts,      (* contents a file may have at the start                      *)
  Requests,   (* what a call may ask for                                    *)
  Absent      (* no file there                                              *)

VARIABLES
  text,       (* the content of each file                                   *)
  wanted,     (* what each call asks for                                    *)
  outcome     (* "none", "done", "aborted" or "failed" per call             *)

LOCAL Edits == INSTANCE EditText

(* The text t with the region of length old[k] at at[k] replaced by new[k], *)
(* for all k at once.                                                       *)
Replaced(t, at, old, new) ==
  FlattenSeq(
    [i \in 1 .. Len(t) + 1 |->
       (IF \E k \in DOMAIN at : at[k] = i
          THEN new[CHOOSE k \in DOMAIN at : at[k] = i] ELSE <<>>)
       \o (IF i > Len(t) \/ \E k \in DOMAIN at : at[k] <= i /\ i < at[k] + Len(old[k])
             THEN <<>> ELSE <<t[i]>>)])

(* The places an old text may stand for: it is found there, and nowhere     *)
(* else without an overlap, also when blanks at line ends and the form of   *)
(* quotes are disregarded.                                                  *)
UniqueAt(t, old, i) ==
  LET loose == Edits!NormalizeForFuzzyMatch(t)
      part  == Edits!NormalizeForFuzzyMatch(old)
      apart(a, b) == a + Len(part) <= b
  IN  /\ i \in Edits!Places(t, old)
      /\ \A a, b \in Edits!Places(loose, part) : a < b => ~apart(a, b)

(* The texts an edit of the normalised content t may produce.  When some    *)
(* old text is only found loosely, the whole content is normalised first.   *)
Results(t, edits) ==
  LET lf(s)    == Edits!NormalizeToLf(s)
      loose(s) == Edits!NormalizeForFuzzyMatch(s)
      exact    == \A k \in DOMAIN edits : Edits!Places(t, lf(edits[k].old)) # {}
      base     == IF exact THEN t ELSE loose(t)
      old      == [k \in DOMAIN edits |->
                     IF Edits!Places(base, lf(edits[k].old)) # {} THEN lf(edits[k].old)
                     ELSE loose(lf(edits[k].old))]
      new      == [k \in DOMAIN edits |-> lf(edits[k].new)]
  IN  { Replaced(base, at, old, new) : at \in
        { a \in [DOMAIN edits -> 1 .. Len(base) + 1] :
            /\ \A k \in DOMAIN edits : edits[k].old # <<>> /\ UniqueAt(base, old[k], a[k])
            /\ \A j, k \in DOMAIN edits :
                 j # k => a[j] + Len(old[j]) <= a[k] \/ a[k] + Len(old[k]) <= a[j] } }
        \ {t}

(* The same for the raw content, byte order mark and line ends included. *)
RawResults(raw, edits) ==
  LET content == Edits!StripBom(raw)
  IN  { (IF Edits!HasBom(raw) THEN <<"BOM">> ELSE <<>>)
          \o Edits!RestoreLineEndings(r, Edits!HasCrLf(content)) :
        r \in Results(Edits!NormalizeToLf(content), edits) }

Idle == [kind |-> "none"]

Init ==
  /\ text \in [Files -> Texts \cup {Absent}]
  /\ wanted = [c \in Calls |-> Idle]
  /\ outcome = [c \in Calls |-> "none"]

Ask(c) ==
  /\ wanted[c] = Idle
  /\ \E r \in Requests : wanted' = [wanted EXCEPT ![c] = r]
  /\ UNCHANGED <<text, outcome>>

Settle(c, how) ==
  /\ wanted[c] # Idle /\ outcome[c] = "none"
  /\ outcome' = [outcome EXCEPT ![c] = how]
  /\ UNCHANGED wanted

Becomes(f, t) == text' = [text EXCEPT ![f] = t]

Write(c) ==
  /\ wanted[c].kind = "write"
  /\ Becomes(wanted[c].file, wanted[c].text)
  /\ Settle(c, "done")

Edit(c) ==
  /\ wanted[c].kind = "edit" /\ text[wanted[c].file] # Absent
  /\ \E t \in RawResults(text[wanted[c].file], wanted[c].edits) :
       Becomes(wanted[c].file, t)
  /\ Settle(c, "done")

(* Refused or aborted, and nothing has changed. *)
Nothing(c, how) ==
  /\ how = "done" => wanted[c].kind = "read"
  /\ UNCHANGED text
  /\ Settle(c, how)

(* The write itself failed: what was there is gone. *)
Damage(c) ==
  /\ wanted[c].kind \in {"write", "edit"}
  /\ Becomes(wanted[c].file, <<>>)
  /\ Settle(c, "failed")

Next ==
  \E c \in Calls :
    \/ Ask(c) \/ Write(c) \/ Edit(c) \/ Damage(c)
    \/ \E how \in {"done", "aborted", "failed"} : Nothing(c, how)

Spec == Init /\ [][Next]_<<text, wanted, outcome>>
=============================================================================
