---------------------------- MODULE TemplateText ----------------------------
(***************************************************************************)
(* Prompt templates as text (coding_agent/prompt_templates.rs): how the    *)
(* arguments behind a template's name are split, and what the placeholders *)
(* of its body become.                                                     *)
(*                                                                         *)
(* A body is a sequence of pieces: text of one character - of one byte or  *)
(* of two -, and the placeholders the code tells apart.  The arguments are *)
(* characters: a blank, the two quotes and any other.                      *)
(***************************************************************************)
EXTENDS Naturals, Sequences, SequencesExt

(* The kinds of a piece, and how many characters each has in the file:      *)
(* "$n" "$@" "${n:-d}" "${@:-d}" "${@:n}" "${@:n:l}" "${x}" "$x", where n   *)
(* and l are digits.                                                        *)
Width ==
  [ascii |-> 1, wide |-> 1, nth |-> 2, all |-> 2, nthOr |-> 7, allOr |-> 7,
   from |-> 6, slice |-> 8, unknown |-> 4, lone |-> 2]

Piece == [kind : DOMAIN Width, n : 0 .. 9, len : 0 .. 9]

-----------------------------------------------------------------------------
(* parse_command_args. *)

Blank  == " "
Quotes == {"'", "\""}

AnyQuoteEnds(st, c) ==    \* mutant: either quote ends a quotation
  IF st.quote # <<>> /\ c \in Quotes THEN [st EXCEPT !.quote = <<>>]
  ELSE IF st.quote = <<>> /\ c \in Quotes THEN [st EXCEPT !.quote = <<c>>]
  ELSE IF st.quote = <<>> /\ c = Blank
    THEN [st EXCEPT !.words = IF st.word = <<>> THEN @ ELSE Append(@, st.word), !.word = <<>>]
  ELSE [st EXCEPT !.word = Append(@, c)]

(* The word being read, the words before it, and the open quote.            *)
Scan(st, c) ==
  IF st.quote # <<>>
    THEN IF c = st.quote[1] THEN [st EXCEPT !.quote = <<>>]
                            ELSE [st EXCEPT !.word = Append(@, c)]
  ELSE IF c \in Quotes THEN [st EXCEPT !.quote = <<c>>]
  ELSE IF c = Blank
    THEN [st EXCEPT !.words = IF st.word = <<>> THEN @ ELSE Append(@, st.word), !.word = <<>>]
  ELSE [st EXCEPT !.word = Append(@, c)]

ParseCommandArgs(typed) ==
  LET end == FoldLeft(Scan, [words |-> <<>>, word |-> <<>>, quote |-> <<>>], typed)
  IN  IF end.word = <<>> THEN end.words ELSE Append(end.words, end.word)

-----------------------------------------------------------------------------
(* substitute_args.  What comes out is text: characters of the body, of the *)
(* arguments and the blanks between them, and defaults.                     *)

Char(i, j) == [piece |-> i, char |-> j]
Default    == [default |-> 1]
Shown(text) == [j \in DOMAIN text |-> [given |-> text[j]]]

Joined(words) ==
  FlattenSeq([k \in DOMAIN words |-> IF k = 1 THEN words[k] ELSE <<Blank>> \o words[k]])

(* args.get(n.wrapping_sub(1)): nothing for a missing one, and for n = 0.   *)
Nth(args, n) == IF n \in DOMAIN args THEN args[n] ELSE <<>>

(* args.iter().skip(start_idx).take(length)                                 *)
SkipTake(args, skip, take) ==
  SubSeq(args, skip + 1, IF skip + take < Len(args) THEN skip + take ELSE Len(args))

FromZero(args, start, len) == SkipTake(args, start, len)    \* mutant: counts from 0

Sliced(args, start, len) == SkipTake(args, IF start > 0 THEN start - 1 ELSE 0, len)

(* A default stands for what is missing or empty.                           *)
OrDefault(text) == IF text = <<>> THEN <<Default>> ELSE Shown(text)

(* The body as the characters it is made of, and as its bytes.              *)
CharsOf(body, i) == [j \in 1 .. Width[body[i].kind] |-> Char(i, j)]
Chars(body) == FlattenSeq([i \in DOMAIN body |-> CharsOf(body, i)])
Bytes(body) ==
  FlattenSeq([i \in DOMAIN body |->
    IF body[i].kind = "wide" THEN << [of |-> Char(i, 1), nr |-> 1], [of |-> Char(i, 1), nr |-> 2] >>
    ELSE [j \in 1 .. Width[body[i].kind] |-> [of |-> Char(i, j), nr |-> 1]]])

Start(body, i) == FoldLeft(LAMBDA n, p : n + Width[p.kind], 0, SubSeq(body, 1, i - 1))

(* `&content[brace_start..i]`: character positions used as byte positions.  *)
(* A slice that begins or ends within a character panics.                   *)
Panic == [panic |-> 1]
SliceOf(body, from, to) ==
  LET b == Bytes(body)
      Boundary(k) == k = Len(b) \/ b[k + 1].nr = 1
  IN  IF ~Boundary(from) \/ ~Boundary(to) THEN <<Panic>>
      ELSE LET cut == SelectSeq(SubSeq(b, from + 1, to), LAMBDA x : x.nr = 1)
           IN  [m \in DOMAIN cut |-> cut[m].of]

Value(body, i, args) ==
  LET p == body[i]
  IN  CASE p.kind \in {"ascii", "wide", "lone"} -> CharsOf(body, i)
        [] p.kind = "nth"     -> Shown(Nth(args, p.n))
        [] p.kind = "nthOr"   -> OrDefault(Nth(args, p.n))
        [] p.kind = "all"     -> Shown(Joined(args))
        [] p.kind = "allOr"   -> OrDefault(Joined(args))
        [] p.kind = "from"    -> Shown(Joined(Sliced(args, p.n, Len(args))))
        [] p.kind = "slice"   -> Shown(Joined(Sliced(args, p.n, p.len)))
        [] p.kind = "unknown" ->
             LET start == Start(body, i) IN SliceOf(body, start, start + Width["unknown"])

SubstituteArgs(body, args) ==
  FlattenSeq([i \in DOMAIN body |-> Value(body, i, args)])
=============================================================================
