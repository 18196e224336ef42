------------------------------ MODULE ReadPage ------------------------------
(***************************************************************************)
(* What one call of the read tool shows of a text file and where it tells  *)
(* the agent to continue (coding_agent/tools/read.rs, truncate.rs).  Texts *)
(* are those of EditText; a character counts as one byte.                  *)
(***************************************************************************)
EXTENDS Naturals, Sequences, SequencesExt, FiniteSetsExt

CONSTANTS
  MaxLines,    (* DEFAULT_MAX_LINES                                         *)
  MaxBytes     (* DEFAULT_MAX_BYTES                                         *)

(* str::split('\n'): one more line than there are line feeds. *)
SplitLines(t) ==
  FoldLeft(LAMBDA lines, c : IF c = "LF" THEN Append(lines, <<>>)
                             ELSE [lines EXCEPT ![Len(lines)] = Append(@, c)],
           << <<>> >>, t)

JoinLines(lines) ==
  FlattenSeq([i \in DOMAIN lines |-> IF i = 1 THEN lines[i] ELSE <<"LF">> \o lines[i]])

(* truncate.rs split_lines: a final line feed opens no line of its own. *)
CountedLines(t) ==
  LET trimmed == IF t # <<>> /\ Last(t) = "LF" THEN Front(t) ELSE t
  IN  IF trimmed = <<>> THEN <<>> ELSE SplitLines(trimmed)

(* truncate_head: the longest run of complete first lines within both       *)
(* limits; a first line that is too long on its own is not shown at all.    *)
TruncateHead(t) ==
  LET lines == CountedLines(t)
      fits  == { k \in 0 .. Len(lines) :
                   k <= MaxLines /\ Len(JoinLines(SubSeq(lines, 1, k))) <= MaxBytes }
  IN  IF Len(lines) <= MaxLines /\ Len(t) <= MaxBytes
        THEN [truncated |-> FALSE, lines |-> Len(lines), tooLong |-> FALSE]
        ELSE [truncated |-> TRUE, lines |-> Max(fits),
              tooLong   |-> lines # <<>> /\ Len(lines[1]) > MaxBytes]

(* truncate_tail, which the bash tool applies to its output: lines are      *)
(* taken from the end until one does not fit.                               *)
TruncateTail(t) ==
  LET lines == CountedLines(t)
      none  == [lines |-> <<>>, bytes |-> 0, full |-> FALSE]
      Take(line, kept) ==
        LET bytes == kept.bytes + Len(line) + (IF kept.lines = <<>> THEN 0 ELSE 1)
        IN  IF kept.full \/ bytes > MaxBytes \/ Len(kept.lines) >= MaxLines
              THEN [kept EXCEPT !.full = TRUE]
              ELSE [lines |-> <<line>> \o kept.lines, bytes |-> bytes, full |-> FALSE]
  IN  IF Len(lines) <= MaxLines /\ Len(t) <= MaxBytes
        THEN [truncated |-> FALSE, lines |-> lines]
        ELSE [truncated |-> TRUE, lines |-> FoldRight(Take, lines, none).lines]

(* "[Showing lines X-Y of Y]" below a truncated output: this is X. *)
StartLine(t) ==
  LET total == Len(CountedLines(t))
      shown == Len(TruncateTail(t).lines)
  IN  IF shown < total THEN total - shown + 1 ELSE 1

Whole == 0    \* no continuation is offered

OneFurther(start, shown) == start + shown + 2    \* mutant: a line is skipped

(* The offset of the line after the last one shown (1-indexed). *)
NextOffset(start, shown) == start + shown + 1

(* ReadTool::execute on a text: the lines shown, the overlong line that is  *)
(* only named, and the offset to continue with.  None of a page is shown    *)
(* when the offset lies beyond the end.  A limit is <<>> or <<l>>.          *)
Page(t, offset, limit) ==
  LET all   == SplitLines(t)
      start == IF offset = 0 THEN 0 ELSE offset - 1
      cut   == limit # <<>> /\ start + limit[1] < Len(all)
      end   == IF cut THEN start + limit[1] ELSE Len(all)
      head  == TruncateHead(JoinLines(SubSeq(all, start + 1, end)))
  IN  IF start >= Len(all) THEN [ok |-> FALSE]
      ELSE IF head.tooLong
        THEN [ok |-> TRUE, from |-> start + 1, to |-> start, named |-> {start + 1},
              next |-> Whole]
      ELSE IF head.truncated
        THEN [ok |-> TRUE, from |-> start + 1, to |-> start + head.lines, named |-> {},
              next |-> NextOffset(start, head.lines)]
      ELSE [ok |-> TRUE, from |-> start + 1, to |-> end, named |-> {},
            next |-> IF cut THEN NextOffset(start, limit[1]) ELSE Whole]
=============================================================================
