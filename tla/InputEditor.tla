----------------------------- MODULE InputEditor -----------------------------
(***************************************************************************)
(* The prompt editor of the Ratatui frontend (tui/app.rs): InputState, a   *)
(* multiline text with a cursor, InputHistory, the prompts that Up and     *)
(* Down bring back, and the viewport that follows the cursor over wrapped  *)
(* lines.  The keys are those of handle_input_key, the focus being on the  *)
(* input.                                                                  *)
(*                                                                         *)
(* A text is a sequence of characters of which only those that the code    *)
(* treats specially are told apart: "LF" ends a line and is a blank,       *)
(* "wide" takes two columns, any other takes one.  The cursor counts the   *)
(* characters before it: the code's byte offsets come from char_indices    *)
(* throughout.                                                             *)
(*                                                                         *)
(* While a run is active Enter and Ctrl+C leave the input alone; that      *)
(* decision is TuiFrontend's.                                              *)
(***************************************************************************)
EXTENDS Naturals, Sequences, SequencesExt, FiniteSetsExt

CONSTANTS
  Chars,        (* the characters that are typed                           *)
  Sizes,        (* terminal sizes, [width, height]                         *)
  MaxText,      (* bound: characters of the text                           *)
  MaxHistory    (* bound: characters of the history's prompts              *)

ASSUME EditorAssumption ==
  /\ MaxText \in Nat /\ MaxHistory \in Nat
  /\ \A s \in Sizes : s.width \in Nat /\ s.height \in Nat

VARIABLES
  input,        (* InputState: [text, cursor, column, viewport]            *)
  history,      (* InputHistory: [entries, cursor, draft]                  *)
  size          (* terminal_size                                           *)

editorVars == <<input, history, size>>

NoColumn  == <<>>       \* preferred_column is None, else <<column>>
NoEntry   == 0          \* history.cursor is None

Empty == [text |-> <<>>, cursor |-> 0, column |-> NoColumn, viewport |-> 0]

EditorTypeOK ==
  /\ input.text \in Seq(Chars) /\ input.cursor \in 0 .. Len(input.text)
  /\ input.viewport \in Nat
  /\ history.entries \in Seq(Seq(Chars))
  /\ history.cursor \in {NoEntry} \cup DOMAIN history.entries
  /\ size \in Sizes

EditorInit ==
  /\ input = Empty
  /\ history = [entries |-> <<>>, cursor |-> NoEntry, draft |-> <<>>]
  /\ size \in Sizes

-----------------------------------------------------------------------------
(* Characters, and the text around the cursor. *)

IsBlank(c)   == c = "LF"
Columns(c)   == IF c = "wide" THEN 2 ELSE 1
WidthOf(t)   == Len(t) + Cardinality({k \in DOMAIN t : t[k] = "wide"})

Before(e) == SubSeq(e.text, 1, e.cursor)
After(e)  == SubSeq(e.text, e.cursor + 1, Len(e.text))

KeepsColumn(e, before, after) ==    \* mutant: preferred_column is not reset
  [e EXCEPT !.text = before \o after, !.cursor = Len(before)]

(* What every edit and every sideways move ends with. *)
Place(e, before, after) ==
  [e EXCEPT !.text = before \o after, !.cursor = Len(before), !.column = NoColumn]

SetText(t) == [text |-> t, cursor |-> Len(t), column |-> NoColumn, viewport |-> 0]

-----------------------------------------------------------------------------
(* Edits. *)

PushedAtEnd(e, s) == Place(e, Before(e), After(e) \o s)  \* mutant: not at the cursor

Insert(e, s) == Place(e, Before(e) \o s, After(e))

Backspace(e) == IF e.cursor = 0 THEN e ELSE Place(e, Front(Before(e)), After(e))

(* next_boundary asks for the second character after the cursor: there is  *)
(* none when the cursor stands before the last one.                        *)
HasNext(e) == Len(After(e)) >= 2

Delete(e) == IF HasNext(e) THEN Place(e, Before(e), Tail(After(e))) ELSE e

Newlines(e) == {k \in DOMAIN e.text : e.text[k] = "LF"}

(* The characters before the current line, and up to its end. *)
LineStart(e) == Max({0} \cup {k \in Newlines(e) : k <= e.cursor})
LineEnd(e)   == Min({Len(e.text)} \cup {k - 1 : k \in {j \in Newlines(e) : j > e.cursor}})

DeleteToLineStart(e) == Place(e, SubSeq(e.text, 1, LineStart(e)), After(e))
DeleteToLineEnd(e) ==
  Place(e, Before(e), SubSeq(e.text, LineEnd(e) + 1, Len(e.text)))

(* The blanks before the cursor, and the characters before those that are  *)
(* none, back to a blank.                                                  *)
WordStart(e) ==
  LET ink  == {k \in 1 .. e.cursor : ~IsBlank(e.text[k])}
      gaps == {k \in 1 .. e.cursor : IsBlank(e.text[k]) /\ ink # {} /\ k < Max(ink)}
  IN  IF gaps = {} THEN 0 ELSE Max(gaps)

DeletePreviousWord(e) == Place(e, SubSeq(e.text, 1, WordStart(e)), After(e))

-----------------------------------------------------------------------------
(* Moves. *)

To(e, i) == Place(e, SubSeq(e.text, 1, i), SubSeq(e.text, i + 1, Len(e.text)))

MoveLeft(e)  == To(e, IF e.cursor = 0 THEN 0 ELSE e.cursor - 1)
MoveRight(e) == To(e, IF HasNext(e) THEN e.cursor + 1 ELSE e.cursor)
MoveHome(e)  == To(e, LineStart(e))
MoveEnd(e)   == To(e, LineEnd(e))

CurrentLine(e) == Cardinality({k \in Newlines(e) : k <= e.cursor})
Lines(e)       == Cardinality(Newlines(e)) + 1

(* line_bounds: the characters before a line and up to its end. *)
BoundsOf(e, line) ==
  LET start == CHOOSE k \in {0} \cup Newlines(e) :
                 Cardinality({j \in Newlines(e) : j <= k}) = line
  IN  [start |-> start, end |-> LineEnd([e EXCEPT !.cursor = start])]

(* To the line above or below, as far right as the preferred column allows. *)
MoveVertical(e, line) ==
  LET desired == IF e.column # NoColumn THEN e.column[1]
                 ELSE WidthOf(SubSeq(e.text, LineStart(e) + 1, e.cursor))
      bounds  == BoundsOf(e, line)
      fits    == {i \in bounds.start .. bounds.end :
                    WidthOf(SubSeq(e.text, bounds.start + 1, i)) <= desired}
  IN  IF line >= Lines(e) THEN e
      ELSE [e EXCEPT !.cursor = Max(fits), !.column = <<desired>>]

MoveUp(e)   == MoveVertical(e, IF CurrentLine(e) = 0 THEN 0 ELSE CurrentLine(e) - 1)
MoveDown(e) == MoveVertical(e, CurrentLine(e) + 1)

-----------------------------------------------------------------------------
(* The viewport over wrapped lines. *)

Inner(s) == Max({1, s.width - 2})

(* A position is a line and a column.  A character that does not fit is    *)
(* wrapped to the next line.                                               *)
Top      == [line |-> 0, column |-> 0]
Below(p) == [line |-> p.line + 1, column |-> 0]

Wrapped(p, c, s) ==
  IF p.column > 0 /\ p.column + Columns(c) > Inner(s)
  THEN [line |-> p.line + 1, column |-> Columns(c)]
  ELSE [line |-> p.line, column |-> p.column + Columns(c)]

Put(p, c, s) == IF c = "LF" THEN Below(p) ELSE Wrapped(p, c, s)

(* visual_position: a line that is full is left at once. *)
Past(p, c, s) ==
  IF Put(p, c, s).column >= Inner(s) THEN Below(Put(p, c, s)) ELSE Put(p, c, s)

VisualLine(t, cursor, s) ==
  LET at[k \in 0 .. cursor] == IF k = 0 THEN Top ELSE Past(at[k - 1], t[k], s)
  IN  at[cursor].line

CursorLine(e, s) == VisualLine(e.text, e.cursor, s)

(* wrapped_line_count, over all lines: here a full line is left when there *)
(* is more to put on it.                                                   *)
WrappedLines(t, s) ==
  LET at[k \in 0 .. Len(t)] == IF k = 0 THEN Top ELSE Put(at[k - 1], t[k], s)
  IN  at[Len(t)].line + 1

(* input_height: the frame takes two of its lines. *)
InputHeight(e, s) ==
  LET most  == Max({3, Min({8, (s.height * 3) \div 10})})
      lines == Max({WrappedLines(e.text, s), CursorLine(e, s) + 1})
  IN  IF s.height <= 4 THEN Max({1, s.height - 1})
      ELSE Max({3, Min({most, lines + 2})})

Visible(e, s) == Max({1, InputHeight(e, s) - 2})

NotSynced(e, s) == e                \* mutant: the viewport is left behind

(* sync_input_viewport *)
Synced(e, s) ==
  LET line == CursorLine(e, s)
  IN  IF line < e.viewport THEN [e EXCEPT !.viewport = line]
      ELSE IF line >= e.viewport + Visible(e, s)
      THEN [e EXCEPT !.viewport = line + 1 - Visible(e, s)]
      ELSE e

-----------------------------------------------------------------------------
(* History. *)

CanBrowse(e) == Newlines(e) = {}

DraftAnew(h, e) ==                  \* mutant: each recall takes a new draft
  [h EXCEPT !.draft = e.text,
            !.cursor = IF @ = NoEntry THEN Len(h.entries) ELSE Max({1, @ - 1})]

(* previous *)
Recalled(h, e) ==
  IF h.cursor = NoEntry THEN [h EXCEPT !.draft = e.text, !.cursor = Len(h.entries)]
  ELSE [h EXCEPT !.cursor = Max({1, @ - 1})]

Left(h) == [h EXCEPT !.cursor = NoEntry, !.draft = <<>>]

(* record: a prompt that repeats the last one is not kept twice. *)
Recorded(h, t) ==
  [Left(h) EXCEPT !.entries = IF @ # <<>> /\ Last(@) = t THEN @ ELSE Append(@, t)]

-----------------------------------------------------------------------------
(* Keys. *)

Edits(e) ==
  {Backspace(e), Delete(e), DeleteToLineStart(e), DeleteToLineEnd(e), DeletePreviousWord(e)}

Moves(e) == {MoveLeft(e), MoveRight(e), MoveHome(e), MoveEnd(e)}

Displays(e) == input' = Synced(e, size) /\ UNCHANGED size

(* A character, a line end (Ctrl+J), or a paste of two characters. *)
Type(s) ==
  /\ Len(input.text) + Len(s) <= MaxText
  /\ Displays(Insert(input, s))
  /\ UNCHANGED history

EditKey == (\E e \in Edits(input) : Displays(e)) /\ UNCHANGED history

MoveKey == (\E e \in Moves(input) : Displays(e)) /\ UNCHANGED history

Up ==
  IF CanBrowse(input)
  THEN /\ history.entries # <<>>
       /\ history' = Recalled(history, input)
       /\ Displays(SetText(history'.entries[history'.cursor]))
  ELSE Displays(MoveUp(input)) /\ UNCHANGED history

(* Down leaves the history below its last entry, and takes back the draft. *)
Down ==
  IF history.cursor = NoEntry THEN Displays(MoveDown(input)) /\ UNCHANGED history
  ELSE IF history.cursor < Len(history.entries)
  THEN /\ history' = [history EXCEPT !.cursor = @ + 1]
       /\ Displays(SetText(history.entries[history'.cursor]))
  ELSE /\ history' = Left(history)
       /\ Displays(SetText(history.draft))

HistorySize(h) == FoldLeft(LAMBDA n, t : n + Len(t), 0, h.entries)

(* Enter: submit, for a text that is not blank. *)
Enter ==
  /\ \E k \in DOMAIN input.text : ~IsBlank(input.text[k])
  /\ HistorySize(Recorded(history, input.text)) <= MaxHistory
  /\ history' = Recorded(history, input.text)
  /\ input' = Empty
  /\ UNCHANGED size

CtrlC ==
  /\ input.text # <<>>
  /\ input' = Empty
  /\ history' = Left(history)
  /\ UNCHANGED size

Resize(s) ==
  /\ size' = s
  /\ input' = Synced(input, s)
  /\ UNCHANGED history

EditorNext ==
  \/ \E c \in Chars : Type(<<c>>)
  \/ \E c, d \in Chars : Type(<<c, d>>)
  \/ EditKey \/ MoveKey \/ Up \/ Down \/ Enter \/ CtrlC
  \/ \E s \in Sizes : Resize(s)

EditorSpec == EditorInit /\ [][EditorNext]_editorVars

-----------------------------------------------------------------------------
(***************************************************************************)
(* Properties.                                                             *)
(***************************************************************************)

(* The line with the cursor is one of those the input box shows, after any *)
(* edit and any resize, although the box grows and shrinks with the text   *)
(* that is in it.                                                          *)
CursorInView ==
  LET line == CursorLine(input, size)
  IN  input.viewport <= line /\ line < input.viewport + Visible(input, size)

(* Going down and up again, or up and down, leads back to where the cursor *)
(* was, through lines that are too short or end in the middle of a wide    *)
(* character: the preferred column is never one of an earlier position.    *)
VerticalReturns ==
  /\ CurrentLine(input) + 1 < Lines(input) => MoveUp(MoveDown(input)).cursor = input.cursor
  /\ CurrentLine(input) > 0 => MoveDown(MoveUp(input)).cursor = input.cursor

CursorPlaced == CursorInView /\ VerticalReturns

(* An edit adds text at the cursor, or takes it away on one side of the    *)
(* cursor, and touches nothing else; only recalling, submitting and        *)
(* clearing replace the text as a whole.                                   *)
EditsStayLocal ==
  [][\/ input'.text = input.text
     \/ After(input') = After(input) /\ IsPrefix(Before(input), Before(input'))
     \/ After(input') = After(input) /\ IsPrefix(Before(input'), Before(input))
     \/ Before(input') = Before(input) /\ IsSuffix(After(input'), After(input))
     \/ input'.text \in ToSet(history.entries) \cup {history.draft, <<>>}]_editorVars

Browsing(h) == h.cursor # NoEntry

(* What was being typed when the user went into the history is what comes  *)
(* back on the way out, however far and often he goes back and forth and   *)
(* edits what he recalls; it is given up only with a submit or a clear.    *)
DraftKept ==
  [][/\ ~Browsing(history) /\ Browsing(history') => history'.draft = input.text
     /\ Browsing(history) /\ Browsing(history') => history'.draft = history.draft
     /\ Browsing(history) /\ ~Browsing(history') =>
          input'.text \in {history.draft, <<>>}]_editorVars

(* What tui.md says of Delete, a Unicode-safe deletion: it deletes the     *)
(* character after the cursor, if there is one.                            *)
DeleteDeletes == After(input) # <<>> => Delete(input).text # input.text
=============================================================================
