----------------------------- MODULE MCFileTools -----------------------------
(***************************************************************************)
(* FileTools on a small instance, for TLC: two calls on one file, with     *)
(* texts and requests chosen so that every rule of an edit and every way a *)
(* page can end comes up.                                                  *)
(***************************************************************************)
EXTENDS FileTools

Line(word) == Append(word, "LF")

MCTexts ==
  { Line(<<"a">>) \o Line(<<"b">>) \o Line(<<"a">>),          \* a repeated line
    Line(<<"a", "SP">>) \o Line(<<"Q", "b">>),                \* blanks and quotes
    <<"BOM", "a", "CR", "LF", "b", "CR", "LF">>,              \* CR LF
    <<"a", "CR", "LF", "b", "LF", "b">>,                      \* mixed line ends
    <<"a", "a", "a", "a", "a">> \o <<"LF", "b">>,             \* an overlong line
    <<>> }

Replace(o, n) == [old |-> o, new |-> n]

MCEdits ==
  { << Replace(<<"b">>, <<"c", "c">>) >>,
    << Replace(<<"a">>, <<"b">>) >>,
    << Replace(<<"a", "a", "a">>, <<"b">>) >>,
    << Replace(<<"SP">>, <<"c">>) >>,
    << Replace(<<"'">>, <<"a">>) >>,
    << Replace(<<"a", "LF", "'">>, <<"a", "LF">>) >>,
    << Replace(<<"b">>, <<>>), Replace(<<"a">>, <<"c", "LF">>) >>,
    << Replace(<<"a", "LF">>, <<"c">>), Replace(<<"LF", "b">>, <<"d">>) >>,
    << Replace(<<"LF", "b", "LF">>, <<"LF">>), Replace(<<"b", "LF">>, <<"a">>) >> }

MCRequests ==
  [kind : {"edit"}, file : Files, edits : MCEdits]
    \cup [kind : {"write"}, file : Files, text : {<<"b", "LF", "c">>}]
    \cup [kind : {"read"}, file : Files, limit : {<<>>, <<1>>, <<2>>}]
=============================================================================
