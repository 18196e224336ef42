---------------------------- MODULE MCInputEditor ----------------------------
(***************************************************************************)
(* InputEditor for TLC: a narrow and a wide character and line ends, in a  *)
(* terminal that leaves room for two or three columns and one or two lines *)
(* of input.                                                               *)
(***************************************************************************)
EXTENDS InputEditor

SmallSizes == {[width |-> 5, height |-> 14], [width |-> 4, height |-> 10]}
=============================================================================
