--------------------------- MODULE MCSessionStore ---------------------------
(***************************************************************************)
(* SessionStore for TLC: identifiers are interchangeable, and the supply   *)
(* of them bounds the number of entries.                                   *)
(***************************************************************************)
EXTENDS SessionStore, TLC

IdsAreAlike == Permutations(Ids)
=============================================================================
