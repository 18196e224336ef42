--------------------------- MODULE MCPromptSession ---------------------------
(***************************************************************************)
(* PromptSession on a small instance, for TLC: a user directory with a     *)
(* note and a nested skill, a project directory with an ignore file, and   *)
(* an explicit path that is a link to the user's note.                     *)
(***************************************************************************)
EXTENDS PromptSession

MCPlaces == <<"user", "project", "link.md">>
MCDirs == {"user", "user/sub", "project", "project/sub", "project/sub2"}
MCFiles == {"user/note.md", "user/sub/SKILL.md", "project/note.md", "project/sub/SKILL.md",
            "project/sub2/SKILL.md", "link.md"}
MCInside ==
  [d \in MCDirs |->
     CASE d = "user"         -> {"user/note.md", "user/sub"}
       [] d = "user/sub"     -> {"user/sub/SKILL.md"}
       [] d = "project"      -> {"project/note.md", "project/sub", "project/sub2"}
       [] d = "project/sub"  -> {"project/sub/SKILL.md"}
       [] d = "project/sub2" -> {"project/sub2/SKILL.md"}]
MCSkillMd == {"user/sub/SKILL.md", "project/sub/SKILL.md", "project/sub2/SKILL.md"}

(* The line of project/sub is "**2/SKILL.md", which becomes                 *)
(* "sub/**2/SKILL.md": whatever begins with "sub" and ends so.              *)
MCIgnoreLines ==
  [d \in MCDirs |->
     CASE d = "project" -> << [hits |-> {"project/sub"}, negated |-> TRUE],
                              [hits |-> {"project/sub", "project/note.md"}, negated |-> FALSE],
                              [hits |-> {"project/note.md"}, negated |-> TRUE] >>
       [] d = "project/sub" -> << [hits |-> {"project/sub2/SKILL.md"}, negated |-> FALSE] >>
       [] OTHER -> <<>>]
MCRealOf == [f \in MCFiles |-> IF f = "link.md" THEN "user/note.md" ELSE f]
MCFirstDisks ==
  LET said(n) == [name |-> n, described |-> TRUE, disabled |-> FALSE]
  IN  { [r \in { MCRealOf[f] : f \in MCFiles } |-> said("x")],
        [r \in { MCRealOf[f] : f \in MCFiles } |->
           IF r \in {"user/note.md", "project/note.md"} THEN said("y") ELSE said("x")] }

MCTemplateFiles == <<"user/t.md", "project/t.md">>
MCPiece(k) == [kind |-> k, n |-> 0, len |-> 0]
MCOf(k, n, len) == [kind |-> k, n |-> n, len |-> len]
MCBodies ==
  { << MCPiece("ascii"), MCOf("nth", 1, 0), MCPiece("unknown"), MCPiece("all"), MCOf("nth", 3, 0) >>,
    << MCPiece("wide"), MCPiece("unknown"), MCOf("slice", 2, 1), MCPiece("ascii") >>,
    << MCOf("from", 2, 0), MCPiece("wide"), MCPiece("lone"), MCOf("slice", 0, 2), MCOf("nth", 0, 0) >>,
    << MCPiece("unknown"), MCOf("nthOr", 2, 0), MCPiece("wide"), MCPiece("allOr") >> }
MCWordLists ==
  { <<>>, << <<"a">> >>, << <<>>, <<"a">> >>, << <<"a", " ", "a">>, <<"'">>, <<"b">> >>,
    << <<"\"", " ">>, <<"a", "'", " ">> >> }
=============================================================================
