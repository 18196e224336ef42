--------------------------- MODULE SkillDiscovery ---------------------------
(***************************************************************************)
(* load_skills (coding_agent/skills.rs): which files of the configured     *)
(* places become skills, and which of two skills of one name is kept.      *)
(*                                                                         *)
(* The places are directory trees; a file may be reached under two paths   *)
(* (a symbolic link).  What a file says - its skill's name, whether it has *)
(* a description - is on a disk that others write.                         *)
(***************************************************************************)
EXTENDS Naturals, Sequences, FiniteSets, SequencesExt

CONSTANTS
  Places,       (* the places, in the order they are loaded: user, project, *)
                (*   then the explicit paths; a directory or a file         *)
  Dirs,         (* directories                                              *)
  Files,        (* paths of markdown files                                  *)
  Inside,       (* directory -> the directories and files in it             *)
  SkillMd,      (* the paths whose file name is SKILL.md                    *)
  Hidden,       (* entries whose name begins with a dot, node_modules       *)
  IgnoreLines,  (* directory -> the lines of its ignore files               *)
  RealOf,       (* path -> canonical path                                   *)
  Names,        (* names of skills                                          *)
  Absent        (* no file                                                  *)

Reals   == { RealOf[f] : f \in Files }
Content == [name : Names, described : BOOLEAN, disabled : BOOLEAN]

(* Line of an ignore file: the entries it matches, and whether it begins    *)
(* with an exclamation mark.                                                *)
ASSUME DiscoveryAssumption ==
  /\ Absent \notin Content
  /\ SkillMd \subseteq Files
  /\ \A d \in Dirs : Inside[d] \subseteq Dirs \cup Files
  /\ \A d \in Dirs : \A i \in DOMAIN IgnoreLines[d] :
       IgnoreLines[d][i].hits \subseteq Dirs \cup Files

-----------------------------------------------------------------------------

(* is_ignored: the first line that matches decides.                         *)
IsIgnored(e, lines) ==
  LET hits == { i \in DOMAIN lines : e \in lines[i].hits }
  IN  hits # {} /\ ~lines[CHOOSE i \in hits : \A j \in hits : i <= j].negated

There(disk, f) == disk[RealOf[f]] # Absent

(* load_skills_from_dir_internal: a SKILL.md that is not ignored ends the   *)
(* search of its directory, other markdown counts only at the top, and no   *)
(* link is followed but that of a SKILL.md.  One matcher serves the whole   *)
(* place: the lines of a directory are still there when its siblings are    *)
(* searched.  The listing of a directory has any order, and with it what is *)
(* found.                                                                   *)
IsLink(e) == e \in Files /\ RealOf[e] # e
Line == [hits : SUBSET (Dirs \cup Files), negated : BOOLEAN]

Candidates(disk, place) ==
  LET Search[d \in Dirs, before \in Seq(Line)] ==
        LET lines   == before \o IgnoreLines[d]
            listed  == { e \in Inside[d] : e \in Files => IsLink(e) \/ There(disk, e) }
            skillMd == { e \in listed \cap SkillMd : ~IsIgnored(e, lines) }
            visit(r, e) ==
              IF IsIgnored(e, r.lines) THEN {r}
              ELSE IF e \in Dirs
                THEN { [sub EXCEPT !.found = r.found \o @] : sub \in Search[e, r.lines] }
              ELSE IF d = place /\ ~IsLink(e) THEN { [r EXCEPT !.found = Append(@, e)] }
              ELSE {r}
            start == [found |-> SetToSeq(skillMd), lines |-> lines]
        IN  IF skillMd # {} THEN {start}
            ELSE UNION { FoldLeft(LAMBDA rs, e : UNION { visit(r, e) : r \in rs }, {start}, order) :
                           order \in SetToSeqs(listed \ Hidden) }
  IN  IF place \in Dirs THEN { r.found : r \in Search[place, <<>>] } ELSE { <<place>> }

(* load_skill_from_file: a skill without a description is not loaded.       *)
Loadable(disk, place) ==
  { SelectSeq(found, LAMBDA f : There(disk, f) /\ disk[RealOf[f]].described) :
      found \in Candidates(disk, place) }

NameOf(disk, f) == disk[RealOf[f]].name

(* add_skills: the same file is taken once, the first of a name stays.      *)
NoSkills == [map |-> <<>>, reals |-> {}]

Override(disk, acc, f) ==    \* mutant: the last of a name stays
  IF RealOf[f] \in acc.reals THEN acc
  ELSE [map |-> [n \in DOMAIN acc.map \cup {NameOf(disk, f)} |->
                   IF n = NameOf(disk, f) THEN f ELSE acc.map[n]],
        reals |-> acc.reals \cup {RealOf[f]}]

AddSkill(disk, acc, f) ==
  IF RealOf[f] \in acc.reals \/ NameOf(disk, f) \in DOMAIN acc.map THEN acc
  ELSE [map |-> [n \in DOMAIN acc.map \cup {NameOf(disk, f)} |->
                   IF n = NameOf(disk, f) THEN f ELSE acc.map[n]],
        reals |-> acc.reals \cup {RealOf[f]}]

(* load_skills: place by place.                                            *)
LoadSkills(disk) ==
  LET Load(results, place) ==
        { FoldLeft(LAMBDA acc, f : AddSkill(disk, acc, f), r, found) :
            r \in results, found \in Loadable(disk, place) }
  IN  { r.map : r \in FoldLeft(Load, {NoSkills}, Places) }
=============================================================================
