---------------------------- MODULE PromptSession ----------------------------
(***************************************************************************)
(* PromptSession (coding_agent/prompt_session.rs): the skills, templates   *)
(* and context files of a session, the system prompt that is derived from  *)
(* them (system_prompt.rs), and the expansion of what the user enters.     *)
(*                                                                         *)
(* Skills are read when they are loaded, for their name and description,   *)
(* and once more when they are invoked, for their text; templates are read *)
(* once.  Others change the files at any time.  The controller runs one    *)
(* operation at a time, so each is one step.                               *)
(***************************************************************************)
EXTENDS SkillDiscovery, TemplateText

CONSTANTS
  TemplateFiles,   (* template files, in the order of their places          *)
  Bodies,          (* bodies of templates                                   *)
  FirstDisks,      (* skill files there may be at the start                 *)
  WordLists,       (* lists of words a user gives as arguments              *)
  ContextFiles,    (* context files                                         *)
  MaxChanges,      (* bound on changes of the files by others               *)
  HasRead          (* whether `read` is among the selected tools            *)

TemplateName == "t"    \* the templates' name: which of them is found matters

VARIABLES
  disk,            (* canonical path -> content of a skill file             *)
  bodies,          (* template file -> its body                             *)
  changes,         (* changes so far                                        *)
  skills,          (* name -> [file, disabled], as loaded                   *)
  loadedFrom,      (* the disk as it was then (history)                     *)
  templates,       (* the templates, as loaded                              *)
  contexts,        (* context files added                                   *)
  systemPrompt,    (* the agent's system prompt                             *)
  last             (* the text entered last, and what became of it          *)

vars == <<disk, bodies, changes, skills, loadedFrom, templates, contexts, systemPrompt, last>>

Nothing == [kind |-> "none"]

-----------------------------------------------------------------------------
(* The system prompt. *)

(* format_skills_for_prompt: a disabled skill is only there to be invoked.  *)
Listed(loaded) == { n \in DOMAIN loaded : ~loaded[n].disabled }

BuildSystemPrompt(loaded, files) ==
  [contexts |-> files, skills |-> IF HasRead THEN Listed(loaded) ELSE {}]

(* load_skill_from_file keeps what the file said.                           *)
Loaded(d, map) == [n \in DOMAIN map |-> [file |-> map[n], disabled |-> d[RealOf[map[n]]].disabled]]

TemplatesOf(b) ==
  LET there == SelectSeq(TemplateFiles, LAMBDA f : b[f] # Absent)
  IN  [i \in DOMAIN there |-> b[there[i]]]

-----------------------------------------------------------------------------

Contents ==
  [name : Names, described : {TRUE}, disabled : {FALSE}]
    \cup [name : Names, described : {TRUE, FALSE}, disabled : {TRUE}]

(* PromptSession::new. *)
Init ==
  /\ disk \in FirstDisks
  /\ bodies = [f \in ToSet(TemplateFiles) |-> Absent]
  /\ changes = 0
  /\ \E map \in LoadSkills(disk) : skills = Loaded(disk, map)
  /\ loadedFrom = disk
  /\ templates = TemplatesOf(bodies)
  /\ contexts = <<>>
  /\ systemPrompt = BuildSystemPrompt(skills, contexts)
  /\ last = Nothing

(* Somebody else writes or removes a file (external). *)
ChangeSkill ==
  /\ changes < MaxChanges
  /\ changes' = changes + 1
  /\ \E r \in Reals, c \in {Absent} \cup Contents : disk' = [disk EXCEPT ![r] = c]
  /\ last' = Nothing
  /\ UNCHANGED <<bodies, skills, loadedFrom, templates, contexts, systemPrompt>>

ChangeTemplate ==
  /\ changes < MaxChanges
  /\ changes' = changes + 1
  /\ \E f \in ToSet(TemplateFiles), b \in {Absent} \cup Bodies : bodies' = [bodies EXCEPT ![f] = b]
  /\ last' = Nothing
  /\ UNCHANGED <<disk, skills, loadedFrom, templates, contexts, systemPrompt>>

NotRebuilt(loaded, files) == systemPrompt    \* mutant: the prompt is left as it was

(* rebuild_system_prompt *)
Rebuilt(loaded, files) == BuildSystemPrompt(loaded, files)

(* reload_resources *)
Reload ==
  /\ \E map \in LoadSkills(disk) : skills' = Loaded(disk, map)
  /\ loadedFrom' = disk
  /\ templates' = TemplatesOf(bodies)
  /\ systemPrompt' = Rebuilt(skills', contexts)
  /\ last' = Nothing
  /\ UNCHANGED <<disk, bodies, changes, contexts>>

(* add_context_file *)
AddContextFile ==
  /\ \E c \in ContextFiles \ ToSet(contexts) : contexts' = Append(contexts, c)
  /\ systemPrompt' = Rebuilt(skills, contexts')
  /\ last' = Nothing
  /\ UNCHANGED <<disk, bodies, changes, skills, loadedFrom, templates>>

-----------------------------------------------------------------------------
(* Expansion. *)

(* try_expand_skill_command reads the file again: None if it has gone.      *)
ExpandSkill(name) ==
  IF name \in DOMAIN skills /\ There(disk, skills[name].file)
    THEN <<disk[RealOf[skills[name].file]]>> ELSE <<>>

InvokeSkill ==
  /\ \E n \in Names :
       last' = [kind |-> "skill", name |-> n, result |-> ExpandSkill(n)]
  /\ UNCHANGED <<disk, bodies, changes, skills, loadedFrom, templates, contexts, systemPrompt>>

(* How a user writes a word: as it is, or in quotes it does not contain; an *)
(* empty one is a pair of quotes.                                           *)
Typed(word) ==
  IF word # <<>> /\ \A i \in DOMAIN word : word[i] \notin Quotes \cup {Blank} THEN word
  ELSE LET q == CHOOSE q \in Quotes : q \notin ToSet(word)
       IN  <<q>> \o word \o <<q>>

TypedArgs(words) ==
  FlattenSeq([i \in DOMAIN words |-> (IF i = 1 THEN <<>> ELSE <<Blank, Blank>>) \o Typed(words[i])])

(* try_expand_prompt_template: the first template of the name, as loaded.   *)
InvokeTemplate ==
  /\ \E words \in WordLists :
       LET args == ParseCommandArgs(TypedArgs(words))
       IN  last' = [kind |-> "template", words |-> words, args |-> args,
                    result |-> IF templates = <<>> THEN <<>>
                               ELSE <<SubstituteArgs(Head(templates), args)>>]
  /\ UNCHANGED <<disk, bodies, changes, skills, loadedFrom, templates, contexts, systemPrompt>>

Next ==
  \/ ChangeSkill \/ ChangeTemplate
  \/ Reload \/ AddContextFile
  \/ InvokeSkill \/ InvokeTemplate

Spec == Init /\ [][Next]_vars

-----------------------------------------------------------------------------
(* Properties. *)

(* Every name that a place offers whatever the order of its directories is  *)
(* loaded, and from the earliest place that offers it - the user's own      *)
(* before the project's before explicit paths -; an earlier one may do so   *)
(* only in some orders.  No file is loaded that the ignore files of its     *)
(* place exclude.                                                           *)
FirstPlaceWins ==
  LET offers   == [i \in DOMAIN Places |-> { ToSet(found) : found \in Loadable(loadedFrom, Places[i]) }]
      surely(i) == { n \in Names : \A files \in offers[i] :
                       \E f \in files : NameOf(loadedFrom, f) = n }
  IN  /\ \A i \in DOMAIN Places : surely(i) \subseteq DOMAIN skills
      /\ \A n \in DOMAIN skills :
           LET f == skills[n].file
           IN  /\ NameOf(loadedFrom, f) = n
               /\ \E i \in DOMAIN Places :
                    /\ f \in UNION offers[i]
                    /\ \A j \in 1 .. i - 1 : n \notin surely(j)
                    /\ Places[i] \in Dirs =>
                         LET lines == IgnoreLines[Places[i]]
                             hits  == { k \in DOMAIN lines : f \in lines[k].hits }
                         IN  \A k \in hits : lines[k].negated \/
                               \E l \in hits : l < k /\ lines[l].negated

(* The model is told of the skills the user can invoke and of the context   *)
(* files that were added, after every reload and every addition.            *)
PromptIsCurrent ==
  /\ systemPrompt.contexts = contexts
  /\ HasRead => systemPrompt.skills = { n \in DOMAIN skills : ~skills[n].disabled }

(* The words a user gives arrive as they were given, however they had to be *)
(* quoted - but an empty one is lost, and those behind it move up.          *)
NotEmpty(words) == SelectSeq(words, LAMBDA w : w # <<>>)
ArgumentsArrive == last.kind = "template" => last.args = NotEmpty(last.words)

(* What a placeholder stands for, by the numbers of the words.              *)
Wanted(p, count) ==
  { k \in 1 .. count :
      CASE p.kind \in {"nth", "nthOr"} -> k = p.n
        [] p.kind \in {"all", "allOr"} -> TRUE
        [] p.kind = "from"  -> k >= p.n
        [] p.kind = "slice" -> k >= p.n /\ k < p.len + (IF p.n = 0 THEN 1 ELSE p.n) }

(* A placeholder the code does not know is text, too - unless a character   *)
(* of two bytes comes before it.                                            *)
Literal(body, i) ==
  \/ body[i].kind \in {"ascii", "wide", "lone"}
  \/ body[i].kind = "unknown" /\ \A j \in 1 .. i - 1 : body[j].kind # "wide"

Meant(body, i, words) ==
  LET picked == SetToSortSeq(Wanted(body[i], Len(words)), <)
  IN  IF Literal(body, i) THEN CharsOf(body, i)
      ELSE IF body[i].kind = "unknown" THEN Value(body, i, words)
      ELSE IF picked = <<>> /\ body[i].kind \in {"nthOr", "allOr"} THEN <<Default>>
      ELSE Shown(Joined([m \in DOMAIN picked |-> words[picked[m]]]))

(* A template's own text comes out complete and in order, and where it has  *)
(* a placeholder the words it stands for come out, in their order and with  *)
(* a blank between them, or the default if there are none.                  *)
WordsInTheirPlaces ==
  last.kind = "template" /\ last.result # <<>> =>
    LET body == Head(templates)
    IN  last.result[1] =
          FlattenSeq([i \in DOMAIN body |-> Meant(body, i, NotEmpty(last.words))])

(* An expanded template is its text with the arguments in their places.     *)
TemplatesFaithful == ArgumentsArrive /\ WordsInTheirPlaces
=============================================================================
