SPECIFICATION Spec
CONSTANTS
  Places <- MCPlaces
  Dirs <- MCDirs
  Files <- MCFiles
  Inside <- MCInside
  SkillMd <- MCSkillMd
  Hidden = {}
  IgnoreLines <- MCIgnoreLines
  RealOf <- MCRealOf
  Names = {"x", "y"}
  Absent = Absent
  TemplateFiles <- MCTemplateFiles
  Bodies <- MCBodies
  FirstDisks <- MCFirstDisks
  WordLists <- MCWordLists
  ContextFiles = {"AGENTS.md"}
  MaxChanges = 2
  HasRead = TRUE
INVARIANTS
  FirstPlaceWins
  PromptIsCurrent
  TemplatesFaithful
CHECK_DEADLOCK FALSE
