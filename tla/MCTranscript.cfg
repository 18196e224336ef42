SPECIFICATION TranscriptSpec
CONSTANTS
  Calls = {a, b}
  MaxBlocks = 3
  MaxLog = 7
  MaxRuns = 2
  MaxPushed = 7
CONSTRAINT Bounded
INVARIANTS
  StrictOrder
  BlocksFaithful
PROPERTIES
  SelectionStays
