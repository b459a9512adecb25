SPECIFICATION FairSpec
CONSTANTS
  Entries = 2
  None = None
  MaxCalls = 2
INVARIANTS
  TypeOK
PROPERTIES
  FinishMarksAreEarned
  FinishMarksAreMade
