SPECIFICATION MCSpec
CONSTANTS
  Entries = 2
  MaxCalls = 2
INVARIANTS
  TypeOK
  ListAgrees
PROPERTIES
  ScrollMarksAreMade
