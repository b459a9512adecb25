SPECIFICATION Spec
CONSTANTS
  Entries = 2
  None = None
  MaxCalls = 1
INVARIANTS
  OnlyUndoneIsSuspended
