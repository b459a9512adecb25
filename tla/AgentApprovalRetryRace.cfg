CONSTANTS
  Thread = {t1}
  Call = {c1}
  Payload = {p1}
  Approval = {a1, a2}
  Request = {r1, r2}
  None = None
  MaxTurns = 1
  MaxQueued = 1
  MaxFaults = 0
SYMMETRY Symmetry
SPECIFICATION Spec
INVARIANT NoDuplicateSideEffect
CHECK_DEADLOCK FALSE
