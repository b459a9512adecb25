CONSTANTS
  Thread = {t1, t2}
  Call = {c1, c2}
  Payload = {p1}
  Approval = {a1, a2}
  Request = {r1}
  None = None
  MaxTurns = 1
  MaxQueued = 1
  MaxFaults = 0
SYMMETRY Symmetry
SPECIFICATION Spec
INVARIANT ResultsAreOwn
CHECK_DEADLOCK FALSE
