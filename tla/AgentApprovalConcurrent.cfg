CONSTANTS
  Thread = {t1}
  Call = {c1}
  Payload = {p1, p2}
  Approval = {a1, a2, a3}
  Request = {r1, r2}
  None = None
  MaxTurns = 1
  MaxQueued = 1
  MaxFaults = 1
SYMMETRY Symmetry
SPECIFICATION Spec
INVARIANTS
  TypeOK
  ExecutedAtMostOnce
  ExecutedOnlyIfApproved
  SupersededPointsToReplacement
PROPERTY DecisionsAreFinal
CHECK_DEADLOCK FALSE
