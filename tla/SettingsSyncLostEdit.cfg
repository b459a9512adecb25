SPECIFICATION Spec
CONSTANTS
  Device = {c}
  Account = {a1}
  Key = {k}
  Shade = {x}
  Default = Default
  Absent = Absent
  NoRow = NoRow
  Unknown = Unknown
  Nobody = Nobody
  None = None
  MaxEdits = 2
  MaxFaults = 1
  MaxSwitches = 0
INVARIANTS
  EditStaysPending
CHECK_DEADLOCK FALSE
