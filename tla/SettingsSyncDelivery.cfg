SPECIFICATION MCSpec
CONSTANTS
  Device = {c}
  Account = {a1, a2}
  Key = {k}
  Shade = {x}
  Default = Default
  Absent = Absent
  NoRow = NoRow
  Unknown = Unknown
  Nobody = Nobody
  None = None
  MaxEdits = 1
  MaxFaults = 1
  MaxSwitches = 1
INVARIANTS
  TypeOK
  QuietEditStaysPending
  QuietSwitchIsClean
PROPERTIES
  QuietEditSettles
CHECK_DEADLOCK FALSE
