CONSTANTS
  Newest = 3
  Mark = {new, old}
  Absent = Absent
  Loop = {bg}
  Manual = {m1, m2}
  Patch = {p1}
  PageSize = 1
  RebuildPages = 2
  SyncPages = 2
  Overlap = FALSE
  OtherClients = TRUE
  MaxChanges = 1
  MaxFaults = 1
SPECIFICATION FairSpec
INVARIANTS
  TypeOK
  ReportIsHonest
  LeftoverIsMarked
PROPERTIES
  EntriesNeverLost
  RebuildRetried
  NewestPageConverges
