SPECIFICATION FairSpec
CONSTANTS
  MaxTurns = 2
  Handler = {h1}
  Stream = {s1}
  MaxCancels = 2
  MaxFaults = 1
INVARIANTS
  TypeOK
  StopsWereAsked
  MarkerIsExplained
  SweepSparesLiveTurns
  WaitingStreamHasPublisher
PROPERTIES
  TurnsEnd
  StreamsEnd
CHECK_DEADLOCK FALSE
