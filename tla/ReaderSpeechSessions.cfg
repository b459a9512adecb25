SPECIFICATION FairSpec
CONSTANTS
  Blocks = 4
  Translated <- FirstAndLast
  Blank <- SecondBlock
  None = None
  MaxTurns = 3
INVARIANTS
  TypeOK
  NothingIsSkipped
  MarkFollowsVoice
  ControlMatchesEngine
PROPERTIES
  SleepIsHonoured
  ReadingEnds
CHECK_DEADLOCK FALSE
