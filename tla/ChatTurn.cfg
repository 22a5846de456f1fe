SPECIFICATION FairSpec
CONSTANTS
  Turn = {t1, t2}
  Name = {n1, n2}
  Nobody = Nobody
  MaxRounds = 2
  ToolsBound <- Tools
  MaxFaults = 1
INVARIANTS
  TypeOK
  HistoryIsReplayable
  AnswersFollowTheirCalls
  DoneTurnsAreClosed
PROPERTIES
  ContactIsKept
  TurnsEnd
CHECK_DEADLOCK FALSE
