SPECIFICATION FairSpec
CONSTANTS
  Message = {m1, m2}
  Nothing = Nothing
  MaxEvents = 2
  MaxCrashes = 1
INVARIANTS
  TypeOK
  TurnsOverlapOnlyAfterAFailure
  ConversationsGoOn
  SilenceIsTheServers
PROPERTIES
  ImplementsStream
  AnswersComplete
CHECK_DEADLOCK FALSE
