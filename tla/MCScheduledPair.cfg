SPECIFICATION FairSpec
CONSTANTS
  Kinds <- AllKinds
  Definitions <- AllQueries
  Valid <- TwoQueries
  Schedules <- TwoSchedules
  Identities <- OneIdentity
  MaxFaults = 2
  LostAnswers = TRUE
  Crashes = TRUE
  Leftovers = TRUE
  Polls = 2
  Missing = Missing
  q1 = q1
  q2 = q2
  broken = broken
  daily = daily
  hourly = hourly
  sa1 = sa1
  sa2 = sa2
INVARIANT PairMatches
INVARIANT CreateDeploys
INVARIANT OnlyValidInstalled
INVARIANT RunsTheBatch
PROPERTY OperationEnds
