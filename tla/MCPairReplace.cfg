SPECIFICATION Spec
CONSTANTS
  Kinds <- SqlJobs
  Definitions <- OneQuery
  Valid <- OneQuery
  Schedules <- OneSchedule
  Identities <- TwoIdentities
  MaxFaults = 0
  LostAnswers = FALSE
  Crashes = FALSE
  Leftovers = FALSE
  Polls = 2
  Missing = Missing
  q1 = q1
  q2 = q2
  broken = broken
  daily = daily
  hourly = hourly
  sa1 = sa1
  sa2 = sa2
INVARIANT ReplaceKeepsPair
