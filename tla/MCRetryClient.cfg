SPECIFICATION FairClientSpec
CONSTANTS
  c1 = c1
  c2 = c2
  chat = chat
  sched = sched
  Callers <- MCCallers
  Services <- MCServices
  FailureThreshold = 2
  SuccessThreshold = 1
  Timeout = 1
  Retries = 1
  Verbs <- MCVerbs
  Faulty <- MCFaulty
  Streamed <- MCFaulty
INVARIANTS ClientTypeOK NoLostTrip NoLostClose OnlyFaultyTrips
PROPERTIES EveryCallReturns OpenRecovers
