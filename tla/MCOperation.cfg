SPECIFICATION FairWaitSpec
CONSTANTS
  Configs <- Small
  MaxLatency = 1
  MaxSlack = 1
INVARIANTS
  WaitTypeOK
  WaitBounded
  SuccessIsReal
  NoticedSoon
PROPERTY WaitEnds
CHECK_DEADLOCK FALSE
