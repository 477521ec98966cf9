SPECIFICATION ManagedSpec
CONSTANTS
  absent = absent
  Absent = absent
  MCKinds = {"table", "dataset", "routine", "dataAgent", "conversation", "engine", "memory"}
  MCRegions = {"sync", "501"}
  Kinds <- MCKinds
  Regions <- MCRegions
  Programs <- MCPrograms
  Polls = 1
  MaxObjects = 3
  MaxCondemned = 1
  MaxPending = 0
  MaxFaults = 1
  MaxDrifts = 1
INVARIANTS
  InStep
  Exists
  NoStray
  RefreshKeeps
PROPERTIES
  ContentsKept
  OnlyFaultsFail
CHECK_DEADLOCK FALSE
