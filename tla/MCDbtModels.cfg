SPECIFICATION Spec
CONSTANTS
  raw = raw
  mid = mid
  top = top
  s1 = s1
  s2 = s2
  Missing = Missing
  Models = {raw, mid, top}
  Sqls = {s1, s2}
  Managed = {top}
  Stacks <- AllStacks
  MaxDeploys = 3
  MaxFaults = 1
INVARIANTS
  CtesClosed
  RefsExist
  UpToDate
  NoOrphans
  Converges
  MergeMatches
  ManagedKept
