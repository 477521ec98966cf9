SPECIFICATION Spec
CONSTANTS
  raw = raw
  mid = mid
  top = top
  s1 = s1
  s2 = s2
  Missing = Missing
  Models = {raw, mid}
  Sqls = {s1, s2}
  Managed = {}
  Stacks <- Edited
  MaxDeploys = 2
  MaxFaults = 0
INVARIANTS
  InlinesCurrent
