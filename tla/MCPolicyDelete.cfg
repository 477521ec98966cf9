SPECIFICATION Spec
CONSTANTS
  r1 = r1
  r2 = r2
  g1 = g1
  g2 = g2
  Blank = Blank
  Missing = Missing
  Grants = {g1, g2}
  Resources <- Two
  MaxOps = 3
  MaxChanges = 0
  MaxFaults = 0
PROPERTIES DeleteKeepsOthers
