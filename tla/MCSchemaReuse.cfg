SPECIFICATION Spec
CONSTANTS
  a = a
  b = b
  c = c
  tmp = tmp
  d1 = d1
  d2 = d2
  Columns = {a, b, c}
  Temps <- OneTemp
  Descs = {d1}
  Initial = {{}, {a, b}}
  Protected = {c}
  Programs <- Replacement
  Disciplined = TRUE
  MaxUpdates = 2
  MaxFaults = 0
CHECK_DEADLOCK FALSE
PROPERTIES RenamedKept
