SPECIFICATION Spec
CONSTANTS
  a = a
  b = b
  c = c
  tmp = tmp
  d1 = d1
  d2 = d2
  Columns = {a, b, c}
  Temps <- OneTemp
  Descs = {d1, d2}
  Initial = {{}, {a, b}}
  Protected = {c}
  Programs <- Tidy
  Disciplined = TRUE
  MaxUpdates = 3
  MaxFaults = 1
CHECK_DEADLOCK FALSE
INVARIANTS Recoverable
PROPERTIES OnlyDeletedLost SuccessIsApplied ReapplyIsNoop
