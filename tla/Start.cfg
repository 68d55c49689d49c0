SPECIFICATION StartSpec
CONSTANTS
  p1 = p1
  p2 = p2
  a1 = a1
  a2 = a2
  c1 = c1
  c2 = c2
  c3 = c3
  n1 = n1
  n2 = n2
  Procs = {p1, p2}
  Accounts = {a1, a2}
  MaxStarts = 3
  Callers = {c1, c2, c3}
  Names = {n1, n2}
  MaxMakes = 3
  MayFail = TRUE
SYMMETRY Symmetric
INVARIANTS KeyBelongs InUseIsTrusted FailureHasCause OneValuePerName
PROPERTY CAIsKept
CHECK_DEADLOCK FALSE
