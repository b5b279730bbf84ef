SPECIFICATION Spec
CONSTANTS
  c1 = c1
  c2 = c2
  c3 = c3
  c4 = c4
  s1 = s1
  s2 = s2
  None = None
  Call = {c1, c2, c3, c4}
  Source = {s1, s2}
  SourceOf <- MCSourceOf
  Autotune = {c3}
  Attached = {c1, c2}
  Overflows = {s2}
  Functional = {c1, c2, c4}
  Timing = {c1, c3, c4}
  MaxCrashes = 1
CHECK_DEADLOCK FALSE
INVARIANTS RunsRightKernel
PROPERTY CallsEnd
