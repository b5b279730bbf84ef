SPECIFICATION Spec
CONSTANTS
  h1 = h1
  h2 = h2
  s1 = s1
  s2 = s2
  None = None
  Thread = {h1, h2}
  Device = {0, 1}
  Session = {s1, s2}
  Programs <- MCPrograms
  PipeSize = 1
  MaxCrashes = 1
CHECK_DEADLOCK FALSE
INVARIANTS LaunchesArrive
PROPERTIES Barrier SessionsEnd
