SPECIFICATION Spec
CONSTANTS
  CPU = {c1, c2}
  NoCpu = NoCpu
  NPROC = 3
  MaxPid = 3
  TimerAt = {"user", "ret", "fork", "exit", "wait", "kill"}
  Targets = {1, 2}
SYMMETRY Symmetry
INVARIANTS StackExclusive Relations
