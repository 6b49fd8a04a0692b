SPECIFICATION MCSpec
CONSTANTS
  CPU = {c1}
  NoCpu = NoCpu
  NPROC = 3
  MaxPid = 3
  TimerAt = {"user", "exit", "wait", "fork_run"}
  Targets = {3}
  Sleeper = {s1, s2}
  Nobody = Nobody
  WORD = 4
  Times = {0, 2, 3}
INVARIANT Wakeups
PROPERTIES OrphansReaped SleepsEnough
