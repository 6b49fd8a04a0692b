SPECIFICATION FairSpec
CONSTANTS
  Proc = {p1, p2}
  Block = {b1, b2}
  Val = {v0, v1}
  Torn = Torn
  NoBuf = NoBuf
  MAXOPBLOCKS = 3
  OPBLOCKS = 2
  LOGSIZE = 6
  NLOG = 6
INVARIANTS QuietIsDurable NoPanic LogInv
PROPERTIES CrashAtomic SleepersWake
