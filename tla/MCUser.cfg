SPECIFICATION MCSpec
CONSTANTS
  Proc = {p1, p2}
  InitProc = p1
  Page = {1, 2, 3, 4, 5, 6, 7, 8, 9, 10, 11, 12, 13}
  None = 0
  Trampoline = 99
  PGSIZE = 4
  LEVELS = 2
  PTES = 3
  Call <- MCCall
  Touched = {0}
  Step <- MCStep
  MAXARG = 3
  ALIGN = 2
  WORDSZ = 1
  MAXU = 64
  MaxSz = 16
  MaxKernel = 1
  Inode = {root}
  Pipe = {page}
VIEW Seen
INVARIANTS Pages Files Pipelines Parses Heap Filtered Copied Printed
PROPERTY OwnSpaces
CHECK_DEADLOCK FALSE
