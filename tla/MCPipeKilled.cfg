SPECIFICATION Spec
CONSTANTS
  Reader = {r1}
  Writer = {w1, w2}
  NoProc = NoProc
  Byte = {0}
  PIPESIZE = 2
  WORD = 4
  MaxN = 2
  Killable = {w1}
INVARIANT ReaderSleepsOnEmpty
