SPECIFICATION FairSpec
CONSTANTS
  Reader = {r1}
  Writer = {w1}
  NoProc = NoProc
  Byte = {0, 1}
  PIPESIZE = 2
  WORD = 4
  MaxN = 3
  Killable = {r1, w1}
INVARIANT PipeWaits
PROPERTIES IsFifo CallsReturn
