SPECIFICATION FairSpec
CONSTANTS
  Proc = {p1, p2, p3}
  NoProc = NoProc
  Intr = Intr
  NUM = 4
  WORD = 8
  Value = {0}
INVARIANTS Descriptors 
PROPERTY RequestsFinish
