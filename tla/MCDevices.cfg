SPECIFICATION MCSpec
CONSTANTS
  CPU = {c1, c2}
  NoCpu = NoCpu
  Lock = {"cons", "tx"}
  Reader = {c1}
  Writer = {c2}
  INPUT_BUF_SIZE = 2
  WORD = 4
  UART_TX_BUF_SIZE = 2
  TXWORD = 4
  FIFO = 2
  RX = 1
  Sessions = {{c1}, {c2}}
  BACKSPACE = 1
  MaxN = 2
  Key <- MCKey
  Proc = {p1, p2}
  NoProc = NoProc
  Intr = Intr
SYMMETRY Symmetry
VIEW Seen
INVARIANTS Locks Awake Output Transfers
PROPERTY LineDiscipline
