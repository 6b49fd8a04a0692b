SPECIFICATION Spec
CONSTANTS
  Proc = {p1, p2, p3}
  NoProc = NoProc
  NBUF = 2
  Block = {k1, k2, k3}
  NoBlock = NoBlock
  Value = {0, 1}
  MaxPin = 1
SYMMETRY Symmetry
INVARIANT Buffers
PROPERTY Coherent
