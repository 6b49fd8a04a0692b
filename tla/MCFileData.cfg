SPECIFICATION Spec
CONSTANTS
  p1 = p1
  p2 = p2
  h1 = h1
  h2 = h2
  Blocks = 7
  Proc = {p1, p2}
  File <- MCFile
  Root = 0
  Handle = {h1, h2}
  of <- MCof
  Block <- MCBlock
  BSIZE = 2
  NDIRECT = 1
  NINDIRECT = 2
  BPB = 1
  MAXOPBLOCKS = 6
  Image <- MCImage
  Len0 = 1
  Reads = {6}
  Writes = {3}
  ByteOf <- MCByteOf
  Group = 2
  None = None
INVARIANTS Bitmap 
 
CHECK_DEADLOCK FALSE
VIEW View
SYMMETRY Symmetry
