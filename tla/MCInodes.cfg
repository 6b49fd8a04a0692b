SPECIFICATION MCSpec
CONSTANTS
  Proc = {t1, t2}
  Cpu = {c1, c2}
  None = None
  p1 = p1
  p2 = p2
  User = {p1, p2}
  Inode = {1, 2, 3}
  Name = {"a", "b"}
  Call <- MCCall
  MaxStray = 0
SYMMETRY Symmetry
VIEW Seen
INVARIANTS NoPanic Resumes  Links Safe
