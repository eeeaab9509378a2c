SPECIFICATION Spec
CONSTANTS
  Procs = {p1, p2, p3}
  Syncers = {p3}
  Blocks = {b1, b2, b3}
  InodeStart = b1
  Data = {d1}
  NoData = NoData
  NoProc = NoProc
  LOGSIZE = 2
  MAXOPBLOCKS = 1
  p1 = p1
  p2 = p2
  p3 = p3
  b1 = b1
  b2 = b2
  b3 = b3
  d1 = d1
SYMMETRY Symmetry
INVARIANT TypeOK
INVARIANT OverrunBound
