SPECIFICATION Spec
CONSTANTS
  Procs = {p1, p2}
  Syncers = {}
  Blocks = {b1, b2, b3, b4, b5, b6}
  InodeStart = b1
  Data = {d1}
  NoData = NoData
  NoProc = NoProc
  LOGSIZE = 6
  MAXOPBLOCKS = 2
  p1 = p1
  p2 = p2
  b1 = b1
  b2 = b2
  b3 = b3
  b4 = b4
  b5 = b5
  b6 = b6
  d1 = d1
INVARIANT NoTooBig
