SPECIFICATION Spec
CONSTANTS
  Procs = {p1, p2}
  Syncers = {p2}
  Blocks = {b1, b2}
  InodeStart = b1
  Data = {d1}
  NoData = NoData
  NoProc = NoProc
  LOGSIZE = 3
  MAXOPBLOCKS = 2
  p1 = p1
  p2 = p2
  b1 = b1
  b2 = b2
  d1 = d1
INVARIANT CommitAlone
