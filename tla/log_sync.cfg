SPECIFICATION Spec
CONSTANTS
  Procs = {p1}
  Syncers = {p1}
  Blocks = {b1, b2}
  InodeStart = b1
  Data = {d1, d2}
  NoData = NoData
  NoProc = NoProc
  LOGSIZE = 3
  MAXOPBLOCKS = 2
  p1 = p1
  b1 = b1
  b2 = b2
  d1 = d1
  d2 = d2
PROPERTY SyncDurable
PROPERTY AtomicCommit
