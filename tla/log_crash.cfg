SPECIFICATION FairSpec
CONSTANTS
  Procs = {p1, p2}
  Syncers = {}
  Blocks = {b1, b2}
  InodeStart = b1
  Data = {d1, d2}
  NoData = NoData
  NoProc = NoProc
  LOGSIZE = 3
  MAXOPBLOCKS = 2
  p1 = p1
  p2 = p2
  b1 = b1
  b2 = b2
  d1 = d1
  d2 = d2
INVARIANT CommitAlone
INVARIANT AbsorbedOnce
INVARIANT NoLostWakeup
PROPERTY AtomicCommit
 
