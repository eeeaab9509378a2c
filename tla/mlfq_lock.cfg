SPECIFICATION FairSpec
CONSTANTS
  Procs = {p0, p1}
  InitProc = p0
  Started = {p0, p1}
  CPUs = {c1}
  NoProc = NoProc
  Calls = {"fork", "exit", "lock"}
  Priorities = {1}
  QUEUE_MAX_SIZE = 4
  Quantum <- OneTick
  BOOST = 3
  TopPriority = 1
  p0 = p0
  p1 = p1
  c1 = c1
CHECK_DEADLOCK FALSE
PROPERTY LockReleased
