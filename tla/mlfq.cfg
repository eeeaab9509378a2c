SPECIFICATION Spec
CONSTANTS
  Procs = {p0, p1}
  InitProc = p0
  Started = {p0}
  CPUs = {c1, c2}
  NoProc = NoProc
  Calls = {"sleep", "exit", "fork", "setPriority", "kill", "wrong"}
  Priorities = {0, 1}
  QUEUE_MAX_SIZE = 5
  Quantum <- NoTick
  BOOST = 3
  TopPriority = 1
  p0 = p0
  p1 = p1
  c1 = c1
  c2 = c2
SYMMETRY Symmetry
CHECK_DEADLOCK FALSE
INVARIANT TypeOK
INVARIANT OneCpu
PROPERTY LostOnlyByWrap
