SPECIFICATION ProcessesSpec
CONSTANTS
  NPROC = 3
  CPUs = {c1, c2}
  NSPACES = 3
  NPAGES = 19
  PGSIZE = 2
  PTES = 2
  KTABLES = 1
  USERTOP = 7
  Programs <- TwoPrograms
  SbrkArgs <- FourAmounts
  Sessions <- TypedSessions
  MAXARGS = 3
  NJOBS = 6
CHECK_DEADLOCK FALSE
INVARIANT ProcessesTypeOK
INVARIANT NoSleepWithoutCause
INVARIANT PagesConserved
PROPERTY OrphansReaped
PROPERTY PromptReturns
