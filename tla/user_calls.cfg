SPECIFICATION UserCallsSpec
CONSTANTS
  FProcs = {f1, f2}
  InitProc = f1
  NOFILE = 2
  NFILE = 2
  PIPESIZE = 2
  COUNTER = 4
  Bytes = {0, 1}
  Messages <- LongMessage
  ReadSizes = {2}
  NSLOTS = 3
  NTHREAD = 4
  KERNBASE = 7
  IMAGE = 1
  Amounts <- GiveOneTakeTwo
  Limits = {2}
  StackSizes = {2}
  MaxTid = 2
  MaxTaken = 2
  Readers = {r1, r2}
  INPUTBUF = 3
  COUNT = 6
  Letters = {"a"}
  Sizes = {2}
  Cores = {k1, k2}
  Core0 = k1
  Tasks = {t1, t2}
  SleepTimes = {1}
  MaxTicks = 2
  Free = Free
CHECK_DEADLOCK FALSE
INVARIANT UserCallsTypeOK
INVARIANT RefsCounted
 
 
 
INVARIANT SpinsEnd
INVARIANT IntenaKept
INVARIANT OnTime
PROPERTY SleepersHaveCause
PROPERTY PipeIsFifo
PROPERTY LinesKept
