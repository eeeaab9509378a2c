SPECIFICATION StorageSpec
CONSTANTS
  Users = {u1, u2}
  NBUF = 2
  Nos = {1, 2, 3}
  Contents = {0, 1}
  NoBlock = NoBlock
  Nobody = Nobody
  Outcomes = {TRUE}
  BFiles = {i1, i2}
  NDIRECT = 1
  BSIZE = 2
  FSSIZE = 19
  NMETA = 1
  Requests <- Writes
  MaxImage = 1
  MaxCalls = 3
  p1 = p1
  p2 = p2
  Procs = {p1, p2}
  NINODES = 4
  Unlocked = Unlocked
  DNames = {"a", "b"}
  Trees <- FileTrees
  Calls <- NameCallSet
  MaxNameCalls = 3
CHECK_DEADLOCK FALSE
INVARIANT StorageTypeOK
INVARIANT OneBuffer
INVARIANT NoLockLost
INVARIANT BlocksOwned
INVARIANT RefsHeld
 
 
 
PROPERTY BlocksCoherent
PROPERTY IoAnswered
PROPERTY BytesKept
