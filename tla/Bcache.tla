-------------------------------- MODULE Bcache --------------------------------
(***************************************************************************)
(* The buffer cache and the disk under it, assignment03/project03/         *)
(* xv6-public: bio.c, sleeplock.c and ide.c.  A process takes a block with *)
(* bread(), may change it and write it with bwrite(), or leave it B_DIRTY  *)
(* for the log, and gives it back with brelse().                           *)
(*                                                                         *)
(* One action is one section under bcache.lock, under the spin lock of a   *)
(* sleep lock or under idelock; the disk answers at any time.  A process   *)
(* uses one buffer at a time.                                              *)
(***************************************************************************)
EXTENDS Integers, Sequences, FiniteSets

CONSTANTS
  Users,       \* processes that read and write blocks
  NBUF,        \* param.h: size of bcache.buf
  Nos,         \* block numbers
  Contents,    \* contents of a block
  NoBlock,     \* a buffer that has never been used
  Nobody,      \* nobody holds the buffer
  Outcomes     \* results of idewait(1): {TRUE}, or BOOLEAN for a disk with errors

ASSUME BcacheAssumption ==
  /\ NoBlock \notin Nos /\ Nobody \notin Users
  /\ NBUF \in Nat \ {0} /\ IsFiniteSet(Users) /\ Contents # {}
  /\ Outcomes \subseteq BOOLEAN

Bufs == 1..NBUF

VARIABLES
  list,        \* the list through next: most recently used buffer first
  blockno,     \* block number of each buffer
  refcnt,      \* references to each buffer
  valid,       \* buffers with B_VALID
  dirtyBufs,   \* buffers with B_DIRTY
  data,        \* content of each buffer
  owner,       \* who holds the sleep lock of each buffer
  idequeue,    \* requests; the first is the one the disk works on
  command,     \* what idestart() last told the disk: block, and content to write
  platter,     \* the blocks on the disk
  bpc,         \* where each process is
  using        \* the buffer bget() found for each process

bufFields == <<blockno, refcnt, valid, dirtyBufs, data>>
disk      == <<idequeue, command, platter>>
bcacheVars == <<list, bufFields, owner, disk, bpc, using>>

Waiting == {"lock_sleep", "io"}
Inside  == {"lock", "locked", "io_woken", "held", "unref"} \cup Waiting

NoCommand == [write |-> FALSE, no |-> NoBlock]

BcacheInit ==
  /\ list = [i \in Bufs |-> NBUF + 1 - i]      \* binit() adds at the front
  /\ blockno = [b \in Bufs |-> NoBlock]
  /\ refcnt = [b \in Bufs |-> 0]
  /\ valid = {} /\ dirtyBufs = {}
  /\ platter \in [Nos -> Contents]
  /\ data = [b \in Bufs |-> CHOOSE v \in Contents : TRUE]
  /\ owner = [b \in Bufs |-> Nobody]
  /\ idequeue = <<>> /\ command = NoCommand
  /\ bpc = [p \in Users |-> "idle"]
  /\ using = [p \in Users |-> 1]

GoTo(p, s) == bpc' = [bpc EXCEPT ![p] = s]

\* wakeup(chan): processes at "from" that wait for buffer b go on at "to".
WakeOn(b, p, s, from, to) ==
  bpc' = [q \in Users |-> IF q = p THEN s
                          ELSE IF bpc[q] = from /\ using[q] = b THEN to ELSE bpc[q]]

-----------------------------------------------------------------------------
\* bget(), under bcache.lock.

Cached(n)   == {b \in Bufs : blockno[b] = n}
\* Mutant of Reusable: a buffer the log has pinned is given away.
ReusableDirty(b) == refcnt[b] = 0

\* Mutant of Reusable: a buffer somebody waits for is given away.
ReusableReferenced(b) == owner[b] = Nobody /\ b \notin dirtyBufs

Reusable(b) == refcnt[b] = 0 /\ b \notin dirtyBufs

BgetHit(p, n) ==
  /\ bpc[p] = "idle"
  /\ \E b \in Cached(n) :
       /\ refcnt' = [refcnt EXCEPT ![b] = @ + 1]
       /\ using' = [using EXCEPT ![p] = b]
  /\ GoTo(p, "lock")
  /\ UNCHANGED <<list, blockno, valid, dirtyBufs, data, owner, disk>>

\* The least recently used buffer that is not in use.
BgetMiss(p, n) ==
  /\ bpc[p] = "idle" /\ Cached(n) = {}
  /\ \E i \in DOMAIN list :
       LET b == list[i] IN
       /\ Reusable(b)
       /\ \A j \in DOMAIN list : j > i => ~Reusable(list[j])
       /\ blockno' = [blockno EXCEPT ![b] = n]
       /\ valid' = valid \ {b} /\ dirtyBufs' = dirtyBufs \ {b}
       /\ refcnt' = [refcnt EXCEPT ![b] = 1]
       /\ using' = [using EXCEPT ![p] = b]
  /\ GoTo(p, "lock")
  /\ UNCHANGED <<list, data, owner, disk>>

\* panic("bget: no buffers"); panic() never returns.
BgetPanic(p, n) ==
  /\ bpc[p] = "idle" /\ Cached(n) = {}
  /\ \A b \in Bufs : ~Reusable(b)
  /\ GoTo(p, "panic")
  /\ UNCHANGED <<list, bufFields, owner, disk, using>>

-----------------------------------------------------------------------------
\* acquiresleep(), each round of its loop under the lock's spin lock.

AcquireSleep(p) ==
  /\ bpc[p] = "lock" /\ owner[using[p]] = Nobody
  /\ owner' = [owner EXCEPT ![using[p]] = p]
  /\ GoTo(p, "locked")
  /\ UNCHANGED <<list, bufFields, disk, using>>

AcquireWait(p) ==
  /\ bpc[p] = "lock" /\ owner[using[p]] # Nobody
  /\ GoTo(p, "lock_sleep")
  /\ UNCHANGED <<list, bufFields, owner, disk, using>>

\* Mutant of ReleaseSleep: nobody is woken.
ReleaseSilently(p) ==
  /\ bpc[p] = "held"
  /\ owner' = [owner EXCEPT ![using[p]] = Nobody]
  /\ GoTo(p, "unref")
  /\ UNCHANGED <<list, bufFields, disk, using>>

\* brelse(): releasesleep(), then the reference under bcache.lock.
ReleaseSleep(p) ==
  /\ bpc[p] = "held"
  /\ owner' = [owner EXCEPT ![using[p]] = Nobody]
  /\ WakeOn(using[p], p, "unref", "lock_sleep", "lock")
  /\ UNCHANGED <<list, bufFields, disk, using>>

MoveToFront(b) ==
  LET at == CHOOSE i \in DOMAIN list : list[i] = b IN
  [i \in DOMAIN list |-> IF i = 1 THEN b ELSE IF i <= at THEN list[i - 1] ELSE list[i]]

Unreference(p) ==
  LET b == using[p] IN
  /\ bpc[p] = "unref"
  /\ refcnt' = [refcnt EXCEPT ![b] = @ - 1]
  /\ list' = IF refcnt[b] = 1 THEN MoveToFront(b) ELSE list
  /\ GoTo(p, "idle")
  /\ UNCHANGED <<blockno, valid, dirtyBufs, data, owner, disk, using>>

-----------------------------------------------------------------------------
\* iderw(), under idelock: queue the request, start an idle disk, and sleep.

\* idestart(): a dirty buffer is written, with the content it has now.
StartCommand(b, dirty, bytes) ==
  IF b \in dirty THEN [write |-> TRUE, no |-> blockno[b], bytes |-> bytes[b]]
  ELSE [write |-> FALSE, no |-> blockno[b]]

Request(p, dirty, bytes) ==
  LET b == using[p] IN
  /\ idequeue' = Append(idequeue, b)
  /\ command' = IF idequeue = <<>> THEN StartCommand(b, dirty, bytes) ELSE command
  /\ GoTo(p, "io")

\* bread() of a buffer that has the block, and of one that has not.
BreadValid(p) ==
  /\ bpc[p] = "locked" /\ using[p] \in valid
  /\ GoTo(p, "held")
  /\ UNCHANGED <<list, bufFields, owner, disk, using>>

BreadRequest(p) ==
  /\ bpc[p] = "locked" /\ using[p] \notin valid
  /\ Request(p, dirtyBufs, data)
  /\ UNCHANGED <<list, bufFields, owner, platter, using>>

\* The process that holds the buffer changes it and calls bwrite(), or
\* log_write(), which only sets B_DIRTY.
Bwrite(p, v) ==
  LET b == using[p] IN
  /\ bpc[p] = "held"
  /\ data' = [data EXCEPT ![b] = v]
  /\ dirtyBufs' = dirtyBufs \cup {b}
  /\ Request(p, dirtyBufs', data')
  /\ UNCHANGED <<list, blockno, refcnt, valid, owner, platter, using>>

PinForLog(p, v) ==
  LET b == using[p] IN
  /\ bpc[p] = "held"
  /\ data' = [data EXCEPT ![b] = v]
  /\ dirtyBufs' = dirtyBufs \cup {b}
  /\ UNCHANGED <<list, blockno, refcnt, valid, owner, disk, bpc, using>>

\* The sleeper of iderw() tests the flags again.
IoWoken(p) ==
  /\ bpc[p] = "io_woken"
  /\ GoTo(p, IF using[p] \in valid \ dirtyBufs THEN "held" ELSE "io")
  /\ UNCHANGED <<list, bufFields, owner, disk, using>>

-----------------------------------------------------------------------------
\* The disk has done what command says, and interrupts: ideintr().

\* Mutant of IdeIntr: B_DIRTY is not cleared.
IdeIntrStillDirty(ok) ==
  LET b == Head(idequeue) IN
  /\ idequeue # <<>>
  /\ platter' = IF command.write THEN [platter EXCEPT ![command.no] = command.bytes] ELSE platter
  /\ data' = IF b \notin dirtyBufs /\ ok THEN [data EXCEPT ![b] = platter[command.no]] ELSE data
  /\ valid' = valid \cup {b}
  /\ idequeue' = Tail(idequeue)
  /\ command' = IF Tail(idequeue) = <<>> THEN NoCommand
                ELSE StartCommand(Head(Tail(idequeue)), dirtyBufs, data)
  /\ bpc' = [q \in Users |-> IF bpc[q] = "io" /\ using[q] = b THEN "io_woken" ELSE bpc[q]]
  /\ UNCHANGED <<list, blockno, refcnt, dirtyBufs, owner, using>>

IdeIntr(ok) ==
  LET b == Head(idequeue) IN
  /\ idequeue # <<>>
  /\ platter' = IF command.write THEN [platter EXCEPT ![command.no] = command.bytes] ELSE platter
  /\ data' = IF b \notin dirtyBufs /\ ok THEN [data EXCEPT ![b] = platter[command.no]] ELSE data
  /\ valid' = valid \cup {b} /\ dirtyBufs' = dirtyBufs \ {b}
  /\ idequeue' = Tail(idequeue)
  /\ command' = IF Tail(idequeue) = <<>> THEN NoCommand
                ELSE StartCommand(Head(Tail(idequeue)), dirtyBufs, data)
  /\ bpc' = [q \in Users |-> IF bpc[q] = "io" /\ using[q] = b THEN "io_woken" ELSE bpc[q]]
  /\ UNCHANGED <<list, blockno, refcnt, owner, using>>

\* panic(): interrupts off, and for(;;).
Frozen == UNCHANGED bcacheVars
-----------------------------------------------------------------------------
CachePanicked == \E p \in Users : bpc[p] = "panic"

UserStep(p) ==
  \/ \E n \in Nos : BgetHit(p, n) \/ BgetMiss(p, n) \/ BgetPanic(p, n)
  \/ AcquireSleep(p) \/ AcquireWait(p)
  \/ BreadValid(p) \/ BreadRequest(p) \/ IoWoken(p)
  \/ \E v \in Contents : Bwrite(p, v) \/ PinForLog(p, v)
  \/ ReleaseSleep(p) \/ Unreference(p)

BcacheNext ==
  \/ ~CachePanicked /\ \E p \in Users : UserStep(p)
  \/ ~CachePanicked /\ \E ok \in Outcomes : IdeIntr(ok)
  \/ CachePanicked /\ Frozen

BcacheSpec == BcacheInit /\ [][BcacheNext]_bcacheVars
-----------------------------------------------------------------------------
\* Properties.

BcacheTypeOK ==
  /\ list \in Seq(Bufs)
  /\ blockno \in [Bufs -> Nos \cup {NoBlock}] /\ refcnt \in [Bufs -> Nat]
  /\ valid \subseteq Bufs /\ dirtyBufs \subseteq Bufs
  /\ data \in [Bufs -> Contents] /\ platter \in [Nos -> Contents]
  /\ owner \in [Bufs -> Users \cup {Nobody}]
  /\ idequeue \in Seq(Bufs)
  /\ bpc \in [Users -> Inside \cup {"idle", "panic"}]
  /\ using \in [Users -> Bufs]

\* bget() looks a block up and recycles a buffer under one lock: two buffers
\* never stand for the same block, and the buffer a process got, waits for or
\* holds keeps its number (it is counted in refcnt).
OneBuffer ==
  /\ \A b, c \in Bufs : blockno[b] = blockno[c] /\ blockno[b] # NoBlock => b = c
  /\ \A b \in Bufs : refcnt[b] = Cardinality({p \in Users : bpc[p] \in Inside /\ using[p] = b})

\* Readers see the last content written, whatever was recycled or queued.
View(n) ==
  IF \E b \in valid : blockno[b] = n THEN data[CHOOSE b \in valid : blockno[b] = n] ELSE platter[n]

Holder(n) ==
  IF \E b \in valid : blockno[b] = n THEN owner[CHOOSE b \in valid : blockno[b] = n] ELSE Nobody

Store == INSTANCE BlockStore WITH
           content <- [n \in Nos |-> View(n)], holder <- [n \in Nos |-> Holder(n)]
BlocksCoherent == Store!Spec

\* A process asleep on the sleep lock of a buffer waits for a process that has
\* the buffer, or was woken for it, and will call releasesleep().
NoLockLost ==
  \A p \in Users : bpc[p] = "lock_sleep" =>
    \E q \in Users : q # p /\ using[q] = using[p] /\ bpc[q] \in {"lock", "locked", "io", "io_woken", "held"}
=============================================================================
