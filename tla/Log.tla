--------------------------------- MODULE Log ---------------------------------
(***************************************************************************)
(* The write-ahead log of assignment03/project03/xv6-public: log.c, with   *)
(* the part of the buffer cache (bio.c) and of the disk driver (ide.c) it  *)
(* rests on.  In this version of xv6 a transaction is no longer committed  *)
(* when the last file system call ends, but only when the log is nearly    *)
(* full or when a process calls sync().                                    *)
(*                                                                         *)
(* A process is outside the log, inside a file system call, or in commit();*)
(* the sections log.c runs under log.lock are single actions, the reads it *)
(* makes without the lock and every disk write are actions of their own.   *)
(* The disk is the home image, the log slots and the log header; a crash   *)
(* keeps those and nothing else.  A block's content is a member of Data.   *)
(***************************************************************************)
EXTENDS Integers, Sequences, FiniteSets

CONSTANTS
  Procs,         \* processes that issue file system calls
  Syncers,       \* those among them that also call sync()
  Blocks,        \* home blocks of the file system
  InodeStart,    \* the home block that follows the log area on the disk
  Data,          \* contents of a block
  NoData,        \* the block is not in the buffer cache
  NoProc,        \* nobody holds the buffer
  LOGSIZE,       \* param.h: entries of the header, and blocks of the log area
  MAXOPBLOCKS    \* param.h: blocks one file system call may write

ASSUME ProcsAssumption == IsFiniteSet(Procs) /\ Syncers \subseteq Procs
ASSUME BlocksAssumption == InodeStart \in Blocks
ASSUME ValuesAssumption == NoData \notin Data /\ NoProc \notin Procs
ASSUME SizeAssumption ==
  /\ LOGSIZE \in Nat /\ LOGSIZE >= 2
  /\ MAXOPBLOCKS \in Nat /\ MAXOPBLOCKS >= 1

VARIABLES
  home,          \* the disk: home blocks
  slot,          \* the disk: data blocks of the log area
  dhead,         \* the disk: the log header, a sequence of block numbers
  cache,         \* buffer cache: content of each home block, or NoData
  dirty,         \* buffer cache: blocks with B_DIRTY set by log_write()
  held,          \* buffer cache: who holds the buffer's sleep lock
  lh,            \* log.lh, the header in memory
  outstanding,   \* log.outstanding
  committing,    \* log.committing
  pc,            \* where each process is
  syncing,       \* processes whose commit() was called by sync()
  written,       \* blocks each process has written in its current call
  tail,          \* loop variable of write_log() and install_trans()
  kernel         \* "boot", "recover", "up", or why it has halted

onDisk   == <<home, slot, dhead>>
bufVars  == <<cache, dirty, held>>
logVars  == <<lh, outstanding, committing>>
procVars == <<pc, syncing, written, tail>>
vars == <<onDisk, bufVars, logVars, procVars, kernel>>

\* mkfs gives the log area nlog = LOGSIZE blocks, the first of them the header.
nlog == LOGSIZE
Slots == 1..(nlog - 1)

\* Between begin_op() and end_op(), in commit(), and asleep on &log.
OpStates     == {"op", "modified", "checked"}
CommitStates == {"commit", "write_log", "write_head", "install", "clear",
                 "erase_head", "done"}
Sleeping     == {"begin_sleep", "sync_sleep"}
States == {"idle", "begin", "sync"} \cup Sleeping \cup OpStates \cup CommitStates
Booting == {"boot", "recover"}
Halted  == {"too big a transaction", "log_write outside of trans",
            "log.committing", "undefined"}

InOp     == {p \in Procs : pc[p] \in OpStates}
InCommit == {p \in Procs : pc[p] \in CommitStates}

Logged(head) == {head[i] : i \in 1..Len(head)}

\* What bread() returns: the cached content, or the disk's.
View(b) == IF cache[b] = NoData THEN home[b] ELSE cache[b]

\* Mutant of Full: one block too late.
FullLate == Len(lh) >= LOGSIZE \/ Len(lh) > nlog - 1

\* The log has no room for one more block, as log_write() and sync() test it.
Full == Len(lh) >= LOGSIZE \/ Len(lh) >= nlog - 1

\* Mutant of Woken: only sync() hears the wakeup.
WokenSyncOnly(s) == IF s = "sync_sleep" THEN "sync" ELSE s

\* wakeup(&log), as it leaves a process that was at s.
Woken(s) ==
  CASE s = "begin_sleep" -> "begin"
    [] s = "sync_sleep"  -> "sync"
    [] OTHER             -> s

WakeAll(p, s) == [q \in Procs |-> IF q = p THEN s ELSE Woken(pc[q])]
Goto(p, s)    == pc' = [pc EXCEPT ![p] = s]

\* The disk mkfs leaves, or any disk a clean run leaves: an empty header.
Init ==
  /\ home \in [Blocks -> Data] /\ slot \in [Slots -> Data] /\ dhead = <<>>
  /\ cache = [b \in Blocks |-> NoData]
  /\ dirty = {}
  /\ held = [b \in Blocks |-> NoProc]
  /\ lh = <<>> /\ outstanding = 0 /\ committing = FALSE
  /\ pc = [p \in Procs |-> "idle"]
  /\ syncing = {}
  /\ written = [p \in Procs |-> {}]
  /\ tail = [p \in Procs |-> 1]
  /\ kernel = "boot"

-----------------------------------------------------------------------------
\* begin_op(): the test and the count, or the test and the sleep, under log.lock.

\* Mutant of BeginOp: log.committing is not tested.
BeginOpDuringCommit(p) ==
  /\ kernel = "up" /\ pc[p] \in {"idle", "begin"}
  /\ Len(lh) < LOGSIZE
  /\ outstanding' = outstanding + 1
  /\ Goto(p, "op")
  /\ UNCHANGED <<onDisk, bufVars, lh, committing, syncing, written, tail, kernel>>

\* Mutant of BeginOp: the call is not counted.
BeginOpUncounted(p) ==
  /\ kernel = "up" /\ pc[p] \in {"idle", "begin"}
  /\ ~committing /\ Len(lh) < LOGSIZE
  /\ Goto(p, "op")
  /\ UNCHANGED <<onDisk, bufVars, logVars, syncing, written, tail, kernel>>

BeginOp(p) ==
  /\ kernel = "up" /\ pc[p] \in {"idle", "begin"}
  /\ ~committing /\ Len(lh) < LOGSIZE
  /\ outstanding' = outstanding + 1
  /\ Goto(p, "op")
  /\ UNCHANGED <<onDisk, bufVars, lh, committing, syncing, written, tail, kernel>>

BeginOpSleep(p) ==
  /\ kernel = "up" /\ pc[p] \in {"idle", "begin"}
  /\ committing \/ Len(lh) >= LOGSIZE
  /\ Goto(p, "begin_sleep")
  /\ UNCHANGED <<onDisk, bufVars, logVars, syncing, written, tail, kernel>>

-----------------------------------------------------------------------------
\* A system call between begin_op() and end_op(): bread() a block, modify it,
\* log_write() and brelse() it.

Modify(p, b, v) ==
  /\ kernel = "up" /\ pc[p] = "op"
  /\ held[b] = NoProc
  /\ b \in written[p] \/ Cardinality(written[p]) < MAXOPBLOCKS
  /\ held' = [held EXCEPT ![b] = p]
  /\ cache' = [cache EXCEPT ![b] = v]
  /\ written' = [written EXCEPT ![p] = @ \cup {b}]
  /\ Goto(p, "modified")
  /\ UNCHANGED <<onDisk, dirty, logVars, syncing, tail, kernel>>

\* log_write() tests the room in the log before it takes log.lock.
LogWriteCheck(p) ==
  /\ kernel = "up" /\ pc[p] = "modified"
  /\ ~Full /\ outstanding >= 1
  /\ Goto(p, "checked")
  /\ UNCHANGED <<onDisk, bufVars, logVars, syncing, written, tail, kernel>>

LogWritePanic(p) ==
  /\ kernel = "up" /\ pc[p] = "modified"
  /\ Full \/ outstanding < 1
  /\ kernel' = IF Full THEN "too big a transaction" ELSE "log_write outside of trans"
  /\ UNCHANGED <<onDisk, bufVars, logVars, procVars>>

\* Mutant of LogWriteAppend: no absorption.
LogWriteTwice(p, b) ==
  /\ kernel = "up" /\ pc[p] = "checked" /\ held[b] = p
  /\ Len(lh) < LOGSIZE
  /\ lh' = Append(lh, b)
  /\ dirty' = dirty \cup {b}
  /\ held' = [held EXCEPT ![b] = NoProc]
  /\ Goto(p, "op")
  /\ UNCHANGED <<onDisk, cache, outstanding, committing, syncing, written, tail,
                 kernel>>

\* Under log.lock: absorb or append, and pin.  The caller then releases b.
LogWriteAppend(p, b) ==
  /\ kernel = "up" /\ pc[p] = "checked" /\ held[b] = p
  /\ b \in Logged(lh) \/ Len(lh) < LOGSIZE
  /\ lh' = IF b \in Logged(lh) THEN lh ELSE Append(lh, b)
  /\ dirty' = dirty \cup {b}
  /\ held' = [held EXCEPT ![b] = NoProc]
  /\ Goto(p, "op")
  /\ UNCHANGED <<onDisk, cache, outstanding, committing, syncing, written, tail,
                 kernel>>

\* lh.block[LOGSIZE] does not exist: what the store does is undefined.
LogWriteOverflow(p, b) ==
  /\ kernel = "up" /\ pc[p] = "checked" /\ held[b] = p
  /\ b \notin Logged(lh) /\ Len(lh) >= LOGSIZE
  /\ kernel' = "undefined"
  /\ UNCHANGED <<onDisk, bufVars, logVars, procVars>>

-----------------------------------------------------------------------------
\* end_op(): the section under log.lock.

EndOpPanic(p) ==
  /\ kernel = "up" /\ pc[p] = "op"
  /\ committing
  /\ outstanding' = outstanding - 1
  /\ kernel' = "log.committing"
  /\ UNCHANGED <<onDisk, bufVars, lh, committing, procVars>>

EndOpCommit(p) ==
  /\ kernel = "up" /\ pc[p] = "op"
  /\ ~committing /\ outstanding = 1
  /\ Len(lh) + MAXOPBLOCKS > LOGSIZE
  /\ outstanding' = 0
  /\ committing' = TRUE
  /\ written' = [written EXCEPT ![p] = {}]
  /\ Goto(p, "commit")
  /\ UNCHANGED <<onDisk, bufVars, lh, syncing, tail, kernel>>

\* The last call out leaves the transaction open; it wakes nobody.
EndOpDefer(p) ==
  /\ kernel = "up" /\ pc[p] = "op"
  /\ ~committing /\ outstanding = 1
  /\ Len(lh) + MAXOPBLOCKS <= LOGSIZE
  /\ outstanding' = 0
  /\ written' = [written EXCEPT ![p] = {}]
  /\ Goto(p, "idle")
  /\ UNCHANGED <<onDisk, bufVars, lh, committing, syncing, tail, kernel>>

EndOpOthers(p) ==
  /\ kernel = "up" /\ pc[p] = "op"
  /\ ~committing /\ outstanding # 1
  /\ outstanding' = outstanding - 1
  /\ written' = [written EXCEPT ![p] = {}]
  /\ pc' = WakeAll(p, "idle")
  /\ UNCHANGED <<onDisk, bufVars, lh, committing, syncing, tail, kernel>>

-----------------------------------------------------------------------------
\* commit(), called by end_op() and by sync() without log.lock, and
\* recover_from_log(), which shares its second half.

\* Mutant of CommitStart: sync() too leaves a short transaction open.
CommitStartDeferring(p) ==
  /\ kernel = "up" /\ pc[p] = "commit"
  /\ Goto(p, IF Len(lh) + MAXOPBLOCKS > LOGSIZE THEN "write_log" ELSE "done")
  /\ tail' = [tail EXCEPT ![p] = 1]
  /\ UNCHANGED <<onDisk, bufVars, logVars, syncing, written, kernel>>

CommitStart(p) ==
  /\ kernel = "up" /\ pc[p] = "commit"
  /\ Goto(p, IF Len(lh) > 0 THEN "write_log" ELSE "done")
  /\ tail' = [tail EXCEPT ![p] = 1]
  /\ UNCHANGED <<onDisk, bufVars, logVars, syncing, written, kernel>>

\* The buffers of log block i and of home block b are not locked by anyone.
\* The log block one past the area is the buffer of InodeStart.
BuffersFree(i, b) ==
  /\ held[b] = NoProc
  /\ i \notin Slots => b # InodeStart /\ held[InodeStart] = NoProc

WriteLog(p) ==
  LET i == tail[p] IN
  /\ kernel = "up" /\ pc[p] = "write_log"
  /\ i \in 1..Len(lh) /\ i \in Slots
  /\ BuffersFree(i, lh[i])
  /\ slot' = [slot EXCEPT ![i] = View(lh[i])]
  /\ cache' = [cache EXCEPT ![lh[i]] = View(lh[i])]
  /\ tail' = [tail EXCEPT ![p] = i + 1]
  /\ UNCHANGED <<home, dhead, dirty, held, logVars, pc, syncing, written, kernel>>

\* The block after the log area is a home block: it is overwritten.
WriteLogPastEnd(p) ==
  LET i == tail[p] IN
  /\ kernel = "up" /\ pc[p] = "write_log"
  /\ i \in 1..Len(lh) /\ i \notin Slots
  /\ BuffersFree(i, lh[i])
  /\ home' = [home EXCEPT ![InodeStart] = View(lh[i])]
  /\ cache' = [cache EXCEPT ![lh[i]] = View(lh[i]), ![InodeStart] = View(lh[i])]
  /\ dirty' = dirty \ {InodeStart}
  /\ tail' = [tail EXCEPT ![p] = i + 1]
  /\ UNCHANGED <<slot, dhead, held, logVars, pc, syncing, written, kernel>>

\* Mutant of WriteLogEnd: the header is not written before the installation.
WriteLogEndNoHead(p) ==
  /\ kernel = "up" /\ pc[p] = "write_log" /\ tail[p] > Len(lh)
  /\ Goto(p, "install")
  /\ tail' = [tail EXCEPT ![p] = 1]
  /\ UNCHANGED <<onDisk, bufVars, logVars, syncing, written, kernel>>

WriteLogEnd(p) ==
  /\ kernel = "up" /\ pc[p] = "write_log" /\ tail[p] > Len(lh)
  /\ Goto(p, "write_head")
  /\ UNCHANGED <<onDisk, bufVars, logVars, syncing, written, tail, kernel>>

\* write_head(): one disk write; the commit point, and later the erasure.
WriteHead(p) ==
  /\ kernel \in {"up", "recover"} /\ pc[p] \in {"write_head", "erase_head"}
  /\ dhead' = lh
  /\ Goto(p, IF pc[p] = "write_head" THEN "install" ELSE "done")
  /\ tail' = [tail EXCEPT ![p] = 1]
  /\ UNCHANGED <<home, slot, bufVars, logVars, syncing, written, kernel>>

LogBlock(i) == IF i \in Slots THEN slot[i] ELSE View(InodeStart)

Install(p) ==
  LET i == tail[p] IN
  /\ kernel \in {"up", "recover"} /\ pc[p] = "install"
  /\ i \in 1..Len(lh)
  /\ BuffersFree(i, lh[i])
  /\ home' = [home EXCEPT ![lh[i]] = LogBlock(i)]
  /\ cache' = [cache EXCEPT ![lh[i]] = LogBlock(i)]
  /\ dirty' = dirty \ {lh[i]}
  /\ tail' = [tail EXCEPT ![p] = i + 1]
  /\ UNCHANGED <<slot, dhead, held, logVars, pc, syncing, written, kernel>>

InstallEnd(p) ==
  /\ kernel \in {"up", "recover"} /\ pc[p] = "install" /\ tail[p] > Len(lh)
  /\ Goto(p, "clear")
  /\ UNCHANGED <<onDisk, bufVars, logVars, syncing, written, tail, kernel>>

Clear(p) ==
  /\ kernel \in {"up", "recover"} /\ pc[p] = "clear"
  /\ lh' = <<>>
  /\ Goto(p, "erase_head")
  /\ UNCHANGED <<onDisk, bufVars, outstanding, committing, syncing, written, tail,
                 kernel>>

\* end_op() after commit(), under log.lock.
CommitDone(p) ==
  /\ kernel = "up" /\ pc[p] = "done" /\ p \notin syncing
  /\ committing' = FALSE
  /\ pc' = WakeAll(p, "idle")
  /\ UNCHANGED <<onDisk, bufVars, lh, outstanding, syncing, written, tail, kernel>>

-----------------------------------------------------------------------------
\* sync().  It returns -1 at once, changing nothing, when the log is Full.

SyncSleep(p) ==
  /\ kernel = "up" /\ pc[p] = "idle" /\ p \in Syncers
  /\ ~Full
  /\ committing \/ outstanding > 0
  /\ Goto(p, "sync_sleep")
  /\ UNCHANGED <<onDisk, bufVars, logVars, syncing, written, tail, kernel>>

\* After the sleep, "if" rather than "while": nothing is tested again.
SyncTake(p) ==
  /\ kernel = "up"
  /\ \/ pc[p] = "idle" /\ p \in Syncers /\ ~Full /\ ~committing /\ outstanding = 0
     \/ pc[p] = "sync"
  /\ committing' = TRUE
  /\ syncing' = syncing \cup {p}
  /\ Goto(p, "commit")
  /\ UNCHANGED <<onDisk, bufVars, lh, outstanding, written, tail, kernel>>

\* The loop goes round, and sleeps, when a call has begun in the meantime.
SyncDone(p) ==
  /\ kernel = "up" /\ pc[p] = "done" /\ p \in syncing
  /\ committing' = FALSE
  /\ pc' = WakeAll(p, IF outstanding > 0 THEN "sync_sleep" ELSE "idle")
  /\ syncing' = syncing \ {p}
  /\ UNCHANGED <<onDisk, bufVars, lh, outstanding, written, tail, kernel>>

-----------------------------------------------------------------------------
\* bget() recycles a buffer that is neither locked nor B_DIRTY.
Evict(b) ==
  /\ kernel = "up"
  /\ cache[b] # NoData /\ b \notin dirty /\ held[b] = NoProc
  /\ cache' = [cache EXCEPT ![b] = NoData]
  /\ UNCHANGED <<onDisk, dirty, held, logVars, procVars, kernel>>

\* Power is lost, or a halted machine is restarted: the disk is what remains.
Crash ==
  /\ kernel # "boot"
  /\ cache' = [b \in Blocks |-> NoData]
  /\ dirty' = {}
  /\ held' = [b \in Blocks |-> NoProc]
  /\ lh' = <<>> /\ outstanding' = 0 /\ committing' = FALSE
  /\ pc' = [p \in Procs |-> "idle"]
  /\ syncing' = {}
  /\ written' = [p \in Procs |-> {}]
  /\ tail' = [p \in Procs |-> 1]
  /\ kernel' = "boot"
  /\ UNCHANGED onDisk

\* Mutant of Recover: the log is cleared without being installed.
RecoverForgetful(p) ==
  /\ kernel = "boot"
  /\ kernel' = "recover"
  /\ lh' = dhead
  /\ Goto(p, "clear")
  /\ UNCHANGED <<onDisk, bufVars, outstanding, committing, syncing, written, tail>>

\* initlog(), called by the first process to run: read_head(), then the
\* install, clear and erase_head steps above.
Recover(p) ==
  /\ kernel = "boot"
  /\ kernel' = "recover"
  /\ lh' = dhead
  /\ Goto(p, "install")
  /\ tail' = [tail EXCEPT ![p] = 1]
  /\ UNCHANGED <<onDisk, bufVars, outstanding, committing, syncing, written>>

RecoverDone(p) ==
  /\ kernel = "recover" /\ pc[p] = "done"
  /\ kernel' = "up"
  /\ Goto(p, "idle")
  /\ UNCHANGED <<onDisk, bufVars, logVars, syncing, written, tail>>

-----------------------------------------------------------------------------
EndOp(p) == EndOpPanic(p) \/ EndOpCommit(p) \/ EndOpDefer(p) \/ EndOpOthers(p)

CommitStep(p) ==
  \/ CommitStart(p) \/ WriteLog(p) \/ WriteLogPastEnd(p) \/ WriteLogEnd(p)
  \/ WriteHead(p) \/ Install(p) \/ InstallEnd(p) \/ Clear(p)
  \/ CommitDone(p) \/ SyncDone(p) \/ RecoverDone(p)

LogWrite(p) ==
  \/ LogWriteCheck(p) \/ LogWritePanic(p)
  \/ \E b \in Blocks : LogWriteAppend(p, b) \/ LogWriteOverflow(p, b)

Step(p) ==
  \/ BeginOp(p) \/ BeginOpSleep(p)
  \/ \E b \in Blocks, v \in Data : Modify(p, b, v)
  \/ LogWrite(p) \/ EndOp(p)
  \/ SyncSleep(p) \/ SyncTake(p)
  \/ CommitStep(p)
  \/ Recover(p)

Next ==
  \/ \E p \in Procs : Step(p)
  \/ \E b \in Blocks : Evict(b)
  \/ Crash

Spec == Init /\ [][Next]_vars

\* A process inside commit() is runnable and takes its next step.
FairSpec == Spec /\ \A p \in Procs : WF_vars(CommitStep(p))
-----------------------------------------------------------------------------
\* Properties.

TypeOK ==
  /\ home \in [Blocks -> Data] /\ slot \in [Slots -> Data] /\ dhead \in Seq(Blocks)
  /\ cache \in [Blocks -> Data \cup {NoData}]
  /\ dirty \subseteq Blocks
  /\ held \in [Blocks -> Procs \cup {NoProc}]
  /\ lh \in Seq(Blocks) /\ outstanding \in Nat /\ committing \in BOOLEAN
  /\ pc \in [Procs -> States]
  /\ syncing \subseteq Procs
  /\ written \in [Procs -> SUBSET Blocks]
  /\ tail \in [Procs -> Nat]
  /\ kernel \in Booting \cup {"up"} \cup Halted

\* log.c:11-14: a commit runs only when no file system call is active, and at
\* most one process is in commit() at a time.
CommitAlone ==
  InCommit # {} => /\ InOp = {} /\ outstanding = 0
                   /\ \A p, q \in InCommit : p = q

\* log.outstanding counts the processes between begin_op() and end_op(), so
\* that log_write() never panics with "log_write outside of trans".
OutstandingCount ==
  kernel = "up" => outstanding = Cardinality(InOp)

\* Absorption: whatever calls write concurrently, no block takes two places
\* of the log.
AbsorbedOnce == \A i, j \in 1..Len(lh) : lh[i] = lh[j] => i = j

\* The test log_write() makes without the lock lets each process but one take
\* the log one block past its area: the blocks logged and those past the test
\* are never more.
OverrunBound ==
  Len(lh) + Cardinality({p \in Procs : pc[p] = "checked"})
    <= nlog - 2 + Cardinality(Procs)

\* log.c:174, file.c:127: begin_op() makes a call wait when it might exhaust the
\* log, so a call that keeps to MAXOPBLOCKS blocks never finds the log full.
NoTooBig == kernel # "too big a transaction"

\* A process asleep on &log has someone left to wake it.
NoLostWakeup ==
  (\E p \in Procs : pc[p] \in Sleeping) => committing \/ outstanding > 0

\* The image a reboot finds: home blocks, with the committed transaction over.
Recovered ==
  [b \in Blocks |->
     IF b \in Logged(dhead)
     THEN LogBlock(CHOOSE i \in 1..Len(dhead) : dhead[i] = b)
     ELSE home[b]]

\* The log implements a disk that changes atomically, at the commit point and
\* between file system calls only.
Promised ==
  INSTANCE AtomicDisk WITH
    stable <- Recovered,
    working <- IF kernel \in Booting THEN Recovered ELSE [b \in Blocks |-> View(b)],
    active <- InOp
AtomicCommit == Promised!Spec

\* When sync() returns a count, everything written before is durable.
SyncDurable ==
  [][\A p \in Procs : SyncDone(p) /\ pc'[p] = "idle" =>
        Recovered' = [b \in Blocks |-> View(b)']]_vars

\* Whoever sleeps in begin_op() is eventually awake again.
SleepersWoken ==
  \A p \in Procs : pc[p] = "begin_sleep" ~> pc[p] # "begin_sleep"
=============================================================================
