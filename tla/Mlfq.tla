--------------------------------- MODULE Mlfq ---------------------------------
(***************************************************************************)
(* The multi-level feedback queue scheduler of                             *)
(* assignment01/project01/xv6-public: proc.c, mlfq.c and the timer path of *)
(* trap.c.                                                                 *)
(*                                                                         *)
(* scheduler() holds ptable.lock from the moment it looks for a process    *)
(* until that process runs, and again from the moment the process gives up *)
(* the CPU until it has been put back into a queue.  So one action starts  *)
(* a process, and one action (Yield, Sleep, Exit) ends its turn: the body  *)
(* of yield(), sleep() or exit(), the swtch(), and what scheduler() does   *)
(* after it.  The calls that run without ptable.lock (schedulerLock,       *)
(* schedulerUnlock, allocproc's enQueue) are single actions here: races    *)
(* between their single assignments are not modelled.                      *)
(***************************************************************************)
EXTENDS Integers, Sequences, FiniteSets

CONSTANTS
  Procs,         \* the slots of ptable.proc
  InitProc,      \* the slot of initproc, which never exits
  Started,       \* initproc, and the processes it has forked at the start
  CPUs,
  NoProc,
  Calls,         \* the system calls the processes make
  Priorities,    \* the priorities they ask for
  QUEUE_MAX_SIZE,\* param.h: NPROC + 1
  Quantum,       \* ticks a process may use at levels 0, 1 and 2 (4, 6 and 8)
  BOOST,         \* gTicks at which priorities are boosted (100)
  TopPriority    \* the priority a process starts with (3)

ASSUME ProcsAssumption ==
  InitProc \in Started /\ Started \subseteq Procs /\ NoProc \notin Procs
ASSUME NumbersAssumption ==
  /\ QUEUE_MAX_SIZE \in Nat /\ BOOST \in Nat /\ TopPriority \in Nat
  /\ Quantum \in [0..2 -> Nat] /\ Priorities \subseteq Int

VARIABLES
  proc,          \* ptable.proc: the scheduling fields of struct proc
  mlfq,          \* the ticks and the three queues; L2 is a heap, root first
  lockedProc,    \* ptable.lockedProc
  running,       \* the process each CPU runs, c->proc
  from           \* the branch of scheduler() it was started from

vars == <<proc, mlfq, lockedProc, running, from>>

LockBranch == 3
ProcStates == {"UNUSED", "EMBRYO", "SLEEPING", "RUNNABLE", "RUNNING", "ZOMBIE"}

Members(q) == {q[i] : i \in 1..Len(q)}

NewProc(s) ==
  [state |-> s, qLevel |-> 0, priority |-> TopPriority, runTime |-> 0, l2Time |-> 0,
   isSchedLocked |-> FALSE, killed |-> FALSE]

\* userinit() puts initproc into L0, and each fork() its child after it.
Init ==
  /\ proc = [p \in Procs |-> NewProc(IF p \in Started THEN "RUNNABLE" ELSE "UNUSED")]
  /\ \E q \in [1..Cardinality(Started) -> Started] :
       /\ q[1] = InitProc /\ Members(q) = Started
       /\ mlfq = [gTicks |-> 0, L0 |-> q, L1 |-> <<>>, L2 |-> <<>>]
  /\ lockedProc = NoProc
  /\ running = [c \in CPUs |-> NoProc]
  /\ from = [c \in CPUs |-> 0]

-----------------------------------------------------------------------------
\* mlfq.c: the ring buffers.

\* With one slot kept free, a ring holds QUEUE_MAX_SIZE - 1 entries.  enQueue()
\* only prints when it is full: rear meets front, and the ring reads as empty.
EnQueue(q, p) == IF Len(q) = QUEUE_MAX_SIZE - 1 THEN <<>> ELSE Append(q, p)

\* queue_isThereRunnable() turns the ring once round, so it is left as it was.
ThereIsRunnable(q) == \E i \in 1..Len(q) : proc[q[i]].state = "RUNNABLE"

-----------------------------------------------------------------------------
\* mlfq.c: the heap.  P is the process table the priorities are read from.

Swap(h, i, j) == [h EXCEPT ![i] = h[j], ![j] = h[i]]

\* The loop of pq_enQueue(): one swap with the parent, or none, at each level.
SiftUp(h, P) ==
  LET before(a, b) == \/ P[a].priority < P[b].priority
                      \/ P[a].priority = P[b].priority /\ P[a].l2Time < P[b].l2Time
      up[g \in Seq(Procs), i \in Nat] ==
        IF i <= 1 THEN g
        ELSE up[IF before(g[i], g[i \div 2]) THEN Swap(g, i, i \div 2) ELSE g, i \div 2]
  IN up[h, Len(h)]

\* pq_enQueue(): only a RUNNABLE process moves up.
PqEnQueue(h, p, P) ==
  IF Len(h) = QUEUE_MAX_SIZE THEN h
  ELSE IF P[p].state = "RUNNABLE" THEN SiftUp(Append(h, p), P) ELSE Append(h, p)

\* pq_min_heapify(): priorities alone are compared.
SiftDown(h, P) ==
  LET less(g, i, j) == i <= Len(g) /\ P[g[i]].priority < P[g[j]].priority
      least(g, i) == LET l == IF less(g, 2*i, i) THEN 2*i ELSE i
                     IN IF less(g, 2*i + 1, l) THEN 2*i + 1 ELSE l
      down[g \in Seq(Procs), i \in Nat] ==
        IF least(g, i) = i THEN g ELSE down[Swap(g, i, least(g, i)), least(g, i)]
  IN IF h = <<>> THEN h ELSE down[h, 1]

\* pq_deQueue(), without the process it returns: the last one takes the root.
PqRest(h, P) ==
  IF Len(h) = 1 THEN <<>>
  ELSE SiftDown([i \in 1..(Len(h) - 1) |-> IF i = 1 THEN h[Len(h)] ELSE h[i]], P)

-----------------------------------------------------------------------------
\* yield(): priorityBoosting() and the time quanta.

Renewed(r) == [r EXCEPT !.qLevel = 0, !.priority = TopPriority, !.runTime = 0,
                        !.l2Time = 0]
RenewAll(P, S) == [p \in Procs |-> IF p \in S THEN Renewed(P[p]) ELSE P[p]]

\* queue_moveAllProcAtoB()
MoveAll(q, into) ==
  LET move[k \in 0..Len(q)] == IF k = 0 THEN into ELSE EnQueue(move[k-1], q[k])
  IN move[Len(q)]

\* pq_moveAllProcAtoQueueB(): everyone but p, in the order the heap gives while
\* the priorities change.  The queues only: the table is RenewAll's.
PqMoveAll(m, P, p) ==
  LET move[k \in 0..Len(m.L2)] ==
        IF k = 0 THEN [mlfq |-> m, proc |-> P]
        ELSE LET s == move[k-1]
                 q == s.mlfq.L2[1]
                 rest == [s.mlfq EXCEPT !.L2 = PqRest(@, s.proc)]
             IN IF q = p THEN [s EXCEPT !.mlfq = rest]
                ELSE [mlfq |-> [rest EXCEPT !.L0 = EnQueue(@, q)],
                      proc |-> RenewAll(s.proc, {q})]
  IN move[Len(m.L2)].mlfq

\* What schedulerUnlock() does with the right password: s is the table, the
\* queues and lockedProc, p the process that calls it.
Unlocked(s, p) ==
  LET q == IF s.lockedProc # NoProc THEN s.lockedProc ELSE p IN
  IF ~s.proc[q].isSchedLocked THEN s
  ELSE [proc |-> [s.proc EXCEPT ![q].runTime = 0, ![q].priority = TopPriority,
                                ![q].isSchedLocked = FALSE],
        mlfq |-> [s.mlfq EXCEPT !.L0 = EnQueue(@, q)],
        lockedProc |-> NoProc]

\* Mutant: the ticks go on.
BoostedLate(s, p) ==
  [s EXCEPT !.proc = RenewAll(@, Procs), !.mlfq.L0 = MoveAll(s.mlfq.L1, EnQueue(@, p)),
            !.mlfq.L1 = <<>>]

\* Mutant: the boost leaves the lock alone.
BoostedLocked(s, p) ==
  [s EXCEPT !.proc = RenewAll(@, Procs), !.mlfq = PqMoveAll([@ EXCEPT !.gTicks = 0], s.proc, p)]

\* priorityBoosting(), called by p: L0 is turned once round, the others emptied.
Boosted(s, p) ==
  LET u  == IF s.proc[p].isSchedLocked THEN Unlocked(s, p) ELSE s
      l0 == EnQueue(u.mlfq.L0, p)
      P  == RenewAll(u.proc, {p} \cup Members(l0) \cup Members(u.mlfq.L1))
      m  == [u.mlfq EXCEPT !.gTicks = 0, !.L0 = MoveAll(u.mlfq.L1, l0), !.L1 = <<>>]
  IN [proc |-> RenewAll(P, Members(m.L2)), mlfq |-> PqMoveAll(m, P, p),
      lockedProc |-> u.lockedProc]

Pushed(m, l, p, P) ==
  CASE l = 0 -> [m EXCEPT !.L0 = EnQueue(@, p)]
    [] l = 1 -> [m EXCEPT !.L1 = EnQueue(@, p)]
    [] l = 2 -> [m EXCEPT !.L2 = PqEnQueue(@, p, P)]

\* One tick of a quantum; at its end the process goes down a level or loses
\* priority.
Ticked(r, now) ==
  CASE r.runTime < Quantum[r.qLevel] -> [r EXCEPT !.runTime = @ + 1]
    [] r.runTime >= Quantum[r.qLevel] /\ r.qLevel = 0 ->
         [r EXCEPT !.qLevel = 1, !.runTime = 0]
    [] r.runTime >= Quantum[r.qLevel] /\ r.qLevel = 1 ->
         [r EXCEPT !.qLevel = 2, !.runTime = 0, !.l2Time = now]
    [] OTHER -> [r EXCEPT !.runTime = 0, !.priority = IF @ > 0 THEN @ - 1 ELSE @]

\* yield() charges p unless it holds the scheduler; a new level is a new queue.
Charged(s, p) ==
  LET r == s.proc[p]
      P == [s.proc EXCEPT ![p] = Ticked(r, s.mlfq.gTicks)]
  IN
  IF r.isSchedLocked THEN s
  ELSE [proc |-> P, lockedProc |-> s.lockedProc,
        mlfq |-> IF P[p].qLevel = r.qLevel THEN s.mlfq
                 ELSE Pushed(s.mlfq, P[p].qLevel, p, P)]

-----------------------------------------------------------------------------
\* scheduler()

System == [proc |-> proc, mlfq |-> mlfq, lockedProc |-> lockedProc]

Become(s) == proc' = s.proc /\ mlfq' = s.mlfq /\ lockedProc' = s.lockedProc

\* Mutant: a process that sleeps is not put back.
PutBackRunnable(s, p, l) ==
  IF l = LockBranch THEN s
  ELSE IF s.proc[p].isSchedLocked THEN [s EXCEPT !.lockedProc = p]
  ELSE IF s.proc[p].qLevel = l /\ s.proc[p].state = "RUNNABLE"
       THEN [s EXCEPT !.mlfq = Pushed(@, l, p, s.proc)]
  ELSE s

\* After the turn of p, started from branch l: p holds the scheduler from now
\* on, or goes back to the queue it came from unless it has changed level.
PutBack(s, p, l) ==
  IF l = LockBranch THEN s
  ELSE IF s.proc[p].isSchedLocked THEN [s EXCEPT !.lockedProc = p]
  ELSE IF s.proc[p].qLevel = l /\ s.proc[p].state # "ZOMBIE"
       THEN [s EXCEPT !.mlfq = Pushed(@, l, p, s.proc)]
  ELSE s

Start(c, p, l) ==
  /\ proc' = [proc EXCEPT ![p].state = "RUNNING"]
  /\ running' = [running EXCEPT ![c] = p]
  /\ from' = [from EXCEPT ![c] = l]
  /\ UNCHANGED lockedProc

\* The process taken from level l, m being the queues without it: it runs, or
\* goes straight back when it is not RUNNABLE.
Take(c, p, l, m) ==
  \/ /\ proc[p].state = "RUNNABLE"
     /\ Start(c, p, l)
     /\ mlfq' = m
  \/ /\ proc[p].state # "RUNNABLE"
     /\ Become(PutBack([System EXCEPT !.mlfq = m], p, l))
     /\ UNCHANGED <<running, from>>

Free(c) == running[c] = NoProc

RunLocked(c) ==
  /\ Free(c) /\ lockedProc # NoProc
  /\ proc[lockedProc].state = "RUNNABLE"
  /\ Start(c, lockedProc, LockBranch)
  /\ UNCHANGED mlfq

UnlockZombie(c) ==
  /\ Free(c) /\ lockedProc # NoProc
  /\ proc[lockedProc].state = "ZOMBIE"
  /\ Become(Unlocked(System, lockedProc))
  /\ UNCHANGED <<running, from>>

RunL0(c) ==
  /\ Free(c) /\ lockedProc = NoProc
  /\ ThereIsRunnable(mlfq.L0)
  /\ \E p \in Procs : p = mlfq.L0[1] /\ Take(c, p, 0, [mlfq EXCEPT !.L0 = Tail(@)])

RunL1(c) ==
  /\ Free(c) /\ lockedProc = NoProc
  /\ ~ThereIsRunnable(mlfq.L0) /\ ThereIsRunnable(mlfq.L1)
  /\ \E p \in Procs : p = mlfq.L1[1] /\ Take(c, p, 1, [mlfq EXCEPT !.L1 = Tail(@)])

RunL2(c) ==
  /\ Free(c) /\ lockedProc = NoProc
  /\ ~ThereIsRunnable(mlfq.L0) /\ ~ThereIsRunnable(mlfq.L1)
  /\ mlfq.L2 # <<>>
  /\ \E p \in Procs :
       p = mlfq.L2[1] /\ Take(c, p, 2, [mlfq EXCEPT !.L2 = PqRest(@, proc)])

Schedule(c) == RunLocked(c) \/ UnlockZombie(c) \/ RunL0(c) \/ RunL1(c) \/ RunL2(c)

-----------------------------------------------------------------------------
\* The process a CPU runs gives it up.

EndTurn(c, s, state) ==
  LET p == running[c] IN
  /\ Become(PutBack([s EXCEPT !.proc[p].state = state], p, from[c]))
  /\ running' = [running EXCEPT ![c] = NoProc]
  /\ from' = [from EXCEPT ![c] = 0]

\* yield(), from the timer interrupt or from the system call.
Yield(c) ==
  /\ running[c] # NoProc
  /\ \/ /\ mlfq.gTicks = BOOST
        /\ \E s \in {Boosted(System, running[c])} :
             EndTurn(c, [s EXCEPT !.mlfq.gTicks = @ + 1], "RUNNABLE")
     \/ /\ mlfq.gTicks # BOOST
        /\ \E s \in {[System EXCEPT !.mlfq.gTicks = @ + 1]} :
             EndTurn(c, Charged(s, running[c]), "RUNNABLE")

Sleep(c) ==
  /\ "sleep" \in Calls /\ running[c] # NoProc
  /\ EndTurn(c, System, "SLEEPING")

\* exit(); a killed process exits as well, when it leaves the kernel.
Exit(c) ==
  /\ running[c] \notin {NoProc, InitProc}
  /\ "exit" \in Calls \/ proc[running[c]].killed
  /\ EndTurn(c, System, "ZOMBIE")

-----------------------------------------------------------------------------
\* The other system calls.

\* allocproc(): any free slot stands for the first one.  A failing kalloc() would
\* leave the slot free, and in no queue.
Fork(c, p) ==
  /\ "fork" \in Calls /\ running[c] # NoProc
  /\ proc[p].state = "UNUSED"
  /\ proc' = [proc EXCEPT ![p] = [NewProc("EMBRYO") EXCEPT !.killed = proc[p].killed]]
  /\ mlfq' = [mlfq EXCEPT !.L0 = EnQueue(@, p)]
  /\ UNCHANGED <<lockedProc, running, from>>

\* The rest of fork(), which fails when it runs out of memory; the queue entry
\* stays in both cases.
ForkEnd(p, state) ==
  /\ proc[p].state = "EMBRYO" /\ state \in {"RUNNABLE", "UNUSED"}
  /\ proc' = [proc EXCEPT ![p].state = state]
  /\ UNCHANGED <<mlfq, lockedProc, running, from>>

\* wait() finds a zombie; whoever runs may be its parent.
Reap(c, p) ==
  /\ running[c] # NoProc /\ proc[p].state = "ZOMBIE"
  /\ proc' = [proc EXCEPT ![p].state = "UNUSED", ![p].killed = FALSE]
  /\ UNCHANGED <<mlfq, lockedProc, running, from>>

\* Mutant: the state is not looked at.
WakeupAny(p) ==
  /\ proc[p].state \in {"SLEEPING", "RUNNING"}
  /\ proc' = [proc EXCEPT ![p].state = "RUNNABLE"]
  /\ UNCHANGED <<mlfq, lockedProc, running, from>>

\* wakeup1(), by an interrupt or by another process.
Wakeup(p) ==
  /\ proc[p].state = "SLEEPING"
  /\ proc' = [proc EXCEPT ![p].state = "RUNNABLE"]
  /\ UNCHANGED <<mlfq, lockedProc, running, from>>

Killed(r) ==
  [r EXCEPT !.killed = TRUE, !.state = IF @ = "SLEEPING" THEN "RUNNABLE" ELSE @]

\* kill(); free slots have pid 0, and can be named too.  Initproc, which would
\* have to exit, is neither killed nor locks the scheduler.
Kill(c, p) ==
  /\ "kill" \in Calls /\ running[c] # NoProc
  /\ p # InitProc
  /\ proc' = [proc EXCEPT ![p] = Killed(@)]
  /\ UNCHANGED <<mlfq, lockedProc, running, from>>

SetPriority(c, p, n) ==
  /\ "setPriority" \in Calls /\ running[c] # NoProc
  /\ proc[p].state # "UNUSED" /\ n \in Priorities
  /\ proc' = [proc EXCEPT ![p].priority = n]
  /\ UNCHANGED <<mlfq, lockedProc, running, from>>

SchedulerLock(c) ==
  LET p == running[c] IN
  /\ "lock" \in Calls /\ p \notin {NoProc, InitProc}
  /\ ~proc[p].isSchedLocked
  /\ proc' = [proc EXCEPT ![p].isSchedLocked = TRUE]
  /\ mlfq' = [mlfq EXCEPT !.gTicks = 0]
  /\ lockedProc' = p
  /\ UNCHANGED <<running, from>>

SchedulerUnlock(c) ==
  /\ "lock" \in Calls /\ running[c] # NoProc
  /\ Become(Unlocked(System, running[c]))
  /\ UNCHANGED <<running, from>>

\* The wrong password: schedulerLock() punishes its caller, schedulerUnlock()
\* the process that holds the scheduler.
WrongPassword(c, p) ==
  /\ "wrong" \in Calls /\ running[c] # NoProc
  /\ p \in ({running[c], lockedProc} \ {NoProc, InitProc})
  /\ proc' = [proc EXCEPT ![p] = Killed([@ EXCEPT !.isSchedLocked = FALSE])]
  /\ UNCHANGED <<mlfq, lockedProc, running, from>>

-----------------------------------------------------------------------------
Syscall(c) ==
  \/ \E p \in Procs : Fork(c, p) \/ Reap(c, p) \/ Kill(c, p) \/ WrongPassword(c, p)
  \/ \E p \in Procs, n \in Priorities : SetPriority(c, p, n)
  \/ SchedulerLock(c) \/ SchedulerUnlock(c)

Next ==
  \/ \E c \in CPUs : Schedule(c) \/ Yield(c) \/ Sleep(c) \/ Exit(c) \/ Syscall(c)
  \/ \E p \in Procs : Wakeup(p)
  \/ \E p \in Procs, s \in {"RUNNABLE", "UNUSED"} : ForkEnd(p, s)

Spec == Init /\ [][Next]_vars

\* Every CPU runs scheduler() for ever, and timer interrupts end every turn:
\* []<>Free(c) is weak fairness of Yield(c), which is enabled while c is not free
\* and frees it.
FairSpec ==
  /\ Spec
  /\ \A c \in CPUs : WF_vars(Schedule(c)) /\ []<>Free(c)
-----------------------------------------------------------------------------
\* Properties.

TypeOK ==
  /\ proc \in [Procs -> [state : ProcStates, qLevel : 0..2, priority : Int,
                         runTime : Nat, l2Time : 0..BOOST, isSchedLocked : BOOLEAN,
                         killed : BOOLEAN]]
  /\ mlfq.gTicks \in 0..BOOST
  /\ \A q \in {mlfq.L0, mlfq.L1, mlfq.L2} : q \in Seq(Procs)
  /\ lockedProc \in Procs \cup {NoProc}
  /\ running \in [CPUs -> Procs \cup {NoProc}]
  /\ from \in [CPUs -> 0..LockBranch]

\* A process is RUNNING exactly when one CPU runs it, and two never do, although
\* the queues may hold it several times.
OneCpu ==
  /\ \A c, d \in CPUs : running[c] = running[d] /\ running[c] # NoProc => c = d
  /\ \A p \in Procs : proc[p].state = "RUNNING" <=> \E c \in CPUs : running[c] = p

Queue(l) == CASE l = 0 -> mlfq.L0 [] l = 1 -> mlfq.L1 [] l = 2 -> mlfq.L2

\* p will be looked at again: it holds the scheduler, it is in the queue of its
\* level, or it will be put back there after its turn.
Kept(p) ==
  \/ proc[p].state \in {"UNUSED", "ZOMBIE"}
  \/ proc[p].isSchedLocked \/ lockedProc = p
  \/ p \in Members(Queue(proc[p].qLevel))
  \/ \E c \in CPUs : running[c] = p /\ from[c] = proc[p].qLevel

Entries == Len(mlfq.L0) + Len(mlfq.L1) + Len(mlfq.L2)

\* A process that does not hold the scheduler is lost to it only when a ring
\* wraps over its own front and drops everything it held (one step adds at most
\* three entries while it drops a ring of them).
LostOnlyByWrap ==
  [][\A p \in Procs : Kept(p) /\ ~Kept(p)' =>
        proc[p].isSchedLocked \/ lockedProc = p
        \/ Entries - Entries' >= QUEUE_MAX_SIZE - 3]_vars

\* README.md:32: boosting brings every process back to L0.
BoostAll ==
  [][\A c \in CPUs : Yield(c) /\ mlfq.gTicks = BOOST =>
        \A p \in Procs : proc'[p].state \notin {"UNUSED", "ZOMBIE"} =>
          proc'[p].qLevel = 0]_vars

\* proc.c:372-374 and 555-557, on one CPU: a lock is not held for ever, because
\* the boost at the latest or the death of its holder releases it.
LockReleased == \A p \in Procs : lockedProc = p ~> lockedProc # p

\* README.md:84: after schedulerUnlock() scheduling goes on as before, so that
\* scheduler() can find each process that is able to run.  (As long as no ring
\* can have wrapped: a boost brings all entries into L0 and a step adds two.)
FoundAfterUnlock ==
  [](Entries + 2 < QUEUE_MAX_SIZE) =>
    [](\A p \in Procs : proc[p].state = "RUNNABLE" =>
         lockedProc = p \/ \E l \in 0..2 : p \in Members(Queue(l)))
===============================================================================
