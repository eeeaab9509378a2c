-------------------------------- MODULE Procs ---------------------------------
(***************************************************************************)
(* Processes of assignment03/project03/xv6-public/proc.c: allocproc, fork, *)
(* exit, wait, kill, sleep, wakeup, yield and the scheduler, on several    *)
(* CPUs.                                                                   *)
(*                                                                         *)
(* One action is one section under ptable.lock, or what a process does     *)
(* between two of them.  `lk` stands for the lock of any driver that calls *)
(* sleep(&chan, &lk), and `ready` for the condition its sleepers test (the *)
(* bytes of a pipe, the state of a buffer): a process in "waitlk" is about *)
(* to acquire lk, one in "testing" holds it, one in "wakelk" has set ready *)
(* and still has to call wakeup().                                         *)
(***************************************************************************)
EXTENDS Integers, FiniteSets, FiniteSetsExt

CONSTANTS
  NPROC,       \* param.h: slots of ptable
  CPUs

ASSUME ProcsAssumption == NPROC \in Nat \ {0} /\ CPUs # {}

ProcSlots == 1..NPROC
initproc  == 1
NoOne     == 0
NoChan    == 0
Chan      == NPROC + 1    \* the driver's; that of wait() is the process itself

VARIABLES
  proc,        \* ptable.proc: state, parent, killed and what it sleeps on
  cpu,         \* c->proc of each CPU
  ppc,         \* where each process is
  np,          \* what allocproc() gave to a process in fork()
  lk,          \* who holds lk
  ready        \* the condition that lk protects

procsVars == <<proc, cpu, ppc, np, lk, ready>>

Unused == [state |-> "UNUSED", parent |-> NoOne, killed |-> FALSE, chan |-> NoChan]

ProcsInit ==
  /\ proc = [p \in ProcSlots |-> IF p = initproc THEN [Unused EXCEPT !.state = "RUNNABLE"] ELSE Unused]
  /\ cpu = [c \in CPUs |-> NoOne]
  /\ ppc = [p \in ProcSlots |-> "user"]
  /\ np = [p \in ProcSlots |-> NoOne]
  /\ lk = NoOne
  /\ ready = FALSE

On(p, pc) == proc[p].state = "RUNNING" /\ ppc[p] = pc
At(p, pc) == ppc' = [ppc EXCEPT ![p] = pc]
Kids(p) == {q \in ProcSlots : proc[q].parent = p}

\* Mutant of the next operator: c->proc still names p.
SchedKept(p) == UNCHANGED cpu

\* sched(): the CPU of p goes back to its scheduler.
Sched(p) == cpu' = [c \in CPUs |-> IF cpu[c] = p THEN NoOne ELSE cpu[c]]

\* wakeup1(chan) on a table t.
Wakeup1(t, chan) ==
  [p \in ProcSlots |-> IF t[p].state = "SLEEPING" /\ t[p].chan = chan
                       THEN [t[p] EXCEPT !.state = "RUNNABLE"] ELSE t[p]]

WaitChan(p) == p

-----------------------------------------------------------------------------
\* scheduler() and yield()

Run(c, p) ==
  /\ cpu[c] = NoOne /\ proc[p].state = "RUNNABLE"
  /\ cpu' = [cpu EXCEPT ![c] = p]
  /\ proc' = [proc EXCEPT ![p].state = "RUNNING", ![p].chan = NoChan]
  /\ UNCHANGED <<ppc, np, lk, ready>>

\* The timer, with interrupts on: not while a lock is held.
Yield(p) ==
  /\ On(p, "user") \/ On(p, "fork") \/ On(p, "waitlk")
  /\ proc' = [proc EXCEPT ![p].state = "RUNNABLE"]
  /\ Sched(p)
  /\ UNCHANGED <<ppc, np, lk, ready>>

-----------------------------------------------------------------------------
\* fork()

\* allocproc(); the child is not linked to its parent yet.
ForkAlloc(p) ==
  LET free == {q \in ProcSlots : proc[q].state = "UNUSED"} IN
  /\ On(p, "user") /\ ~proc[p].killed
  /\ free # {}
  /\ proc' = [proc EXCEPT ![Min(free)].state = "EMBRYO"]
  /\ np' = [np EXCEPT ![p] = Min(free)]
  /\ At(p, "fork")
  /\ UNCHANGED <<cpu, lk, ready>>

ForkDone(p) ==
  /\ On(p, "fork")
  /\ proc' = [proc EXCEPT ![np[p]].state = "RUNNABLE", ![np[p]].parent = p]
  /\ np' = [np EXCEPT ![p] = NoOne]
  /\ At(p, "user")
  /\ UNCHANGED <<cpu, lk, ready>>

\* No kernel stack or no memory for the copy: the slot is free again.
ForkFail(p) ==
  /\ On(p, "fork")
  /\ proc' = [proc EXCEPT ![np[p]].state = "UNUSED"]
  /\ np' = [np EXCEPT ![p] = NoOne]
  /\ At(p, "user")
  /\ UNCHANGED <<cpu, lk, ready>>

-----------------------------------------------------------------------------
\* exit() and wait()

\* Children go to init, which is told of the dead ones.
Orphans(p) ==
  LET given == [q \in ProcSlots |-> IF q \in Kids(p) THEN [proc[q] EXCEPT !.parent = initproc]
                                    ELSE proc[q]] IN
  IF \E q \in Kids(p) : proc[q].state = "ZOMBIE" THEN Wakeup1(given, WaitChan(initproc)) ELSE given

\* Mutant of the next operator: the parent of p is not woken.
ParentUntold(p) == Orphans(p)

\* wakeup1(curproc->parent)
ParentTold(p) == Wakeup1(Orphans(p), WaitChan(proc[p].parent))

\* From user code, or because it was killed; init does not exit.
ExitProc(p) ==
  /\ On(p, "user") /\ p # initproc
  /\ proc' = [ParentTold(p) EXCEPT ![p].state = "ZOMBIE"]
  /\ Sched(p)
  /\ UNCHANGED <<ppc, np, lk, ready>>

Reap(p, q) ==
  /\ proc' = [proc EXCEPT ![q] = Unused]
  /\ At(p, "user")
  /\ UNCHANGED cpu

\* wait(), from the system call or after its sleep.
WaitProc(p) ==
  LET dead == {q \in Kids(p) : proc[q].state = "ZOMBIE"} IN
  /\ On(p, "user") \/ On(p, "wait")
  /\ \/ dead # {} /\ Reap(p, Min(dead))
     \/ /\ dead = {} /\ (Kids(p) = {} \/ proc[p].killed)
        /\ ppc[p] = "wait" /\ At(p, "user") /\ UNCHANGED <<proc, cpu>>
     \/ /\ dead = {} /\ Kids(p) # {} /\ ~proc[p].killed
        /\ proc' = [proc EXCEPT ![p].state = "SLEEPING", ![p].chan = WaitChan(p)]
        /\ At(p, "wait")
        /\ Sched(p)
  /\ UNCHANGED <<np, lk, ready>>

-----------------------------------------------------------------------------
\* sleep() and wakeup() with a lock of their own

\* acquire(lk) of a process that will wait for ready; init only forks and waits.
AcquireLk(p) ==
  /\ (On(p, "user") /\ ~proc[p].killed /\ p # initproc) \/ On(p, "waitlk")
  /\ IF lk = NoOne THEN lk' = p /\ At(p, "testing") ELSE At(p, "waitlk") /\ UNCHANGED lk
  /\ UNCHANGED <<proc, cpu, np, ready>>

\* The condition holds, or the process was killed: release(lk) and go on.
Proceed(p) ==
  /\ On(p, "testing") /\ (ready \/ proc[p].killed)
  /\ ready' = FALSE
  /\ lk' = NoOne
  /\ At(p, "user")
  /\ UNCHANGED <<proc, cpu, np>>

\* A mutant of the next operator gives up lk before it holds ptable.lock.
SleepUnguarded(p) ==
  \/ /\ On(p, "testing") /\ ~ready /\ ~proc[p].killed
     /\ lk' = NoOne /\ At(p, "gosleep") /\ UNCHANGED <<proc, cpu, np, ready>>
  \/ /\ On(p, "gosleep")
     /\ proc' = [proc EXCEPT ![p].state = "SLEEPING", ![p].chan = Chan]
     /\ At(p, "waitlk") /\ Sched(p) /\ UNCHANGED <<np, lk, ready>>

\* sleep(chan, lk): SLEEPING before lk is free; acquire(lk) is what follows.
Sleep(p) ==
  /\ On(p, "testing") /\ ~ready /\ ~proc[p].killed
  /\ proc' = [proc EXCEPT ![p].state = "SLEEPING", ![p].chan = Chan]
  /\ lk' = NoOne
  /\ At(p, "waitlk")
  /\ Sched(p)
  /\ UNCHANGED <<np, ready>>

\* A producer: acquire(lk), then the condition, then wakeup(chan), release(lk).
Produce(p) ==
  /\ On(p, "user") /\ ~proc[p].killed /\ p # initproc
  /\ lk = NoOne /\ ~ready
  /\ lk' = p /\ ready' = TRUE
  /\ At(p, "wakelk")
  /\ UNCHANGED <<proc, cpu, np>>

WakeupLk(p) ==
  /\ On(p, "wakelk")
  /\ proc' = Wakeup1(proc, Chan)
  /\ lk' = NoOne
  /\ At(p, "user")
  /\ UNCHANGED <<cpu, np, ready>>

\* kill(), by any process that runs.  (On a zombie it changes nothing that is read.)
KillProc(p, q) ==
  /\ On(p, "user") /\ ~proc[p].killed
  /\ q # initproc /\ proc[q].state \notin {"UNUSED", "ZOMBIE"} /\ ~proc[q].killed
  /\ proc' = [proc EXCEPT ![q].killed = TRUE,
                          ![q].state = IF @ = "SLEEPING" THEN "RUNNABLE" ELSE @]
  /\ UNCHANGED <<cpu, ppc, np, lk, ready>>

-----------------------------------------------------------------------------
\* What a process in the kernel does next, without a choice of its own.
Proceeds(p) ==
  \/ ForkDone(p) \/ (ppc[p] = "wait" /\ WaitProc(p)) \/ (ppc[p] = "waitlk" /\ AcquireLk(p))
  \/ Proceed(p) \/ Sleep(p) \/ WakeupLk(p)
  \/ (proc[p].killed /\ ExitProc(p))

ProcsNext ==
  \/ \E c \in CPUs, p \in ProcSlots : Run(c, p)
  \/ \E p \in ProcSlots :
       \/ Yield(p) \/ ForkAlloc(p) \/ ForkDone(p) \/ ForkFail(p) \/ ExitProc(p) \/ WaitProc(p)
       \/ AcquireLk(p) \/ Proceed(p) \/ Sleep(p) \/ Produce(p) \/ WakeupLk(p)
       \/ \E q \in ProcSlots : KillProc(p, q)

ProcsSpec == ProcsInit /\ [][ProcsNext]_procsVars

\* init's own program: for(;;) wait().
InitWaits == ppc[initproc] = "user" /\ Kids(initproc) # {} /\ WaitProc(initproc)

-----------------------------------------------------------------------------
\* Types: the table, the CPUs, the lock and where each process is.
ProcsTypeOK ==
  /\ \A p \in ProcSlots :
       /\ proc[p].state \in {"UNUSED", "EMBRYO", "SLEEPING", "RUNNABLE", "RUNNING", "ZOMBIE"}
       /\ proc[p].parent \in ProcSlots \cup {NoOne}
       /\ proc[p].killed \in BOOLEAN
  /\ np \in [ProcSlots -> ProcSlots \cup {NoOne}]
  /\ cpu \in [CPUs -> ProcSlots \cup {NoOne}]
  /\ \A p \in ProcSlots : (proc[p].state = "RUNNING") <=> (\E c \in CPUs : cpu[c] = p)
  /\ lk \in ProcSlots \cup {NoOne}
  /\ ready \in BOOLEAN

\* No sleep without a cause, however fork, exit, wait, kill, sleep and wakeup of
\* several CPUs interleave: a process asleep in wait() has children, none of them
\* a zombie, and is not killed; one asleep on a driver's channel waits for a
\* condition that is false or whose producer has still to call wakeup().
NoSleepWithoutCause ==
  \A p \in ProcSlots : proc[p].state = "SLEEPING" =>
    \/ /\ proc[p].chan = WaitChan(p) /\ ~proc[p].killed
       /\ Kids(p) # {} /\ \A q \in Kids(p) : proc[q].state # "ZOMBIE"
    \/ proc[p].chan = Chan /\ (ready => \E q \in ProcSlots : ppc[q] = "wakelk")
===============================================================================
