------------------------------- MODULE SpinLocks ------------------------------
(***************************************************************************)
(* Spin locks and interrupts, assignment03/project03/xv6-public: acquire,  *)
(* release, pushcli, popcli (spinlock.c), the kernel threads that hand     *)
(* ptable.lock to each other in sched() and scheduler() (proc.c), the      *)
(* timer interrupt (trap.c) and sleep(n) with tickslock (sysproc.c).       *)
(*                                                                         *)
(* A kernel thread is the scheduler of a CPU or a process.  Its stack has  *)
(* one program point for what it does and one on top for each interrupt    *)
(* that stopped it.  pushcli() in acquire() is one action and the xchg     *)
(* another; with interrupts off, release() is one.  Memory is sequentially *)
(* consistent, as __sync_synchronize() makes it.  Nobody exits or is       *)
(* killed here; Procs has that.                                            *)
(***************************************************************************)
EXTENDS Integers, Sequences, FiniteSets

CONSTANTS
  Cores,       \* the CPUs
  Core0,       \* the one with cpuid() 0, which counts the ticks
  Tasks,       \* processes
  SleepTimes,  \* what sleep() is called with
  MaxTicks,    \* bound on ticks
  Free         \* the lock is not held

ASSUME SpinAssumption ==
  /\ Core0 \in Cores /\ Cores \cap Tasks = {} /\ Free \notin Cores
  /\ SleepTimes \subseteq Nat /\ MaxTicks \in Nat

KThreads == Cores \cup Tasks      \* a CPU stands for its scheduler

VARIABLES
  intr,        \* FL_IF of each CPU
  ncli,        \* depth of pushcli() nesting of each CPU
  intena,      \* were interrupts on before pushcli()?
  lockCpu,     \* the CPU that holds each lock, or Free
  runs,        \* the kernel thread on each CPU; c->proc when it is a process
  taskState,   \* p->state
  kstack,      \* program points of each kernel thread, the innermost last
  spins,       \* threads in acquire(), past pushcli()
  savedIntena, \* sched()'s local, of each process
  ticks, ticks0, howLong    \* of sys_sleep()

cpuVars   == <<intr, ncli, intena>>
sleepVars == <<ticks, ticks0, howLong>>
spinVars  == <<cpuVars, lockCpu, runs, taskState, kstack, spins, savedIntena, sleepVars>>

\* The calls of acquire(): the lock, and the point after it.
LockAt ==
  [schedule |-> "ptable", sleepCall |-> "tickslock", sleepAgain |-> "tickslock", toSleep |-> "ptable",
   tick |-> "tickslock", tickWakeup |-> "ptable", yield |-> "ptable"]
AfterLock ==
  [schedule |-> "scan", sleepCall |-> "begun", sleepAgain |-> "slept", toSleep |-> "asleep",
   tick |-> "count", tickWakeup |-> "wake", yield |-> "giveUp"]

Locks == {"ptable", "tickslock"}

\* Points of trap(), where interrupts stay off until iret.
InTrap == {"irq", "tick", "count", "tickWakeup", "wake", "counted", "resched", "yield", "giveUp", "yielded"}
\* The way of a new process to user mode, with whatever the scheduler left in intena.
InForkret == {"forkret", "trapret"}

Points ==
  {"loop", "schedule", "scan", "user", "sleepCall", "begun", "slept", "toSleep", "asleep", "woken", "sleepAgain",
   "sysret"} \cup InTrap \cup InForkret

Top(t)      == kstack[t][Len(kstack[t])]
Goto(t, pt) == kstack' = [kstack EXCEPT ![t][Len(kstack[t])] = pt]
At(c, pt)   == Top(runs[c]) = pt

SpinInit ==
  /\ intr = [c \in Cores |-> FALSE] /\ ncli = [c \in Cores |-> 0] /\ intena = [c \in Cores |-> FALSE]
  /\ lockCpu = [l \in Locks |-> Free]
  /\ runs = [c \in Cores |-> c]
  /\ taskState = [p \in Tasks |-> "RUNNABLE"]
  /\ kstack = [t \in KThreads |-> IF t \in Cores THEN <<"loop">> ELSE <<"forkret">>]
  /\ spins = {}
  /\ savedIntena = [p \in Tasks |-> FALSE]
  /\ ticks = 0 /\ ticks0 = [p \in Tasks |-> 0] /\ howLong = [p \in Tasks |-> 0]

-----------------------------------------------------------------------------
\* spinlock.c

\* Mutant of PushCli: the lock is taken with interrupts on.
PushCliLate(c) ==
  /\ ncli' = [ncli EXCEPT ![c] = @ + 1]
  /\ intena' = IF ncli[c] = 0 THEN [intena EXCEPT ![c] = intr[c]] ELSE intena
  /\ UNCHANGED intr

PushCli(c) ==
  /\ intr' = [intr EXCEPT ![c] = FALSE]
  /\ ncli' = [ncli EXCEPT ![c] = @ + 1]
  /\ intena' = IF ncli[c] = 0 THEN [intena EXCEPT ![c] = intr[c]] ELSE intena

PopCli(c, ena) ==
  /\ ncli' = [ncli EXCEPT ![c] = @ - 1]
  /\ intr' = [intr EXCEPT ![c] = @ \/ (ncli[c] = 1 /\ ena[c])]
  /\ intena' = ena

\* acquire(), up to its loop; with the lock held by this CPU it panics.
Acquire(c) ==
  LET t == runs[c] IN
  /\ Top(t) \in DOMAIN LockAt /\ t \notin spins
  /\ PushCli(c)
  /\ spins' = spins \cup {t}
  /\ UNCHANGED <<lockCpu, runs, taskState, kstack, savedIntena, sleepVars>>

\* CPU c is in the loop of acquire().
InLoop(c) == runs[c] \in spins /\ Top(runs[c]) \in DOMAIN LockAt

\* The xchg that finds the lock free.
Xchg(c) ==
  LET t == runs[c] IN
  /\ InLoop(c) /\ lockCpu[LockAt[Top(t)]] = Free
  /\ lockCpu' = [lockCpu EXCEPT ![LockAt[Top(t)]] = c]
  /\ spins' = spins \ {t}
  /\ Goto(t, AfterLock[Top(t)])
  /\ UNCHANGED <<cpuVars, runs, taskState, savedIntena, sleepVars>>

\* release(), with the value intena has when it is called.
ReleaseWith(c, l, ena) == lockCpu' = [lockCpu EXCEPT ![l] = Free] /\ PopCli(c, ena)
Release(c, l) == ReleaseWith(c, l, intena)

-----------------------------------------------------------------------------
\* scheduler() and sched().  Which process a pass takes next is left open.

\* sti() at the head of the scheduler's loop.
SchedulerLoop(c) ==
  /\ At(c, "loop")
  /\ intr' = [intr EXCEPT ![c] = TRUE]
  /\ Goto(runs[c], "schedule")
  /\ UNCHANGED <<ncli, intena, lockCpu, runs, taskState, spins, savedIntena, sleepVars>>

Switch(c, p) ==
  /\ At(c, "scan") /\ taskState[p] = "RUNNABLE"
  /\ runs' = [runs EXCEPT ![c] = p]
  /\ taskState' = [taskState EXCEPT ![p] = "RUNNING"]
  /\ UNCHANGED <<cpuVars, lockCpu, kstack, spins, savedIntena, sleepVars>>

EndOfPass(c) ==
  /\ At(c, "scan")
  /\ Release(c, "ptable")
  /\ Goto(runs[c], "loop")
  /\ UNCHANGED <<runs, taskState, spins, savedIntena, sleepVars>>

\* sched(): intena belongs to the thread, and goes with it to its next CPU.
Sched(c, p, state, back) ==
  /\ taskState' = [taskState EXCEPT ![p] = state]
  /\ savedIntena' = [savedIntena EXCEPT ![p] = intena[c]]
  /\ runs' = [runs EXCEPT ![c] = c]
  /\ Goto(p, back)

\* Mutant of Restored: sched() returns with the intena of the CPU it is on.
NotRestored(c, p) == intena

Restored(c, p) == [intena EXCEPT ![c] = savedIntena[p]]

\* After sched(): release(&ptable.lock), and on to the next point.
Resume(c, from, next) ==
  /\ At(c, from)
  /\ ReleaseWith(c, "ptable", Restored(c, runs[c]))
  /\ Goto(runs[c], next)
  /\ UNCHANGED <<runs, taskState, spins, savedIntena, sleepVars>>

Forkret(c) ==
  /\ At(c, "forkret")
  /\ Release(c, "ptable")
  /\ Goto(runs[c], "trapret")
  /\ UNCHANGED <<runs, taskState, spins, savedIntena, sleepVars>>

\* trapret: iret to user mode, where interrupts are on.
Trapret(c) ==
  /\ At(c, "trapret")
  /\ intr' = [intr EXCEPT ![c] = TRUE]
  /\ Goto(runs[c], "user")
  /\ UNCHANGED <<ncli, intena, lockCpu, runs, taskState, spins, savedIntena, sleepVars>>

-----------------------------------------------------------------------------
\* sys_sleep(n): its trap gate leaves interrupts on.

SysSleep(c, n) ==
  LET p == runs[c] IN
  /\ At(c, "user")
  /\ howLong' = [howLong EXCEPT ![p] = n]
  /\ Goto(p, "sleepCall")
  /\ UNCHANGED <<cpuVars, lockCpu, runs, taskState, spins, savedIntena, ticks, ticks0>>

\* With tickslock.
Begin(c) ==
  LET p == runs[c] IN
  /\ At(c, "begun")
  /\ ticks0' = [ticks0 EXCEPT ![p] = ticks]
  /\ Goto(p, "slept")
  /\ UNCHANGED <<cpuVars, lockCpu, runs, taskState, spins, savedIntena, ticks, howLong>>

Left(p) == howLong[p] - (ticks - ticks0[p])

\* Mutant of TimeNotUp: <= for <.
TimeNotUpOneMore(c) ==
  /\ At(c, "slept") /\ Left(runs[c]) >= 0
  /\ Goto(runs[c], "toSleep")
  /\ UNCHANGED <<cpuVars, lockCpu, runs, taskState, spins, savedIntena, sleepVars>>

TimeNotUp(c) ==
  /\ At(c, "slept") /\ Left(runs[c]) > 0
  /\ Goto(runs[c], "toSleep")
  /\ UNCHANGED <<cpuVars, lockCpu, runs, taskState, spins, savedIntena, sleepVars>>

TimeUp(c) ==
  /\ At(c, "slept") /\ Left(runs[c]) <= 0
  /\ Release(c, "tickslock")
  /\ Goto(runs[c], "sysret")
  /\ UNCHANGED <<runs, taskState, spins, savedIntena, sleepVars>>

\* sleep(&ticks, &tickslock), with ptable.lock: tickslock goes, then the CPU.
Sleep(c) ==
  LET p == runs[c] IN
  /\ At(c, "asleep")
  /\ Release(c, "tickslock")
  /\ Sched(c, p, "SLEEPING", "woken")
  /\ UNCHANGED <<spins, sleepVars>>

Woken(c) == Resume(c, "woken", "sleepAgain")

SysReturn(c) ==
  /\ At(c, "sysret")
  /\ Goto(runs[c], "user")
  /\ UNCHANGED <<cpuVars, lockCpu, runs, taskState, spins, savedIntena, sleepVars>>

-----------------------------------------------------------------------------
\* trap() for the timer.

Interrupt(c) ==
  LET t == runs[c] IN
  /\ intr[c]
  /\ c = Core0 => ticks < MaxTicks
  /\ intr' = [intr EXCEPT ![c] = FALSE]
  /\ kstack' = [kstack EXCEPT ![t] = Append(@, IF c = Core0 THEN "tick" ELSE "resched")]
  /\ UNCHANGED <<ncli, intena, lockCpu, runs, taskState, spins, savedIntena, sleepVars>>

Count(c) ==
  /\ At(c, "count")
  /\ ticks' = ticks + 1
  /\ Goto(runs[c], "tickWakeup")
  /\ UNCHANGED <<cpuVars, lockCpu, runs, taskState, spins, savedIntena, ticks0, howLong>>

\* wakeup(&ticks)
WakeTicks(c) ==
  /\ At(c, "wake")
  /\ taskState' = [p \in Tasks |-> IF taskState[p] = "SLEEPING" THEN "RUNNABLE" ELSE taskState[p]]
  /\ Release(c, "ptable")
  /\ Goto(runs[c], "counted")
  /\ UNCHANGED <<runs, spins, savedIntena, sleepVars>>

Counted(c) ==
  /\ At(c, "counted")
  /\ Release(c, "tickslock")
  /\ Goto(runs[c], "resched")
  /\ UNCHANGED <<runs, taskState, spins, savedIntena, sleepVars>>

\* The clock tick takes the CPU from a process.
Preempt(c) ==
  /\ At(c, "resched") /\ runs[c] \in Tasks /\ taskState[runs[c]] = "RUNNING"
  /\ Goto(runs[c], "yield")
  /\ UNCHANGED <<cpuVars, lockCpu, runs, taskState, spins, savedIntena, sleepVars>>

GiveUp(c) ==
  /\ At(c, "giveUp")
  /\ Sched(c, runs[c], "RUNNABLE", "yielded")
  /\ UNCHANGED <<cpuVars, lockCpu, spins, sleepVars>>

Yielded(c) == Resume(c, "yielded", "irq")

\* iret to what the interrupt stopped.
Iret(c) ==
  LET t == runs[c] IN
  /\ At(c, "irq") \/ (At(c, "resched") /\ t \in Cores)
  /\ kstack' = [kstack EXCEPT ![t] = SubSeq(@, 1, Len(@) - 1)]
  /\ intr' = [intr EXCEPT ![c] = TRUE]
  /\ UNCHANGED <<ncli, intena, lockCpu, runs, taskState, spins, savedIntena, sleepVars>>

-----------------------------------------------------------------------------
SpinNext ==
  \E c \in Cores :
    \/ Acquire(c) \/ Xchg(c)
    \/ SchedulerLoop(c) \/ EndOfPass(c) \/ \E p \in Tasks : Switch(c, p)
    \/ Forkret(c) \/ Trapret(c)
    \/ \E n \in SleepTimes : SysSleep(c, n)
    \/ Begin(c) \/ TimeNotUp(c) \/ TimeUp(c) \/ Sleep(c) \/ Woken(c) \/ SysReturn(c)
    \/ Interrupt(c) \/ Count(c) \/ WakeTicks(c) \/ Counted(c)
    \/ Preempt(c) \/ GiveUp(c) \/ Yielded(c) \/ Iret(c)

SpinSpec == SpinInit /\ [][SpinNext]_spinVars
-----------------------------------------------------------------------------
\* Properties.

SpinTypeOK ==
  /\ intr \in [Cores -> BOOLEAN] /\ ncli \in [Cores -> 0..2] /\ intena \in [Cores -> BOOLEAN]
  /\ lockCpu \in [Locks -> Cores \cup {Free}]
  /\ runs \in [Cores -> KThreads]
  /\ taskState \in [Tasks -> {"RUNNABLE", "RUNNING", "SLEEPING"}]
  /\ kstack \in [KThreads -> Seq(Points)] /\ \A t \in KThreads : Len(kstack[t]) \in 1..2
  /\ spins \subseteq KThreads /\ savedIntena \in [Tasks -> BOOLEAN]
  /\ ticks \in 0..MaxTicks /\ ticks0 \in [Tasks -> 0..MaxTicks] /\ howLong \in [Tasks -> SleepTimes \cup {0}]

SpinsFor(c) == IF InLoop(c) THEN lockCpu[LockAt[Top(runs[c])]] ELSE Free

\* No CPU spins for ever: not on a lock it holds itself, for an interrupt never
\* finds its CPU with a lock (spinlock.c:27), and no CPUs spin on each other's
\* locks, for ptable.lock is taken last (proc.c:434-437, trap.c:52-55).
SpinsEnd == \A stuck \in (SUBSET Cores) \ {{}} : \E c \in stuck : SpinsFor(c) \notin stuck

\* When its last lock is released a thread has interrupts as it had them before the
\* first, although another CPU may have taken it over in between: a trap is never
\* interrupted, the rest of the kernel always can be (proc.c:359-363).
IntenaKept ==
  \A c \in Cores : ncli[c] = 0 /\ Top(runs[c]) \notin InForkret \cup {"loop"} =>
    (intr[c] <=> Top(runs[c]) \notin InTrap)

\* Nobody sleeps on once his time is up: sleep() gives up tickslock only with
\* ptable.lock in hand, so that the tick that ends the time finds the sleeper
\* (proc.c:428-440, trap.c:52-55).
OnTime ==
  \A p \in Tasks : taskState[p] = "SLEEPING" /\ Left(p) <= 0 =>
    \E c \in Cores : Top(runs[c]) \in {"tickWakeup", "wake"}
===============================================================================
