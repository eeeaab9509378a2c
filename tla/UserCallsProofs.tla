---------------------------- MODULE UserCallsProofs ---------------------------
(***************************************************************************)
(* Proofs about SpinLocks.tla, Console.tla and Threads.tla, and about the  *)
(* composition MCUserCalls.                                                *)
(***************************************************************************)
EXTENDS MCUserCalls, FilesProofs

-----------------------------------------------------------------------------
\* The locks, for any CPUs, processes and sleeping times.  SpinInv is inductive.
\* Its core is CoreInv: what a CPU holds, how deep it has nested pushcli() and what
\* it remembers of its interrupts is determined by the point at which the thread it
\* runs is.  A thread that no CPU runs left in sched(), or has yet to start; an
\* interrupt stopped a thread where it held nothing.  CoreInv says nothing about
\* intena after swtch(): what the CPU remembers there belongs to another thread,
\* and what it should be is in savedIntena.

\* What is held at each point, and how often pushcli() is nested there.

AfterSwtch == {"woken", "yielded", "forkret"}
WithPtable == {"scan", "giveUp"} \cup AfterSwtch
WithTicks  == {"begun", "slept", "toSleep", "count", "tickWakeup", "counted"}
WithBoth   == {"asleep", "wake"}

Held(pt) ==
  {l \in Locks : pt \in WithBoth \/ (l = "ptable" /\ pt \in WithPtable) \/ (l = "tickslock" /\ pt \in WithTicks)}
Depth(pt) == IF pt \in WithBoth THEN 2 ELSE IF pt \in WithPtable \cup WithTicks THEN 1 ELSE 0

InScheduler == {"loop", "schedule", "scan"}
InTask      == Points \ (InScheduler \cup InTrap)
Yielding    == {"yield", "giveUp", "yielded"}

StackInv(t) ==
  /\ kstack[t][1] \in IF t \in Cores THEN InScheduler ELSE InTask
  /\ Len(kstack[t]) = 2 =>
       /\ kstack[t][2] \in InTrap /\ Depth(kstack[t][1]) = 0
       /\ t \in Cores => kstack[t][2] \notin Yielding

SeatInv ==
  /\ \A c \in Cores : runs[c] \in Tasks \cup {c}
  /\ \A c, d \in Cores : runs[c] = runs[d] => c = d
  /\ \A p \in Tasks : taskState[p] = "RUNNING" <=> \E c \in Cores : runs[c] = p

WaitInv(t) ==
  (\A c \in Cores : runs[c] # t) =>
    /\ t \notin spins
    /\ Top(t) \in IF t \in Cores THEN {"scan"} ELSE AfterSwtch

SavedInv(p) == (Top(p) = "woken" => savedIntena[p]) /\ (Top(p) = "yielded" => ~savedIntena[p])

\* What CPU c has while its thread is at pt.
CoreAt(c, pt) ==
  /\ \A l \in Locks : lockCpu[l] = c <=> l \in Held(pt)
  /\ ncli[c] = Depth(pt) + (IF runs[c] \in spins THEN 1 ELSE 0)
  /\ runs[c] \in spins => pt \in DOMAIN LockAt
  /\ ncli[c] > 0 => ~intr[c]
  /\ ncli[c] > 0 /\ pt \notin AfterSwtch \cup {"scan"} => (intena[c] <=> pt \notin InTrap)
  /\ ncli[c] = 0 /\ pt \notin InForkret \cup {"loop"} => (intr[c] <=> pt \notin InTrap)
  /\ pt \in {"tick", "count"} => c = Core0 /\ ticks < MaxTicks
  /\ pt \in {"toSleep", "asleep"} => Left(runs[c]) > 0

CoreInv(c) == CoreAt(c, Top(runs[c]))

SpinInv ==
  /\ SpinTypeOK /\ SeatInv /\ OnTime
  /\ \A t \in KThreads : StackInv(t) /\ WaitInv(t)
  /\ \A p \in Tasks : SavedInv(p)
  /\ \A c \in Cores : CoreInv(c)

-----------------------------------------------------------------------------
LEMMA LockPoints ==
  /\ DOMAIN LockAt = {"schedule", "sleepCall", "sleepAgain", "toSleep", "tick", "tickWakeup", "yield"}
  /\ LockAt["schedule"] = "ptable" /\ LockAt["sleepCall"] = "tickslock" /\ LockAt["sleepAgain"] = "tickslock"
  /\ LockAt["toSleep"] = "ptable" /\ LockAt["tick"] = "tickslock" /\ LockAt["tickWakeup"] = "ptable"
  /\ LockAt["yield"] = "ptable"
  /\ AfterLock["schedule"] = "scan" /\ AfterLock["sleepCall"] = "begun" /\ AfterLock["sleepAgain"] = "slept"
  /\ AfterLock["toSleep"] = "asleep" /\ AfterLock["tick"] = "count" /\ AfterLock["tickWakeup"] = "wake"
  /\ AfterLock["yield"] = "giveUp"
BY DEF LockAt, AfterLock

\* What acquire() adds at each of its calls.
LEMMA AfterAcquire ==
  ASSUME NEW pt \in DOMAIN LockAt
  PROVE  /\ LockAt[pt] \in Locks /\ LockAt[pt] \notin Held(pt)
         /\ AfterLock[pt] \in Points /\ AfterLock[pt] \notin AfterSwtch
         /\ Held(AfterLock[pt]) = Held(pt) \cup {LockAt[pt]}
         /\ Depth(AfterLock[pt]) = Depth(pt) + 1 /\ Depth(pt) \in {0, 1}
         /\ AfterLock[pt] \in InTrap <=> pt \in InTrap
         /\ AfterLock[pt] \in InScheduler <=> pt \in InScheduler
         /\ AfterLock[pt] \in Yielding <=> pt \in Yielding
         /\ AfterLock[pt] \in {"tick", "count"} => pt = "tick"
         /\ AfterLock[pt] \in {"toSleep", "asleep"} => pt = "toSleep"
         /\ pt = "tickWakeup" => AfterLock[pt] = "wake"
         /\ pt # "wake"
BY LockPoints DEF Held, Locks, Depth, WithPtable, WithTicks, WithBoth, AfterSwtch, Points, InTrap, InForkret,
   InScheduler, Yielding

\* Points that are not a call of acquire().
LEMMA PointKinds ==
  /\ InTrap \subseteq Points /\ InScheduler \subseteq Points /\ InTask \subseteq Points
  /\ InTrap \cap InScheduler = {} /\ InTrap \cap InTask = {} /\ InScheduler \cap InTask = {}
  /\ \A pt \in Points : Depth(pt) \in 0..2
BY DEF Points, InTrap, InForkret, InScheduler, InTask, Depth

\* A thread goes from one point to the next without entering or leaving a trap.
LEMMA Moves ==
  ASSUME SpinInv, NEW t \in KThreads, NEW pt \in Points, Goto(t, pt),
         pt \in InTrap <=> Top(t) \in InTrap,
         pt \in InScheduler => t \in Cores, pt \in InTask => t \in Tasks, pt \in Yielding => t \in Tasks
  PROVE  /\ kstack' \in [KThreads -> Seq(Points)] /\ \A u \in KThreads : Len(kstack'[u]) \in 1..2
         /\ Top(t)' = pt /\ \A u \in KThreads : u # t => Top(u)' = Top(u)
         /\ \A u \in KThreads : StackInv(u)'
<1>1. /\ kstack \in [KThreads -> Seq(Points)] /\ Len(kstack[t]) \in 1..2 /\ \A u \in KThreads : StackInv(u)
      /\ \A u \in KThreads : Len(kstack[u]) \in 1..2
  BY DEF SpinInv, SpinTypeOK
<1>2. /\ kstack' \in [KThreads -> Seq(Points)] /\ Len(kstack'[t]) = Len(kstack[t])
      /\ kstack'[t][Len(kstack[t])] = pt
      /\ Len(kstack[t]) = 2 => kstack'[t][1] = kstack[t][1]
      /\ \A u \in KThreads \ {t} : kstack'[u] = kstack[u]
  BY <1>1 DEF Goto
<1>3. Top(t)' = pt /\ \A u \in KThreads : u # t => Top(u)' = Top(u)
  BY <1>2 DEF Top
<1>4. \A u \in KThreads : u # t => StackInv(u)'
  BY <1>1, <1>2 DEF StackInv
<1>5. StackInv(t)'
  <2>1. CASE Len(kstack[t]) = 1
    <3>1. Top(t) = kstack[t][1] /\ Top(t) \notin InTrap
      BY <1>1, <2>1, PointKinds DEF Top, StackInv
    <3>2. kstack'[t][1] = pt /\ pt \notin InTrap /\ Len(kstack'[t]) = 1
      BY <1>2, <2>1, <3>1
    <3> QED BY <3>2, SpinAssumption DEF StackInv, InTask, KThreads
  <2>2. CASE Len(kstack[t]) = 2
    <3>1. pt \in InTrap
      BY <1>1, <2>2 DEF Top, StackInv
    <3> QED BY <1>1, <1>2, <2>2, <3>1, SpinAssumption DEF StackInv, KThreads
  <2> QED BY <1>1, <2>1, <2>2
<1> QED BY <1>1, <1>2, <1>3, <1>4, <1>5

\* The thread of a CPU is at a point of its own kind.
LEMMA Here ==
  ASSUME SpinInv, NEW c \in Cores
  PROVE  /\ runs[c] \in KThreads /\ Top(runs[c]) \in Points /\ CoreInv(c)
         /\ Top(runs[c]) \in InScheduler => runs[c] \in Cores
         /\ Top(runs[c]) \in InTask \cup Yielding => runs[c] \in Tasks
         /\ runs[c] \in Tasks => taskState[runs[c]] = "RUNNING"
<1>1. runs[c] \in KThreads /\ CoreInv(c) /\ (runs[c] \in Tasks => taskState[runs[c]] = "RUNNING")
  BY DEF SpinInv, SeatInv, KThreads
<1>2. /\ kstack[runs[c]] \in Seq(Points) /\ Len(kstack[runs[c]]) \in 1..2 /\ StackInv(runs[c])
      /\ runs[c] \in Cores <=> runs[c] \notin Tasks
  BY <1>1, SpinAssumption DEF SpinInv, SpinTypeOK, KThreads
<1>3. Top(runs[c]) \in Points
  <2>1. ASSUME NEW s \in Seq(Points), Len(s) \in 1..2 PROVE s[Len(s)] \in Points
    <3>1. \A i \in 1..Len(s) : s[i] \in Points
      OBVIOUS
    <3> QED BY <2>1, <3>1
  <2> QED BY <1>2, <2>1 DEF Top
<1>4. CASE Len(kstack[runs[c]]) = 1
  BY <1>1, <1>2, <1>3, <1>4, PointKinds DEF Top, StackInv, Yielding, InTrap, InScheduler, InTask
<1>5. CASE Len(kstack[runs[c]]) = 2
  BY <1>1, <1>2, <1>3, <1>5, PointKinds DEF Top, StackInv
<1> QED BY <1>2, <1>4, <1>5

\* What a step of CPU c leaves to another CPU d.
LEMMA OtherCore ==
  ASSUME SpinInv, NEW c \in Cores, NEW d \in Cores, d # c,
         runs'[d] = runs[d], Top(runs[d])' = Top(runs[d]), runs'[d] \in spins' <=> runs[d] \in spins,
         intr'[d] = intr[d], ncli'[d] = ncli[d], intena'[d] = intena[d],
         \A l \in Locks : lockCpu'[l] = lockCpu[l] \/ {lockCpu[l], lockCpu'[l]} \subseteq {c, Free},
         ticks' = ticks \/ Top(runs[d]) \notin {"toSleep", "asleep", "tick", "count"},
         \A p \in Tasks : p # runs[c] => ticks0'[p] = ticks0[p] /\ howLong'[p] = howLong[p]
  PROVE  CoreInv(d)'
<1>1. runs[d] # runs[c] /\ CoreAt(d, Top(runs[d]))
  BY Here DEF SpinInv, SeatInv, CoreInv
<1>2. \A l \in Locks : lockCpu'[l] = d <=> lockCpu[l] = d
  BY SpinAssumption
<1>3. Top(runs[d]) \in {"toSleep", "asleep"} => runs[d] \in Tasks
  BY Here DEF InTask, Points, InScheduler, InTrap
<1>4. CASE ticks' = ticks
  <2>1. Top(runs[d]) \in {"toSleep", "asleep"} => Left(runs[d])' = Left(runs[d])
    BY <1>1, <1>3, <1>4 DEF Left
  <2>2. \A pt : /\ CoreAt(d, pt)
                /\ pt \in {"toSleep", "asleep"} => Left(runs[d])' = Left(runs[d])
                => CoreAt(d, pt)'
    BY <1>2, <1>4 DEF CoreAt
  <2> QED BY <1>1, <2>1, <2>2 DEF CoreInv
<1>5. CASE Top(runs[d]) \notin {"toSleep", "asleep", "tick", "count"}
  <2>1. \A pt : CoreAt(d, pt) /\ pt \notin {"toSleep", "asleep", "tick", "count"} => CoreAt(d, pt)'
    BY <1>2 DEF CoreAt
  <2> QED BY <1>1, <1>5, <2>1 DEF CoreInv
<1> QED BY <1>4, <1>5

\* A step of the thread that CPU c runs, with c's own state and c's locks: what the
\* other CPUs have is untouched.
LEMMA OneCore ==
  ASSUME SpinInv, NEW c \in Cores, SpinTypeOK', OnTime', runs' = runs,
         \A p \in Tasks : taskState'[p] = taskState[p] \/ "RUNNING" \notin {taskState[p], taskState'[p]},
         \A u \in KThreads : StackInv(u)' /\ (u # runs[c] => Top(u)' = Top(u) /\ (u \in spins' <=> u \in spins)),
         \A d \in Cores : d # c => intr'[d] = intr[d] /\ ncli'[d] = ncli[d] /\ intena'[d] = intena[d],
         \A l \in Locks : lockCpu'[l] = lockCpu[l] \/ {lockCpu[l], lockCpu'[l]} \subseteq {c, Free},
         savedIntena' = savedIntena, Top(runs[c])' \notin AfterSwtch,
         \/ ticks' = ticks
         \/ \A d \in Cores \ {c} : Top(runs[d]) \notin {"toSleep", "asleep", "tick", "count"},
         \A p \in Tasks : p # runs[c] => ticks0'[p] = ticks0[p] /\ howLong'[p] = howLong[p],
         CoreInv(c)'
  PROVE  SpinInv'
<1>0. \A d \in Cores : runs[d] \in KThreads
  BY Here
<1>1. SeatInv'
  BY DEF SpinInv, SeatInv
<1>2. ASSUME NEW t \in KThreads PROVE WaitInv(t)'
  <2>1. CASE t = runs[c]
    BY <2>1 DEF WaitInv
  <2>2. CASE t # runs[c]
    BY <2>2 DEF SpinInv, WaitInv
  <2> QED BY <2>1, <2>2
<1>3. ASSUME NEW p \in Tasks PROVE SavedInv(p)'
  BY DEF SpinInv, SavedInv, AfterSwtch, KThreads
<1>4. ASSUME NEW d \in Cores PROVE CoreInv(d)'
  <2>1. CASE d # c
    <3>1. runs[d] # runs[c] /\ runs[d] \in KThreads 
      BY <2>1, <1>0 DEF SpinInv, SeatInv
    <3>2. Top(runs[d])' = Top(runs[d]) /\ (runs'[d] \in spins' <=> runs[d] \in spins)
      BY <3>1 DEF Top
    <3> QED BY <2>1, <3>1, <3>2, OtherCore
  <2> QED BY <2>1
<1> QED BY <1>1, <1>2, <1>3, <1>4 DEF SpinInv

\* The sleepers' times after a step that puts nobody to sleep and counts no tick.
LEMMA StillOnTime ==
  ASSUME SpinInv, NEW c \in Cores, runs' = runs, taskState' = taskState, ticks' = ticks,
         \A u \in KThreads : u # runs[c] => Top(u)' = Top(u),
         Top(runs[c]) \in {"tickWakeup", "wake"} => Top(runs[c])' \in {"tickWakeup", "wake"},
         \A p \in Tasks : p # runs[c] => ticks0'[p] = ticks0[p] /\ howLong'[p] = howLong[p]
  PROVE  OnTime'
<1> SUFFICES ASSUME NEW p \in Tasks, taskState[p] = "SLEEPING", Left(p)' <= 0
             PROVE  \E d \in Cores : Top(runs[d])' \in {"tickWakeup", "wake"}
  BY DEF OnTime
<1>1. p # runs[c]
  BY Here
<1>2. Left(p)' = Left(p)
  BY <1>1 DEF Left
<1>3. PICK d \in Cores : Top(runs[d]) \in {"tickWakeup", "wake"}
  BY <1>2 DEF SpinInv, OnTime
<1>4. runs[d] \in KThreads
  BY Here
<1>5. Top(runs[d])' \in {"tickWakeup", "wake"}
  <2>1. CASE runs[d] = runs[c]
    BY <1>3, <2>1 DEF Top
  <2>2. CASE runs[d] # runs[c]
    BY <1>3, <1>4, <2>2 DEF Top
  <2> QED BY <2>1, <2>2
<1> QED BY <1>5

\* The two together, for a thread that goes to the next point.
LEMMA OneMove ==
  ASSUME SpinInv, NEW c \in Cores, NEW pt \in Points, Goto(runs[c], pt),
         pt \in InTrap <=> Top(runs[c]) \in InTrap, pt \in InScheduler <=> Top(runs[c]) \in InScheduler,
         pt \in Yielding => runs[c] \in Tasks, pt \notin AfterSwtch,
         Top(runs[c]) \in {"tickWakeup", "wake"} => pt \in {"tickWakeup", "wake"},
         runs' = runs, taskState' = taskState, savedIntena' = savedIntena, ticks' = ticks,
         spins' = spins \/ spins' = spins \ {runs[c]},
         intr' \in [Cores -> BOOLEAN], ncli' \in [Cores -> 0..2], intena' \in [Cores -> BOOLEAN],
         \A d \in Cores : d # c => intr'[d] = intr[d] /\ ncli'[d] = ncli[d] /\ intena'[d] = intena[d],
         lockCpu' \in [Locks -> Cores \cup {Free}],
         \A l \in Locks : lockCpu'[l] = lockCpu[l] \/ {lockCpu[l], lockCpu'[l]} \subseteq {c, Free},
         ticks0' \in [Tasks -> 0..MaxTicks], howLong' \in [Tasks -> SleepTimes \cup {0}],
         \A p \in Tasks : p # runs[c] => ticks0'[p] = ticks0[p] /\ howLong'[p] = howLong[p],
         CoreAt(c, pt)'
  PROVE  SpinInv'
<1>1. /\ runs[c] \in KThreads /\ (pt \in InScheduler => runs[c] \in Cores) /\ Top(runs[c]) \in Points
      /\ pt \in InTask => runs[c] \in Tasks
  BY Here, PointKinds DEF InTask
<1>2. /\ kstack' \in [KThreads -> Seq(Points)] /\ \A u \in KThreads : Len(kstack'[u]) \in 1..2
      /\ Top(runs[c])' = pt /\ \A u \in KThreads : u # runs[c] => Top(u)' = Top(u)
      /\ \A u \in KThreads : StackInv(u)'
  BY <1>1, Moves
<1>3. SpinTypeOK'
  BY <1>2 DEF SpinInv, SpinTypeOK
<1>4. CoreInv(c)'
  BY <1>2 DEF CoreInv, Top
<1>5. OnTime'
  BY <1>2, StillOnTime
<1>6. \A u \in KThreads : StackInv(u)' /\ (u # runs[c] => Top(u)' = Top(u) /\ (u \in spins' <=> u \in spins))
  BY <1>2
<1>7. Top(runs[c])' \notin AfterSwtch
  BY <1>2
<1> QED BY <1>3, <1>4, <1>5, <1>6, <1>7, OneCore

-----------------------------------------------------------------------------
\* One lemma per action.

LEMMA AcquireKeeps ==
  ASSUME SpinInv, NEW c \in Cores, Acquire(c)
  PROVE  SpinInv'
<1>1. /\ runs[c] \in KThreads /\ Top(runs[c]) \in DOMAIN LockAt /\ runs[c] \notin spins
      /\ CoreAt(c, Top(runs[c])) /\ runs' = runs /\ kstack' = kstack /\ spins' = spins \cup {runs[c]}
  BY Here DEF Acquire, CoreInv
<1>2. \A u : Top(u)' = Top(u)
  BY <1>1 DEF Top
<1>3. ncli[c] = Depth(Top(runs[c])) /\ ncli[c] \in {0, 1}
  BY <1>1, AfterAcquire DEF CoreAt
<1>4. /\ intr' = [intr EXCEPT ![c] = FALSE] /\ ncli' = [ncli EXCEPT ![c] = @ + 1]
      /\ intena' = IF ncli[c] = 0 THEN [intena EXCEPT ![c] = intr[c]] ELSE intena
  BY DEF Acquire, PushCli
<1>5. SpinTypeOK'
  BY <1>1, <1>3, <1>4 DEF SpinInv, SpinTypeOK, Acquire, sleepVars
<1>6. OnTime'
  BY <1>1, <1>2, StillOnTime DEF Acquire, sleepVars
<1>7. CoreInv(c)'
  <2>1. Top(runs[c]) \notin AfterSwtch \cup {"scan", "loop"} \cup InForkret
    BY <1>1, LockPoints DEF AfterSwtch, InForkret
  <2>2. ~intr'[c] /\ ncli'[c] = Depth(Top(runs[c])) + 1 /\ (intena'[c] <=> Top(runs[c]) \notin InTrap)
    BY <1>1, <1>3, <1>4, <2>1 DEF SpinInv, SpinTypeOK, CoreAt
  <2>3. CoreAt(c, Top(runs[c]))'
    <3> DEFINE pt == Top(runs[c])
    <3>1. pt' = pt
      BY <1>2, <1>1 DEF Top
    <3>2. lockCpu' = lockCpu /\ ticks' = ticks /\ Left(runs[c])' = Left(runs[c])
      BY <1>1 DEF Acquire, sleepVars, Left
    <3>3. ncli'[c] > 0
      BY <1>3, <2>2
    <3> QED BY <1>1, <2>1, <2>2, <3>1, <3>2, <3>3 DEF CoreAt
  <2> QED BY <2>3 DEF CoreInv
<1>8. \A u \in KThreads : StackInv(u)' /\ (u # runs[c] => Top(u)' = Top(u) /\ (u \in spins' <=> u \in spins))
  BY <1>1, <1>2 DEF SpinInv, StackInv
<1>9. Top(runs[c])' \notin AfterSwtch
  BY <1>1, <1>2, LockPoints DEF AfterSwtch
<1> QED
  BY <1>1, <1>4, <1>5, <1>6, <1>7, <1>8, <1>9, OneCore DEF SpinInv, SpinTypeOK, Acquire, sleepVars

\* What the CPU's own state is after release() of lock l, its only one.
LEMMA ReleaseLast ==
  ASSUME SpinInv, NEW c \in Cores, NEW l \in Locks, NEW ena \in [Cores -> BOOLEAN],
         \A d \in Cores : d # c => ena[d] = intena[d], runs[c] \notin spins,
         Held(Top(runs[c])) = {l}, Depth(Top(runs[c])) = 1, ReleaseWith(c, l, ena)
  PROVE  /\ lockCpu' \in [Locks -> Cores \cup {Free}] /\ \A k \in Locks : lockCpu'[k] # c
         /\ \A k \in Locks : lockCpu'[k] = lockCpu[k] \/ {lockCpu[k], lockCpu'[k]} \subseteq {c, Free}
         /\ intr' \in [Cores -> BOOLEAN] /\ ncli' \in [Cores -> 0..2] /\ intena' \in [Cores -> BOOLEAN]
         /\ \A d \in Cores : d # c => intr'[d] = intr[d] /\ ncli'[d] = ncli[d] /\ intena'[d] = intena[d]
         /\ ncli'[c] = 0 /\ (intr'[c] <=> ena[c])
<1>1. CoreAt(c, Top(runs[c])) /\ SpinTypeOK
  BY Here DEF CoreInv, SpinInv
<1>2. ncli[c] = 1 /\ ~intr[c] /\ \A k \in Locks : lockCpu[k] = c <=> k = l
  BY <1>1 DEF CoreAt
<1>3. /\ lockCpu' = [lockCpu EXCEPT ![l] = Free] /\ ncli' = [ncli EXCEPT ![c] = @ - 1]
      /\ intr' = [intr EXCEPT ![c] = @ \/ (ncli[c] = 1 /\ ena[c])] /\ intena' = ena
  BY DEF ReleaseWith, PopCli
<1>4. /\ lockCpu' \in [Locks -> Cores \cup {Free}] /\ \A k \in Locks : lockCpu'[k] # c
      /\ \A k \in Locks : lockCpu'[k] = lockCpu[k] \/ {lockCpu[k], lockCpu'[k]} \subseteq {c, Free}
  BY <1>1, <1>2, <1>3, SpinAssumption DEF SpinTypeOK
<1>5. /\ ncli' \in [Cores -> 0..2] /\ ncli'[c] = 0 /\ \A d \in Cores : d # c => ncli'[d] = ncli[d]
  BY <1>1, <1>2, <1>3 DEF SpinTypeOK
<1>6. /\ intr' \in [Cores -> BOOLEAN] /\ (intr'[c] <=> ena[c]) /\ \A d \in Cores : d # c => intr'[d] = intr[d]
  BY <1>1, <1>2, <1>3 DEF SpinTypeOK
<1> QED BY <1>3, <1>4, <1>5, <1>6

\* A release() of its only lock takes the CPU to a point where it holds none.
LEMMA ReleaseKeeps ==
  ASSUME SpinInv, NEW c \in Cores, NEW l \in Locks, NEW ena \in [Cores -> BOOLEAN], NEW from, NEW pt \in Points,
         \A d \in Cores : d # c => ena[d] = intena[d], Top(runs[c]) = from,
         from \notin DOMAIN LockAt, Held(from) = {l}, Depth(from) = 1, Held(pt) = {}, Depth(pt) = 0,
         pt \in InTrap <=> from \in InTrap, pt \in InScheduler <=> from \in InScheduler,
         pt \notin Yielding \cup AfterSwtch \cup {"tick"}, from \notin {"tickWakeup", "wake"},
         pt \notin InForkret \cup {"loop"} => (ena[c] <=> pt \notin InTrap),
         ReleaseWith(c, l, ena), Goto(runs[c], pt),
         UNCHANGED <<runs, taskState, spins, savedIntena, sleepVars>>
  PROVE  SpinInv'
<1>1. /\ CoreAt(c, from) /\ SpinTypeOK /\ ticks0' = ticks0 /\ howLong' = howLong /\ ticks' = ticks
      /\ runs' = runs /\ spins' = spins /\ taskState' = taskState /\ savedIntena' = savedIntena
  BY Here DEF CoreInv, SpinInv, sleepVars
<1>2. runs[c] \notin spins
  BY <1>1 DEF CoreAt
<1>3. /\ lockCpu' \in [Locks -> Cores \cup {Free}] /\ \A k \in Locks : lockCpu'[k] # c
      /\ \A k \in Locks : lockCpu'[k] = lockCpu[k] \/ {lockCpu[k], lockCpu'[k]} \subseteq {c, Free}
      /\ intr' \in [Cores -> BOOLEAN] /\ ncli' \in [Cores -> 0..2] /\ intena' \in [Cores -> BOOLEAN]
      /\ \A d \in Cores : d # c => intr'[d] = intr[d] /\ ncli'[d] = ncli[d] /\ intena'[d] = intena[d]
      /\ ncli'[c] = 0 /\ (intr'[c] <=> ena[c])
  BY <1>2, ReleaseLast
<1>4. pt \notin {"count", "toSleep", "asleep"}
  BY DEF Depth, WithPtable, WithTicks, WithBoth
<1>5. CoreAt(c, pt)'
  BY <1>1, <1>2, <1>3, <1>4 DEF CoreAt
<1> QED BY <1>1, <1>3, <1>5, OneMove DEF SpinTypeOK

\* A step between two points with the same locks and the same interrupts.
LEMMA SamePlace ==
  ASSUME SpinInv, NEW c \in Cores, NEW from, NEW pt \in Points, Top(runs[c]) = from,
         from \notin DOMAIN LockAt, Held(pt) = Held(from), Depth(pt) = Depth(from),
         pt \in InTrap <=> from \in InTrap, pt \in InScheduler <=> from \in InScheduler,
         pt \in Yielding => runs[c] \in Tasks, pt \notin AfterSwtch \cup {"tick", "count", "loop", "scan"} \cup InForkret,
         from \notin AfterSwtch \cup {"tickWakeup", "wake", "scan", "loop"} \cup InForkret,
         Goto(runs[c], pt), UNCHANGED <<cpuVars, lockCpu, runs, taskState, spins, savedIntena, ticks>>,
         ticks0' \in [Tasks -> 0..MaxTicks], howLong' \in [Tasks -> SleepTimes \cup {0}],
         \A p \in Tasks : p # runs[c] => ticks0'[p] = ticks0[p] /\ howLong'[p] = howLong[p],
         pt \in {"toSleep", "asleep"} => Left(runs[c])' > 0
  PROVE  SpinInv'
<1>1. /\ CoreAt(c, from) /\ SpinTypeOK /\ ticks' = ticks /\ intr' = intr /\ ncli' = ncli /\ intena' = intena
      /\ runs' = runs /\ spins' = spins /\ taskState' = taskState /\ savedIntena' = savedIntena /\ lockCpu' = lockCpu
  BY Here DEF CoreInv, SpinInv, cpuVars
<1>2. CoreAt(c, pt)'
  BY <1>1 DEF CoreAt
<1> QED BY <1>1, <1>2, OneMove DEF SpinTypeOK

LEMMA XchgKeeps ==
  ASSUME SpinInv, NEW c \in Cores, Xchg(c)
  PROVE  SpinInv'
<1>1. PICK from \in DOMAIN LockAt : Top(runs[c]) = from
  BY DEF Xchg, InLoop
<1>2. PICK pt \in Points : pt = AfterLock[from]
  BY AfterAcquire
<1>3. /\ runs[c] \in spins /\ lockCpu[LockAt[from]] = Free /\ lockCpu' = [lockCpu EXCEPT ![LockAt[from]] = c]
      /\ spins' = spins \ {runs[c]} /\ Goto(runs[c], pt) /\ intr' = intr /\ ncli' = ncli /\ intena' = intena
      /\ runs' = runs /\ taskState' = taskState /\ savedIntena' = savedIntena /\ ticks' = ticks
      /\ ticks0' = ticks0 /\ howLong' = howLong
  BY <1>1, <1>2 DEF Xchg, InLoop, cpuVars, sleepVars
<1>4. CoreAt(c, from) /\ SpinTypeOK
  BY <1>1, Here DEF CoreInv, SpinInv
<1>5. /\ LockAt[from] \in Locks /\ LockAt[from] \notin Held(from) /\ pt \in Points /\ pt \notin AfterSwtch
      /\ Held(pt) = Held(from) \cup {LockAt[from]} /\ Depth(pt) = Depth(from) + 1 /\ Depth(from) \in {0, 1}
      /\ pt \in InTrap <=> from \in InTrap
      /\ pt \in InScheduler <=> from \in InScheduler
      /\ pt \in Yielding => from \in Yielding
      /\ pt \in {"tick", "count"} => from = "tick"
      /\ pt \in {"toSleep", "asleep"} => from = "toSleep"
      /\ from \in {"tickWakeup", "wake"} => pt \in {"tickWakeup", "wake"}
  BY <1>2, AfterAcquire
<1>6. from \notin AfterSwtch \cup {"scan", "loop"} \cup InForkret /\ pt \notin InForkret \cup {"loop"}
  BY <1>2, LockPoints DEF AfterSwtch, InForkret
<1>7. CoreAt(c, pt)'
  <2>1. \A l \in Locks : lockCpu'[l] = c <=> l \in Held(pt)
    BY <1>3, <1>4, <1>5 DEF CoreAt, SpinTypeOK
  <2>2. ncli'[c] = Depth(pt) /\ runs'[c] \notin spins' /\ ncli'[c] > 0
    BY <1>3, <1>4, <1>5 DEF CoreAt
  <2>3. ~intr'[c] /\ (intena'[c] <=> pt \notin InTrap)
    BY <1>3, <1>4, <1>5, <1>6, <2>2 DEF CoreAt
  <2>4. pt \in {"toSleep", "asleep"} => Left(runs[c])' > 0
    BY <1>3, <1>4, <1>5 DEF CoreAt, Left
  <2>5. pt \in {"tick", "count"} => c = Core0 /\ ticks' < MaxTicks
    BY <1>3, <1>4, <1>5 DEF CoreAt
  <2> QED BY <1>3, <1>5, <2>1, <2>2, <2>3, <2>4, <2>5 DEF CoreAt
<1>8. pt \in Yielding => runs[c] \in Tasks
  BY <1>1, <1>5, Here
<1>9. lockCpu' \in [Locks -> Cores \cup {Free}]
  BY <1>3, <1>4 DEF SpinTypeOK
<1>10. \A l \in Locks : lockCpu'[l] = lockCpu[l] \/ {lockCpu[l], lockCpu'[l]} \subseteq {c, Free}
  BY <1>3, <1>4, <1>5 DEF SpinTypeOK
<1> QED BY <1>1, <1>3, <1>4, <1>5, <1>7, <1>8, <1>9, <1>10, OneMove DEF SpinTypeOK

-----------------------------------------------------------------------------
\* The points at which a thread releases its only lock, and where it goes from there.
LEMMA ReleasePoints ==
  ASSUME NEW from \in {"scan", "forkret", "slept", "woken", "counted", "yielded"}, NEW pt \in Points, NEW l \in Locks,
         \/ from = "scan"    /\ pt = "loop"       /\ l = "ptable"
         \/ from = "forkret" /\ pt = "trapret"    /\ l = "ptable"
         \/ from = "slept"   /\ pt = "sysret"     /\ l = "tickslock"
         \/ from = "woken"   /\ pt = "sleepAgain" /\ l = "ptable"
         \/ from = "counted" /\ pt = "resched"    /\ l = "tickslock"
         \/ from = "yielded" /\ pt = "irq"        /\ l = "ptable"
  PROVE  /\ from \notin DOMAIN LockAt /\ Held(from) = {l} /\ Depth(from) = 1 /\ Held(pt) = {} /\ Depth(pt) = 0
         /\ pt \in InTrap <=> from \in InTrap
         /\ pt \in InScheduler <=> from \in InScheduler
         /\ pt \notin Yielding \cup AfterSwtch \cup {"tick"} /\ from \notin {"tickWakeup", "wake"}
         /\ pt \notin InForkret \cup {"loop"} => from \in {"slept", "woken", "counted", "yielded"}
BY LockPoints DEF Held, Locks, Depth, WithPtable, WithTicks, WithBoth, AfterSwtch, Points, InTrap, InForkret,
   InScheduler, Yielding

LEMMA ReleasesKeep ==
  ASSUME SpinInv, NEW c \in Cores,
         EndOfPass(c) \/ Forkret(c) \/ TimeUp(c) \/ Woken(c) \/ Counted(c) \/ Yielded(c)
  PROVE  SpinInv'
<1>1. PICK from \in {"scan", "forkret", "slept", "woken", "counted", "yielded"} : Top(runs[c]) = from
  BY DEF EndOfPass, Forkret, TimeUp, Woken, Counted, Yielded, Resume, At
<1>2. PICK pt \in Points, l \in Locks :
        \/ from = "scan"    /\ pt = "loop"       /\ l = "ptable"
        \/ from = "forkret" /\ pt = "trapret"    /\ l = "ptable"
        \/ from = "slept"   /\ pt = "sysret"     /\ l = "tickslock"
        \/ from = "woken"   /\ pt = "sleepAgain" /\ l = "ptable"
        \/ from = "counted" /\ pt = "resched"    /\ l = "tickslock"
        \/ from = "yielded" /\ pt = "irq"        /\ l = "ptable"
  BY <1>1 DEF Points, InTrap, InForkret, Locks
<1>3. /\ from \notin DOMAIN LockAt /\ Held(from) = {l} /\ Depth(from) = 1 /\ Held(pt) = {} /\ Depth(pt) = 0
      /\ pt \in InTrap <=> from \in InTrap
      /\ pt \in InScheduler <=> from \in InScheduler
      /\ pt \notin Yielding \cup AfterSwtch \cup {"tick"} /\ from \notin {"tickWakeup", "wake"}
      /\ pt \notin InForkret \cup {"loop"} => from \in {"slept", "woken", "counted", "yielded"}
  BY <1>2, ReleasePoints
<1> DEFINE ena == IF from \in {"woken", "yielded"} THEN Restored(c, runs[c]) ELSE intena
<1>4. Goto(runs[c], pt) /\ ReleaseWith(c, l, ena) /\ UNCHANGED <<runs, taskState, spins, savedIntena, sleepVars>>
  BY <1>1, <1>2 DEF EndOfPass, Forkret, TimeUp, Woken, Counted, Yielded, Resume, At, Release
<1>5. CoreAt(c, from) /\ SpinTypeOK /\ \A p \in Tasks : SavedInv(p)
  BY <1>1, Here DEF CoreInv, SpinInv
<1>6. from \in {"woken", "yielded"} => runs[c] \in Tasks
  BY <1>1, Here DEF Yielding, InTask, Points, InTrap, InScheduler
<1>7. ena \in [Cores -> BOOLEAN] /\ \A d \in Cores : d # c => ena[d] = intena[d]
  BY <1>5, <1>6 DEF Restored, SpinTypeOK
<1>8. pt \notin InForkret \cup {"loop"} => (ena[c] <=> pt \notin InTrap)
  <2>1. CASE from \in {"woken", "yielded"}
    <3>1. ena[c] = savedIntena[runs[c]]
      BY <1>5, <2>1 DEF Restored, SpinTypeOK
    <3>2. from = "woken" => savedIntena[runs[c]]
      BY <1>1, <1>5, <1>6 DEF SavedInv
    <3>3. from = "yielded" => ~savedIntena[runs[c]]
      BY <1>1, <1>5, <1>6 DEF SavedInv
    <3>4. "woken" \notin InTrap /\ "yielded" \in InTrap
      BY DEF InTrap
    <3> HIDE DEF ena
    <3> QED BY <1>3, <2>1, <3>1, <3>2, <3>3, <3>4
  <2>2. CASE from \in {"slept", "counted"}
    <3>1. ena = intena
      BY <2>2
    <3>2. from \notin AfterSwtch \cup {"scan"}
      BY <2>2 DEF AfterSwtch
    <3>3. ncli[c] > 0
      BY <1>3, <1>5 DEF CoreAt
    <3>4. intena[c] <=> from \notin InTrap
      BY <1>5, <3>2, <3>3 DEF CoreAt
    <3> HIDE DEF ena
    <3> QED BY <1>3, <3>1, <3>4
  <2> QED BY <1>3, <2>1, <2>2
<1> HIDE DEF ena
<1> QED BY <1>1, <1>3, <1>4, <1>7, <1>8, ReleaseKeeps

\* The points between which a thread moves with what it holds.
LEMMA PlacePoints ==
  ASSUME NEW from \in {"user", "sysret", "begun", "slept", "resched"}, NEW pt \in Points,
         \/ from = "user" /\ pt = "sleepCall"
         \/ from = "sysret" /\ pt = "user"
         \/ from = "begun" /\ pt = "slept"
         \/ from = "slept" /\ pt = "toSleep"
         \/ from = "resched" /\ pt = "yield"
  PROVE  /\ from \notin DOMAIN LockAt /\ Held(pt) = Held(from) /\ Depth(pt) = Depth(from)
         /\ pt \in InTrap <=> from \in InTrap
         /\ pt \in InScheduler <=> from \in InScheduler
         /\ pt \in Yielding => from = "resched"
         /\ pt \notin AfterSwtch \cup {"tick", "count", "loop", "scan"} \cup InForkret
         /\ from \notin AfterSwtch \cup {"tickWakeup", "wake", "scan", "loop"} \cup InForkret
         /\ pt \in {"toSleep", "asleep"} => from = "slept"
         /\ from # "resched" => from \in InTask
BY LockPoints DEF Held, Locks, Depth, WithPtable, WithTicks, WithBoth, AfterSwtch, Points, InTrap, InForkret,
   InScheduler, InTask, Yielding

LEMMA PlacesKeep ==
  ASSUME SpinInv, NEW c \in Cores,
         \/ \E n \in SleepTimes : SysSleep(c, n)
         \/ SysReturn(c) \/ Begin(c) \/ TimeNotUp(c) \/ Preempt(c)
  PROVE  SpinInv'
<1>1. PICK from \in {"user", "sysret", "begun", "slept", "resched"} : Top(runs[c]) = from
  BY DEF SysSleep, SysReturn, Begin, TimeNotUp, Preempt, At
<1>2. PICK pt \in Points :
        \/ from = "user" /\ pt = "sleepCall"
        \/ from = "sysret" /\ pt = "user"
        \/ from = "begun" /\ pt = "slept"
        \/ from = "slept" /\ pt = "toSleep"
        \/ from = "resched" /\ pt = "yield"
  BY <1>1 DEF Points, InTrap
<1>3. /\ from \notin DOMAIN LockAt /\ Held(pt) = Held(from) /\ Depth(pt) = Depth(from)
      /\ pt \in InTrap <=> from \in InTrap
      /\ pt \in InScheduler <=> from \in InScheduler
      /\ pt \in Yielding => from = "resched"
      /\ pt \notin AfterSwtch \cup {"tick", "count", "loop", "scan"} \cup InForkret
      /\ from \notin AfterSwtch \cup {"tickWakeup", "wake", "scan", "loop"} \cup InForkret
      /\ pt \in {"toSleep", "asleep"} => from = "slept"
      /\ from # "resched" => from \in InTask
  BY <1>2, PlacePoints
<1>4. Goto(runs[c], pt) /\ UNCHANGED <<cpuVars, lockCpu, runs, taskState, spins, savedIntena, ticks>>
  BY <1>1, <1>2 DEF SysSleep, SysReturn, Begin, TimeNotUp, Preempt, At, sleepVars
<1>5. from = "resched" => runs[c] \in Tasks
  BY <1>1 DEF SysSleep, SysReturn, Begin, TimeNotUp, Preempt, At
<1>6. from # "resched" => runs[c] \in Tasks
  BY <1>1, <1>3, Here
<1>7. SpinTypeOK
  BY DEF SpinInv
<1>8. /\ ticks0' \in [Tasks -> 0..MaxTicks] /\ howLong' \in [Tasks -> SleepTimes \cup {0}]
      /\ \A p \in Tasks : p # runs[c] => ticks0'[p] = ticks0[p] /\ howLong'[p] = howLong[p]
  BY <1>5, <1>6, <1>7 DEF SysSleep, SysReturn, Begin, TimeNotUp, Preempt, sleepVars, SpinTypeOK
<1>9. pt \in {"toSleep", "asleep"} => Left(runs[c])' > 0
  <2> SUFFICES ASSUME from = "slept" PROVE Left(runs[c])' > 0
    BY <1>3
  <2>1. TimeNotUp(c)
    BY <1>1 DEF SysSleep, SysReturn, Begin, TimeNotUp, Preempt, At
  <2> QED BY <2>1 DEF TimeNotUp, Left, sleepVars
<1> QED BY <1>1, <1>3, <1>4, <1>5, <1>8, <1>9, SamePlace

LEMMA StartsKeep ==
  ASSUME SpinInv, NEW c \in Cores, SchedulerLoop(c) \/ Trapret(c)
  PROVE  SpinInv'
<1>1. PICK from \in {"loop", "trapret"} : Top(runs[c]) = from
  BY DEF SchedulerLoop, Trapret, At
<1>2. PICK pt \in Points :
        \/ from = "loop" /\ pt = "schedule"
        \/ from = "trapret" /\ pt = "user"
  BY <1>1 DEF Points
<1>3. /\ from \notin DOMAIN LockAt /\ Held(from) = {} /\ Depth(from) = 0 /\ Held(pt) = {} /\ Depth(pt) = 0
      /\ pt \notin InTrap /\ from \notin InTrap
      /\ pt \in InScheduler <=> from \in InScheduler
      /\ pt \notin Yielding \cup AfterSwtch \cup {"tick", "count", "toSleep", "asleep"} /\ from \notin {"tickWakeup", "wake"}
  BY <1>2, LockPoints DEF Held, Locks, Depth, WithPtable, WithTicks, WithBoth, AfterSwtch, InTrap, InScheduler, Yielding
<1>4. /\ Goto(runs[c], pt) /\ intr' = [intr EXCEPT ![c] = TRUE] /\ ncli' = ncli /\ intena' = intena
      /\ lockCpu' = lockCpu /\ runs' = runs /\ taskState' = taskState /\ spins' = spins
      /\ savedIntena' = savedIntena /\ ticks' = ticks /\ ticks0' = ticks0 /\ howLong' = howLong
  BY <1>1, <1>2 DEF SchedulerLoop, Trapret, At, sleepVars
<1>5. CoreAt(c, from) /\ SpinTypeOK
  BY <1>1, Here DEF CoreInv, SpinInv
<1>6. intr' \in [Cores -> BOOLEAN] /\ intr'[c] /\ \A d \in Cores : d # c => intr'[d] = intr[d]
  BY <1>4, <1>5 DEF SpinTypeOK
<1>7. CoreAt(c, pt)'
  BY <1>3, <1>4, <1>5, <1>6 DEF CoreAt
<1> QED BY <1>1, <1>3, <1>4, <1>5, <1>6, <1>7, OneMove DEF SpinTypeOK

LEMMA CountKeeps ==
  ASSUME SpinInv, NEW c \in Cores, Count(c)
  PROVE  SpinInv'
<1>1. Top(runs[c]) = "count" /\ Goto(runs[c], "tickWakeup") /\ ticks' = ticks + 1
  BY DEF Count, At
<1>2. /\ intr' = intr /\ ncli' = ncli /\ intena' = intena /\ lockCpu' = lockCpu /\ runs' = runs /\ taskState' = taskState
      /\ spins' = spins /\ savedIntena' = savedIntena /\ ticks0' = ticks0 /\ howLong' = howLong
  BY DEF Count, cpuVars
<1>3. /\ "count" \notin DOMAIN LockAt /\ Held("count") = {"tickslock"} /\ Depth("count") = 1 /\ Held("tickWakeup") = {"tickslock"}
      /\ Depth("tickWakeup") = 1 /\ "count" \in InTrap /\ "tickWakeup" \in InTrap /\ "tickWakeup" \in Points
      /\ "count" \notin AfterSwtch \cup {"scan"} /\ "tickWakeup" \notin InScheduler \cup InTask \cup Yielding \cup AfterSwtch
  BY LockPoints DEF Held, Locks, Depth, WithPtable, WithTicks, WithBoth, AfterSwtch, InTrap, InForkret, InScheduler, InTask,
     Points, Yielding
<1>4. CoreAt(c, "count") /\ SpinTypeOK /\ runs[c] \in KThreads
  BY <1>1, Here DEF CoreInv, SpinInv
<1>5. /\ kstack' \in [KThreads -> Seq(Points)] /\ \A u \in KThreads : Len(kstack'[u]) \in 1..2
      /\ Top(runs[c])' = "tickWakeup" /\ \A u \in KThreads : u # runs[c] => Top(u)' = Top(u)
      /\ \A u \in KThreads : StackInv(u)'
  <2>1. \A t \in KThreads : t = runs[c] => /\ Top(t) = "count" /\ Goto(t, "tickWakeup")
    BY <1>1
  <2>2. PICK t \in KThreads : t = runs[c]
    BY <1>4
  <2>3. /\ kstack' \in [KThreads -> Seq(Points)] /\ \A u \in KThreads : Len(kstack'[u]) \in 1..2
        /\ Top(t)' = "tickWakeup" /\ \A u \in KThreads : u # t => Top(u)' = Top(u)
        /\ \A u \in KThreads : StackInv(u)'
    BY <1>3, <2>1, <2>2, Moves
  <2> QED BY <1>2, <2>2, <2>3 DEF Top
<1>6. SpinTypeOK'
  <2>1. ticks' \in 0..MaxTicks
    BY <1>1, <1>4, SpinAssumption DEF SpinTypeOK, CoreAt
  <2> QED BY <1>2, <1>4, <1>5, <2>1 DEF SpinTypeOK
<1>7. OnTime'
  BY <1>2, <1>5 DEF OnTime, Top
<1>8. ASSUME NEW d \in Cores \ {c} PROVE Top(runs[d]) \notin {"toSleep", "asleep", "tick", "count"}
  <2>1. CoreAt(d, Top(runs[d])) /\ lockCpu["tickslock"] = c /\ c = Core0
    BY <1>3, <1>4, Here DEF CoreInv, CoreAt, Locks
  <2>2. "tickslock" \notin Held(Top(runs[d])) /\ Top(runs[d]) \notin {"tick", "count"}
    BY <2>1 DEF CoreAt, Locks
  <2> QED BY <2>2 DEF Held, Locks, WithTicks, WithBoth
<1>9. CoreInv(c)'
  <2>1. CoreAt(c, "tickWakeup")'
    BY <1>2, <1>3, <1>4 DEF CoreAt
  <2> QED BY <1>2, <1>5, <2>1 DEF CoreInv
<1>10. Top(runs[c])' \notin AfterSwtch
  BY <1>3, <1>5
<1> QED BY <1>2, <1>5, <1>6, <1>7, <1>8, <1>9, <1>10, OneCore

LEMMA WakeTicksKeeps ==
  ASSUME SpinInv, NEW c \in Cores, WakeTicks(c)
  PROVE  SpinInv'
<1>1. Top(runs[c]) = "wake" /\ Goto(runs[c], "counted") /\ ReleaseWith(c, "ptable", intena)
  BY DEF WakeTicks, At, Release
<1>2. /\ taskState' = [p \in Tasks |-> IF taskState[p] = "SLEEPING" THEN "RUNNABLE" ELSE taskState[p]]
      /\ runs' = runs /\ spins' = spins /\ savedIntena' = savedIntena /\ ticks' = ticks /\ ticks0' = ticks0
      /\ howLong' = howLong
  BY DEF WakeTicks, sleepVars
<1>3. /\ "wake" \notin DOMAIN LockAt /\ Held("wake") = Locks /\ Depth("wake") = 2 /\ Held("counted") = {"tickslock"}
      /\ Depth("counted") = 1 /\ "wake" \in InTrap /\ "counted" \in InTrap /\ "counted" \in Points
      /\ "wake" \notin AfterSwtch \cup {"scan"} /\ "counted" \notin InScheduler \cup InTask \cup Yielding \cup AfterSwtch
  BY LockPoints DEF Held, Locks, Depth, WithPtable, WithTicks, WithBoth, AfterSwtch, InTrap, InForkret, InScheduler, InTask,
     Points, Yielding
<1>4. CoreAt(c, "wake") /\ SpinTypeOK /\ runs[c] \in KThreads
  BY <1>1, Here DEF CoreInv, SpinInv
<1>5. /\ kstack' \in [KThreads -> Seq(Points)] /\ \A u \in KThreads : Len(kstack'[u]) \in 1..2
      /\ Top(runs[c])' = "counted" /\ \A u \in KThreads : u # runs[c] => Top(u)' = Top(u)
      /\ \A u \in KThreads : StackInv(u)'
  <2>1. PICK t \in KThreads : t = runs[c]
    BY <1>4
  <2>2. /\ kstack' \in [KThreads -> Seq(Points)] /\ \A u \in KThreads : Len(kstack'[u]) \in 1..2
        /\ Top(t)' = "counted" /\ \A u \in KThreads : u # t => Top(u)' = Top(u)
        /\ \A u \in KThreads : StackInv(u)'
    BY <1>1, <1>3, <2>1, Moves
  <2> QED BY <1>2, <2>1, <2>2 DEF Top
<1>6. ncli[c] = 2 /\ ~intr[c] /\ ~intena[c] /\ \A l \in Locks : lockCpu[l] = c
  BY <1>3, <1>4 DEF CoreAt
<1>7. /\ lockCpu' = [lockCpu EXCEPT !["ptable"] = Free] /\ ncli' = [ncli EXCEPT ![c] = @ - 1]
      /\ intr' = [intr EXCEPT ![c] = @ \/ (ncli[c] = 1 /\ intena[c])] /\ intena' = intena
  BY <1>1 DEF ReleaseWith, PopCli
<1>8. /\ lockCpu' \in [Locks -> Cores \cup {Free}] /\ lockCpu'["ptable"] = Free /\ lockCpu'["tickslock"] = c
      /\ \A l \in Locks : lockCpu'[l] = lockCpu[l] \/ {lockCpu[l], lockCpu'[l]} \subseteq {c, Free}
  BY <1>4, <1>6, <1>7 DEF SpinTypeOK, Locks
<1>9. /\ ncli' \in [Cores -> 0..2] /\ ncli'[c] = 1 /\ intr' \in [Cores -> BOOLEAN] /\ ~intr'[c]
      /\ \A d \in Cores : d # c => intr'[d] = intr[d] /\ ncli'[d] = ncli[d]
  BY <1>4, <1>6, <1>7 DEF SpinTypeOK
<1>10. SpinTypeOK'
  BY <1>2, <1>4, <1>5, <1>7, <1>8, <1>9 DEF SpinTypeOK
<1>11. OnTime'
  BY <1>2 DEF OnTime
<1>12. CoreInv(c)'
  <2>1. \A l \in Locks : lockCpu'[l] = c <=> l = "tickslock"
    BY <1>8, SpinAssumption DEF Locks
  <2>2. CoreAt(c, "counted")'
    BY <1>2, <1>3, <1>4, <1>6, <1>7, <1>9, <2>1 DEF CoreAt
  <2> QED BY <1>2, <1>5, <2>2 DEF CoreInv
<1>13. Top(runs[c])' \notin AfterSwtch
  BY <1>3, <1>5
<1>14. \A p \in Tasks : taskState'[p] = taskState[p] \/ "RUNNING" \notin {taskState[p], taskState'[p]}
  BY <1>2
<1> QED BY <1>2, <1>5, <1>7, <1>8, <1>9, <1>10, <1>11, <1>12, <1>13, <1>14, OneCore

\* A second point on a stack that holds one.
LEMMA SecondFrame ==
  ASSUME NEW S, NEW q \in Seq(S), NEW x \in S, Len(q) = 1
  PROVE  /\ Append(q, x) \in Seq(S) /\ Len(Append(q, x)) = 2
         /\ Append(q, x)[1] = q[1] /\ Append(q, x)[2] = x
<1>1. 1 \in 1..Len(q) /\ Len(q) + 1 = 2
  OBVIOUS
<1>2. Append(q, x) \in Seq(S) /\ Len(Append(q, x)) = 2
  OBVIOUS
<1>3. Append(q, x)[1] = q[1]
  OBVIOUS
<1>4. Append(q, x)[2] = x
  BY <1>1, AppendProperties
<1> QED BY <1>2, <1>3, <1>4

\* What an interrupt stops holds nothing, and iret finds it as it was.
LEMMA InterruptKeeps ==
  ASSUME SpinInv, NEW c \in Cores, Interrupt(c)
  PROVE  SpinInv'
<1>1. PICK pt \in {"tick", "resched"} : pt = IF c = Core0 THEN "tick" ELSE "resched"
  OBVIOUS
<1>2. PICK t \in KThreads : t = runs[c]
  BY Here
<1>3. /\ kstack' = [kstack EXCEPT ![t] = Append(@, pt)] /\ intr' = [intr EXCEPT ![c] = FALSE] /\ intr[c]
      /\ ncli' = ncli /\ intena' = intena /\ lockCpu' = lockCpu /\ runs' = runs /\ taskState' = taskState
      /\ spins' = spins /\ savedIntena' = savedIntena /\ ticks' = ticks /\ ticks0' = ticks0 /\ howLong' = howLong
      /\ pt = "tick" => c = Core0 /\ ticks < MaxTicks
  BY <1>1, <1>2 DEF Interrupt, sleepVars
<1>4. /\ CoreAt(c, Top(t)) /\ SpinTypeOK /\ StackInv(t) /\ Top(t) \in Points /\ kstack[t] \in Seq(Points)
      /\ Len(kstack[t]) \in 1..2 /\ \A u \in KThreads : StackInv(u)
  BY <1>2, Here DEF CoreInv, SpinInv, SpinTypeOK
<1>5. pt \in InTrap /\ pt \notin Yielding \cup AfterSwtch /\ pt \in Points /\ Held(pt) = {} /\ Depth(pt) = 0
  BY DEF InTrap, Yielding, AfterSwtch, Points, Held, Depth, WithPtable, WithTicks, WithBoth
<1>6. Depth(Top(t)) = 0 /\ t \notin spins /\ ncli[c] = 0
  <2>1. ncli[c] = 0
    <3>1. ~(ncli[c] > 0)
      BY <1>3, <1>4 DEF CoreAt
    <3>2. ncli[c] \in 0..2
      BY <1>4 DEF SpinTypeOK
    <3> QED BY <3>1, <3>2
  <2>2. Depth(Top(t)) \in 0..2
    BY <1>4, PointKinds
  <2> QED BY <1>2, <1>4, <2>1, <2>2 DEF CoreAt
<1>7. Top(t) \notin InTrap
  BY <1>3, <1>4, <1>6 DEF CoreAt, InTrap, InForkret
<1>8. Len(kstack[t]) = 1 /\ Top(t) = kstack[t][1]
  BY <1>4, <1>7 DEF StackInv, Top
<1>9. /\ kstack'[t] \in Seq(Points) /\ Len(kstack'[t]) = 2 /\ kstack'[t][1] = kstack[t][1] /\ kstack'[t][2] = pt
      /\ \A u \in KThreads : u # t => kstack'[u] = kstack[u]
  <2> DEFINE q == kstack[t]
  <2>0. q \in Seq(Points) /\ Len(q) = 1 /\ pt \in Points
    BY <1>4, <1>5, <1>8
  <2> HIDE DEF q
  <2>1. /\ Append(q, pt) \in Seq(Points) /\ Len(Append(q, pt)) = 2
        /\ Append(q, pt)[1] = q[1] /\ Append(q, pt)[2] = pt
    BY <2>0, SecondFrame
  <2>3. kstack'[t] = Append(kstack[t], pt) /\ \A u \in KThreads : u # t => kstack'[u] = kstack[u]
    BY <1>3, <1>4 DEF SpinTypeOK
  <2> QED BY <2>1, <2>3 DEF q
<1>10. Top(t)' = pt /\ \A u \in KThreads : u # t => Top(u)' = Top(u)
  BY <1>9 DEF Top
<1>11. \A u \in KThreads : StackInv(u)'
  <2>1. StackInv(t)'
    BY <1>4, <1>5, <1>6, <1>8, <1>9 DEF StackInv
  <2> QED BY <1>4, <1>9, <2>1 DEF StackInv
<1>12. kstack' \in [KThreads -> Seq(Points)] /\ \A u \in KThreads : Len(kstack'[u]) \in 1..2
  BY <1>3, <1>4, <1>9 DEF SpinTypeOK
<1>13. SpinTypeOK'
  BY <1>3, <1>4, <1>12 DEF SpinTypeOK
<1>14. CoreInv(c)'
  <2>1. /\ \A l \in Locks : lockCpu[l] # c
        /\ ~intr'[c] /\ pt \notin {"count", "toSleep", "asleep"}
    <3>1. Held(Top(t)) = {}
      BY <1>6 DEF Depth, Held, WithPtable, WithTicks, WithBoth
    <3> QED BY <1>3, <1>4, <3>1 DEF CoreAt, SpinTypeOK
  <2>2. CoreAt(c, pt)'
    BY <1>2, <1>3, <1>5, <1>6, <2>1 DEF CoreAt
  <2> QED BY <1>2, <1>3, <1>10, <2>2 DEF CoreInv
<1>15. OnTime'
  <2>1. Top(runs[c]) \notin {"tickWakeup", "wake"}
    BY <1>2, <1>7 DEF InTrap
  <2> QED BY <1>2, <1>3, <1>10, <2>1, StillOnTime
<1>16. \A d \in Cores : d # c => intr'[d] = intr[d]
  BY <1>3, <1>4 DEF SpinTypeOK
<1>17. Top(runs[c])' \notin AfterSwtch
  BY <1>2, <1>3, <1>5, <1>10
<1>18. \A u \in KThreads : StackInv(u)' /\ (u # runs[c] => Top(u)' = Top(u) /\ (u \in spins' <=> u \in spins))
  BY <1>2, <1>3, <1>10, <1>11
<1> QED BY <1>3, <1>13, <1>14, <1>15, <1>16, <1>17, <1>18, OneCore

LEMMA IretKeeps ==
  ASSUME SpinInv, NEW c \in Cores, Iret(c)
  PROVE  SpinInv'
<1>1. PICK t \in KThreads : t = runs[c]
  BY Here
<1>2. /\ kstack' = [kstack EXCEPT ![t] = SubSeq(@, 1, Len(@) - 1)] /\ intr' = [intr EXCEPT ![c] = TRUE]
      /\ Top(t) \in {"irq", "resched"}
      /\ ncli' = ncli /\ intena' = intena /\ lockCpu' = lockCpu /\ runs' = runs /\ taskState' = taskState
      /\ spins' = spins /\ savedIntena' = savedIntena /\ ticks' = ticks /\ ticks0' = ticks0 /\ howLong' = howLong
  BY <1>1 DEF Iret, At, sleepVars
<1>3. /\ CoreAt(c, Top(t)) /\ SpinTypeOK /\ StackInv(t) /\ kstack[t] \in Seq(Points)
      /\ Len(kstack[t]) \in 1..2 /\ \A u \in KThreads : StackInv(u)
  BY <1>1, Here DEF CoreInv, SpinInv, SpinTypeOK
<1>4. Len(kstack[t]) = 2
  <2>1. Top(t) \in InTrap /\ InTrap \cap (InScheduler \cup InTask) = {}
    BY <1>2, PointKinds DEF InTrap
  <2> QED BY <1>3, <2>1 DEF StackInv, Top
<1>5. PICK pt \in Points : pt = kstack[t][1]
  BY <1>3, <1>4
<1>6. Depth(pt) = 0 /\ pt \notin InTrap /\ Held(pt) = {} /\ pt \notin AfterSwtch \cup {"tick", "count", "toSleep", "asleep"}
  <2>1. Depth(pt) = 0 /\ pt \in InScheduler \cup InTask
    BY <1>3, <1>4, <1>5 DEF StackInv
  <2>2. pt \notin InTrap
    BY <2>1, PointKinds
  <2> QED BY <2>1, <2>2 DEF Depth, Held, WithPtable, WithTicks, WithBoth, AfterSwtch, InTrap
<1>7. /\ kstack'[t] \in Seq(Points) /\ Len(kstack'[t]) = 1 /\ kstack'[t][1] = pt
      /\ \A u \in KThreads : u # t => kstack'[u] = kstack[u]
  BY <1>2, <1>3, <1>4, <1>5 DEF SpinTypeOK
<1>8. Top(t)' = pt /\ \A u \in KThreads : u # t => Top(u)' = Top(u)
  BY <1>7 DEF Top
<1>9. \A u \in KThreads : StackInv(u)'
  <2>1. StackInv(t)'
    BY <1>3, <1>4, <1>5, <1>7 DEF StackInv
  <2> QED BY <1>3, <1>7, <2>1 DEF StackInv
<1>10. kstack' \in [KThreads -> Seq(Points)] /\ \A u \in KThreads : Len(kstack'[u]) \in 1..2
  BY <1>2, <1>3, <1>7 DEF SpinTypeOK
<1>11. SpinTypeOK'
  BY <1>2, <1>3, <1>10 DEF SpinTypeOK
<1>12. /\ t \notin spins /\ ncli[c] = 0 /\ \A l \in Locks : lockCpu[l] # c
  <2>1. Top(t) \notin DOMAIN LockAt /\ Held(Top(t)) = {} /\ Depth(Top(t)) = 0
    BY <1>2, LockPoints DEF Depth, Held, WithPtable, WithTicks, WithBoth, AfterSwtch
  <2> QED BY <1>1, <1>3, <2>1 DEF CoreAt
<1>13. CoreInv(c)'
  <2>1. intr'[c]
    BY <1>2, <1>3 DEF SpinTypeOK
  <2>2. CoreAt(c, pt)'
    BY <1>1, <1>2, <1>6, <1>12, <2>1 DEF CoreAt
  <2> QED BY <1>1, <1>2, <1>8, <2>2 DEF CoreInv
<1>14. OnTime'
  BY <1>1, <1>2, <1>8, StillOnTime
<1>15. \A d \in Cores : d # c => intr'[d] = intr[d]
  BY <1>2, <1>3 DEF SpinTypeOK
<1>16. Top(runs[c])' \notin AfterSwtch
  BY <1>1, <1>2, <1>6, <1>8
<1>17. \A u \in KThreads : StackInv(u)' /\ (u # runs[c] => Top(u)' = Top(u) /\ (u \in spins' <=> u \in spins))
  BY <1>1, <1>2, <1>8, <1>9
<1> QED BY <1>2, <1>11, <1>13, <1>14, <1>15, <1>16, <1>17, OneCore

-----------------------------------------------------------------------------
\* The CPU goes to another thread, with ptable.lock.

LEMMA SwitchKeeps ==
  ASSUME SpinInv, NEW c \in Cores, NEW p \in Tasks, Switch(c, p)
  PROVE  SpinInv'
<1>1. /\ Top(runs[c]) = "scan" /\ taskState[p] = "RUNNABLE" /\ runs' = [runs EXCEPT ![c] = p]
      /\ taskState' = [taskState EXCEPT ![p] = "RUNNING"] /\ intr' = intr /\ ncli' = ncli /\ intena' = intena
      /\ lockCpu' = lockCpu /\ kstack' = kstack /\ spins' = spins /\ savedIntena' = savedIntena
      /\ ticks' = ticks /\ ticks0' = ticks0 /\ howLong' = howLong
  BY DEF Switch, At, cpuVars, sleepVars
<1>2. SpinTypeOK /\ SeatInv /\ CoreAt(c, "scan") /\ \A t \in KThreads : StackInv(t) /\ WaitInv(t)
  BY <1>1, Here DEF SpinInv, CoreInv
<1>3. runs[c] = c
  BY <1>1, <1>2, Here, SpinAssumption DEF SeatInv, InScheduler
<1>4. /\ runs'[c] = p /\ \A d \in Cores : d # c => runs'[d] = runs[d]
      /\ \A d \in Cores : runs[d] # p
      /\ p \in KThreads /\ c \in KThreads /\ c # p
  <2>1. p \in KThreads /\ c \in KThreads /\ c # p
    BY SpinAssumption DEF KThreads
  <2>2. runs'[c] = p /\ \A d \in Cores : d # c => runs'[d] = runs[d]
    BY <1>1, <1>2, <2>1 DEF SpinTypeOK
  <2>3. taskState[p] # "RUNNING"
    BY <1>1
  <2>4. \A d \in Cores : runs[d] # p
    BY <1>2, <2>3 DEF SeatInv
  <2> QED BY <2>1, <2>2, <2>4
<1>5. Top(p) \in AfterSwtch /\ p \notin spins
  BY <1>2, <1>4, SpinAssumption DEF WaitInv
<1>6. \A u : Top(u)' = Top(u)
  BY <1>1 DEF Top
<1>7. SpinTypeOK'
  BY <1>1, <1>2, <1>4 DEF SpinTypeOK
<1>8. SeatInv'
  <2>1. \A d \in Cores : runs'[d] \in Tasks \cup {d}
    BY <1>2, <1>4 DEF SeatInv
  <2>2. \A d, e \in Cores : runs'[d] = runs'[e] => d = e
    BY <1>2, <1>4 DEF SeatInv
  <2>3. ASSUME NEW q \in Tasks PROVE taskState'[q] = "RUNNING" <=> \E d \in Cores : runs'[d] = q
    <3>1. CASE q = p
      BY <1>1, <1>2, <1>4, <3>1 DEF SpinTypeOK
    <3>2. CASE q # p
      <4>1. taskState'[q] = taskState[q]
        BY <1>1, <1>2, <3>2 DEF SpinTypeOK
      <4>2. \A d \in Cores : runs'[d] = q <=> runs[d] = q
        BY <1>3, <1>4, <3>2, SpinAssumption
      <4> QED BY <1>2, <4>1, <4>2 DEF SeatInv
    <3> QED BY <3>1, <3>2
  <2> QED BY <2>1, <2>2, <2>3 DEF SeatInv
<1>9. OnTime'
  <2> SUFFICES ASSUME NEW q \in Tasks, taskState'[q] = "SLEEPING", Left(q)' <= 0
               PROVE  \E d \in Cores : Top(runs[d])' \in {"tickWakeup", "wake"}
    BY DEF OnTime
  <2>1. taskState[q] = "SLEEPING" /\ Left(q) <= 0
    BY <1>1, <1>2 DEF Left, SpinTypeOK
  <2>2. PICK d \in Cores : Top(runs[d]) \in {"tickWakeup", "wake"}
    BY <2>1 DEF SpinInv, OnTime
  <2>3. d # c
    BY <1>1, <2>2
  <2>4. Top(runs[d])' = Top(runs[d])
    BY <1>1, <1>4, <2>3 DEF Top
  <2> QED BY <2>2, <2>4
<1>10. \A t \in KThreads : StackInv(t)'
  BY <1>1, <1>2 DEF StackInv
<1>11. ASSUME NEW t \in KThreads PROVE WaitInv(t)'
  <2>1. CASE t = p
    BY <1>4, <2>1 DEF WaitInv
  <2>2. CASE t = c
    <3>1. c \notin spins
      BY <1>2, <1>3, LockPoints DEF CoreAt
    <3> QED BY <1>1, <1>3, <1>6, <2>2, <3>1, SpinAssumption DEF WaitInv
  <2>3. CASE t # p /\ t # c
    <3>1. (\A d \in Cores : runs'[d] # t) => (\A d \in Cores : runs[d] # t)
      BY <1>3, <1>4, <2>3
    <3> QED BY <1>1, <1>2, <1>6, <3>1 DEF WaitInv
  <2> QED BY <2>1, <2>2, <2>3
<1>12. ASSUME NEW q \in Tasks PROVE SavedInv(q)'
  BY <1>1, <1>6 DEF SpinInv, SavedInv
<1>13. ASSUME NEW d \in Cores PROVE CoreInv(d)'
  <2>1. CASE d = c
    <3>1. PICK pt \in AfterSwtch : pt = Top(p)
      BY <1>5
    <3>2. Top(runs[c])' = pt
      BY <1>1, <1>4, <3>1 DEF Top
    <3>3. Held(pt) = Held("scan") /\ Depth(pt) = 1 /\ Depth("scan") = 1
      BY DEF Held, Depth, AfterSwtch, WithPtable, WithTicks, WithBoth
    <3>4. pt \notin {"tick", "count", "toSleep", "asleep"} /\ "scan" \notin DOMAIN LockAt
      BY LockPoints DEF AfterSwtch
    <3>5. CoreAt(c, pt)'
      BY <1>1, <1>2, <1>4, <1>5, <3>3, <3>4 DEF CoreAt
    <3> QED BY <2>1, <3>2, <3>5 DEF CoreInv
  <2>2. CASE d # c
    <3>1. runs'[d] = runs[d] /\ Top(runs[d])' = Top(runs[d])
      BY <1>1, <1>4, <2>2 DEF Top
    <3> QED BY <1>1, <2>2, <3>1, OtherCore
  <2> QED BY <2>1, <2>2
<1> QED BY <1>7, <1>8, <1>9, <1>10, <1>11, <1>12, <1>13 DEF SpinInv

\* sched(), whatever the caller has released before it.
LEMMA SchedKeeps ==
  ASSUME SpinInv, NEW c \in Cores, NEW p \in Tasks, NEW from, NEW back \in {"woken", "yielded"}, NEW state,
         runs[c] = p, Top(p) = from, from \notin {"tickWakeup", "wake"}, p \notin spins,
         back \in InTrap <=> from \in InTrap, Sched(c, p, state, back), state \in {"RUNNABLE", "SLEEPING"},
         state = "SLEEPING" => Left(p) > 0, back = "woken" <=> intena[c],
         UNCHANGED <<spins, sleepVars>>, intena' = intena, intr' \in [Cores -> BOOLEAN], ncli' \in [Cores -> 0..2],
         \A d \in Cores : d # c => intr'[d] = intr[d] /\ ncli'[d] = ncli[d],
         lockCpu' \in [Locks -> Cores \cup {Free}],
         \A l \in Locks : lockCpu'[l] = lockCpu[l] \/ {lockCpu[l], lockCpu'[l]} \subseteq {c, Free},
         \A l \in Locks : lockCpu'[l] = c <=> l = "ptable", ncli'[c] = 1, ~intr'[c]
  PROVE  SpinInv'
<1>1. /\ taskState' = [taskState EXCEPT ![p] = state] /\ savedIntena' = [savedIntena EXCEPT ![p] = intena[c]]
      /\ runs' = [runs EXCEPT ![c] = c] /\ Goto(p, back) /\ spins' = spins /\ ticks' = ticks /\ ticks0' = ticks0
      /\ howLong' = howLong
  BY DEF Sched, sleepVars
<1>2. SpinTypeOK /\ SeatInv /\ \A t \in KThreads : StackInv(t) /\ WaitInv(t)
  BY DEF SpinInv
<1>3. /\ runs'[c] = c /\ \A d \in Cores : d # c => runs'[d] = runs[d]
      /\ c \in KThreads /\ p \in KThreads /\ c # p
      /\ \A d \in Cores : runs[d] # c
  BY <1>1, <1>2, SpinAssumption DEF SeatInv, SpinTypeOK, KThreads
<1>4. Top(c) = "scan" /\ c \notin spins
  BY <1>2, <1>3 DEF WaitInv
<1>5. /\ back \in Points /\ back \in AfterSwtch /\ back \notin InScheduler
      /\ back \in InTask => p \in Tasks
      /\ "scan" \in Points
  BY DEF Points, InTrap, AfterSwtch, InScheduler
<1>6. /\ kstack' \in [KThreads -> Seq(Points)] /\ \A u \in KThreads : Len(kstack'[u]) \in 1..2
      /\ Top(p)' = back /\ \A u \in KThreads : u # p => Top(u)' = Top(u)
      /\ \A u \in KThreads : StackInv(u)'
  BY <1>1, <1>3, <1>5, Moves
<1>7. SpinTypeOK'
  <2>1. savedIntena' \in [Tasks -> BOOLEAN] /\ runs' \in [Cores -> KThreads]
    BY <1>1, <1>2, <1>3 DEF SpinTypeOK
  <2> QED BY <1>1, <1>2, <1>6, <2>1 DEF SpinTypeOK
<1>8. SeatInv'
  <2>1. \A d \in Cores : runs'[d] \in Tasks \cup {d}
    BY <1>2, <1>3 DEF SeatInv
  <2>2. \A d, e \in Cores : runs'[d] = runs'[e] => d = e
    BY <1>2, <1>3 DEF SeatInv
  <2>3. ASSUME NEW q \in Tasks PROVE taskState'[q] = "RUNNING" <=> \E d \in Cores : runs'[d] = q
    <3>1. CASE q = p
      <4>1. taskState'[q] # "RUNNING"
        BY <1>1, <1>2, <3>1 DEF SpinTypeOK
      <4>2. \A d \in Cores : runs'[d] # q
        BY <1>2, <1>3, <3>1 DEF SeatInv
      <4> QED BY <4>1, <4>2
    <3>2. CASE q # p
      <4>1. taskState'[q] = taskState[q]
        BY <1>1, <1>2, <3>2 DEF SpinTypeOK
      <4>2. \A d \in Cores : runs'[d] = q <=> runs[d] = q
        BY <1>3, <3>2, SpinAssumption
      <4> QED BY <1>2, <4>1, <4>2 DEF SeatInv
    <3> QED BY <3>1, <3>2
  <2> QED BY <2>1, <2>2, <2>3 DEF SeatInv
<1>9. OnTime'
  <2> SUFFICES ASSUME NEW q \in Tasks, taskState'[q] = "SLEEPING", Left(q)' <= 0
               PROVE  \E d \in Cores : Top(runs[d])' \in {"tickWakeup", "wake"}
    BY DEF OnTime
  <2>1. Left(q) <= 0
    BY <1>1 DEF Left
  <2>2. q # p
    <3> SUFFICES ASSUME q = p PROVE FALSE
      OBVIOUS
    <3>1. taskState'[p] = state
      BY <1>1, <1>2 DEF SpinTypeOK
    <3>2. Left(p) \in Int
      <4>1. howLong[p] \in SleepTimes \cup {0} /\ ticks \in 0..MaxTicks /\ ticks0[p] \in 0..MaxTicks
        BY <1>2 DEF SpinTypeOK
      <4>2. howLong[p] \in Int
        <5>1. \A n \in SleepTimes : n \in Nat
          BY SpinAssumption
        <5> QED BY <4>1, <5>1
      <4>3. ticks - ticks0[p] \in Int
        BY <4>1, SpinAssumption
      <4> QED BY <4>2, <4>3 DEF Left
    <3> QED BY <2>1, <3>1, <3>2
  <2>3. taskState[q] = "SLEEPING"
    BY <1>1, <1>2, <2>2 DEF SpinTypeOK
  <2>4. PICK d \in Cores : Top(runs[d]) \in {"tickWakeup", "wake"}
    BY <2>1, <2>3 DEF SpinInv, OnTime
  <2>5. d # c /\ runs[d] # p /\ runs[d] \in KThreads
    BY <1>2, <2>4, Here DEF SeatInv
  <2>6. Top(runs[d])' = Top(runs[d])
    BY <1>3, <1>6, <2>5 DEF Top
  <2> QED BY <2>4, <2>6
<1>10. ASSUME NEW t \in KThreads PROVE WaitInv(t)'
  <2>1. CASE t = c
    BY <1>3, <2>1 DEF WaitInv
  <2>2. CASE t = p
    BY <1>1, <1>5, <1>6, <2>2, SpinAssumption DEF WaitInv
  <2>3. CASE t # p /\ t # c
    <3>1. (\A d \in Cores : runs'[d] # t) => (\A d \in Cores : runs[d] # t)
      BY <1>3, <2>3
    <3> QED BY <1>1, <1>2, <1>6, <2>3, <3>1 DEF WaitInv
  <2> QED BY <2>1, <2>2, <2>3
<1>11. ASSUME NEW q \in Tasks PROVE SavedInv(q)'
  <2>1. CASE q = p
    <3>1. savedIntena'[p] = intena[c]
      BY <1>1, <1>2 DEF SpinTypeOK
    <3> QED BY <1>6, <2>1, <3>1 DEF SavedInv
  <2>2. CASE q # p
    <3>1. savedIntena'[q] = savedIntena[q] /\ Top(q)' = Top(q)
      BY <1>1, <1>2, <1>6, <2>2 DEF SpinTypeOK, KThreads
    <3> QED BY <3>1 DEF SpinInv, SavedInv
  <2> QED BY <2>1, <2>2
<1>12. ASSUME NEW d \in Cores PROVE CoreInv(d)'
  <2>1. CASE d = c
    <3>1. Top(runs[c])' = "scan"
      BY <1>3, <1>4, <1>6 DEF Top
    <3>2. Held("scan") = {"ptable"} /\ Depth("scan") = 1 /\ "scan" \notin InTrap
      BY DEF Held, Locks, Depth, AfterSwtch, WithPtable, WithTicks, WithBoth, InTrap
    <3>3. CoreAt(c, "scan")'
      BY <1>1, <1>3, <1>4, <3>2 DEF CoreAt, Locks
    <3> QED BY <2>1, <3>1, <3>3 DEF CoreInv
  <2>2. CASE d # c
    <3>1. runs[d] # p /\ runs[d] \in KThreads
      BY <1>2, <2>2, Here DEF SeatInv
    <3>2. runs'[d] = runs[d] /\ Top(runs[d])' = Top(runs[d])
      BY <1>3, <1>6, <2>2, <3>1 DEF Top
    <3> QED BY <1>1, <2>2, <3>2, OtherCore
  <2> QED BY <2>1, <2>2
<1> QED BY <1>6, <1>7, <1>8, <1>9, <1>10, <1>11, <1>12 DEF SpinInv

LEMMA SleepKeeps ==
  ASSUME SpinInv, NEW c \in Cores, Sleep(c)
  PROVE  SpinInv'
<1>1. /\ Top(runs[c]) = "asleep" /\ ReleaseWith(c, "tickslock", intena) /\ Sched(c, runs[c], "SLEEPING", "woken")
      /\ UNCHANGED <<spins, sleepVars>>
  BY DEF Sleep, At, Release
<1>2. PICK p \in Tasks : p = runs[c]
  BY <1>1, Here DEF InTask, Points, InTrap, InScheduler
<1>3. CoreAt(c, "asleep") /\ SpinTypeOK
  BY <1>1, Here DEF CoreInv, SpinInv
<1>4. /\ "asleep" \notin DOMAIN LockAt /\ Held("asleep") = Locks /\ Depth("asleep") = 2 /\ "asleep" \notin InTrap
      /\ "woken" \notin InTrap /\ "asleep" \notin AfterSwtch \cup {"scan"}
  BY LockPoints DEF Held, Locks, Depth, WithBoth, InTrap, AfterSwtch
<1>5. runs[c] \notin spins /\ ncli[c] = 2 /\ ~intr[c] /\ intena[c] /\ Left(runs[c]) > 0 /\ \A l \in Locks : lockCpu[l] = c
  BY <1>3, <1>4 DEF CoreAt
<1>6. /\ lockCpu' = [lockCpu EXCEPT !["tickslock"] = Free] /\ ncli' = [ncli EXCEPT ![c] = @ - 1]
      /\ intr' = [intr EXCEPT ![c] = @ \/ (ncli[c] = 1 /\ intena[c])] /\ intena' = intena
  BY <1>1 DEF ReleaseWith, PopCli
<1>7. /\ lockCpu' \in [Locks -> Cores \cup {Free}] /\ lockCpu'["ptable"] = c /\ lockCpu'["tickslock"] = Free
      /\ \A l \in Locks : lockCpu'[l] = lockCpu[l] \/ {lockCpu[l], lockCpu'[l]} \subseteq {c, Free}
  BY <1>3, <1>5, <1>6 DEF SpinTypeOK, Locks
<1>8. /\ ncli' \in [Cores -> 0..2] /\ ncli'[c] = 1 /\ intr' \in [Cores -> BOOLEAN] /\ ~intr'[c]
      /\ \A d \in Cores : d # c => intr'[d] = intr[d] /\ ncli'[d] = ncli[d]
  BY <1>3, <1>5, <1>6 DEF SpinTypeOK
<1>9. \A l \in Locks : lockCpu'[l] = c <=> l = "ptable"
  BY <1>7, SpinAssumption DEF Locks
<1> QED BY <1>1, <1>2, <1>4, <1>5, <1>6, <1>7, <1>8, <1>9, SchedKeeps

LEMMA GiveUpKeeps ==
  ASSUME SpinInv, NEW c \in Cores, GiveUp(c)
  PROVE  SpinInv'
<1>1. /\ Top(runs[c]) = "giveUp" /\ Sched(c, runs[c], "RUNNABLE", "yielded") /\ intr' = intr /\ ncli' = ncli
      /\ intena' = intena /\ lockCpu' = lockCpu /\ UNCHANGED <<spins, sleepVars>>
  BY DEF GiveUp, At, cpuVars
<1>2. PICK p \in Tasks : p = runs[c]
  BY <1>1, Here DEF Yielding
<1>3. CoreAt(c, "giveUp") /\ SpinTypeOK
  BY <1>1, Here DEF CoreInv, SpinInv
<1>4. /\ "giveUp" \notin DOMAIN LockAt /\ Held("giveUp") = {"ptable"} /\ Depth("giveUp") = 1 /\ "giveUp" \in InTrap
      /\ "yielded" \in InTrap /\ "giveUp" \notin AfterSwtch \cup {"scan"}
  BY LockPoints DEF Held, Locks, Depth, WithPtable, WithTicks, WithBoth, InTrap, AfterSwtch
<1>5. runs[c] \notin spins /\ ncli[c] = 1 /\ ~intr[c] /\ ~intena[c] /\ \A l \in Locks : lockCpu[l] = c <=> l = "ptable"
  BY <1>3, <1>4 DEF CoreAt
<1> QED BY <1>1, <1>2, <1>3, <1>4, <1>5, SchedKeeps DEF SpinTypeOK

-----------------------------------------------------------------------------
LEMMA SpinInvInit == SpinInit => SpinInv
<1> SUFFICES ASSUME SpinInit PROVE SpinInv
  OBVIOUS
<1>1. /\ Cores \subseteq KThreads /\ Tasks \subseteq KThreads /\ \A t \in KThreads : t \in Cores \/ t \in Tasks
      /\ \A p \in Tasks : p \notin Cores
      /\ {"loop", "forkret"} \subseteq Points
  BY SpinAssumption DEF KThreads, Points, InForkret
<1>2. /\ kstack \in [KThreads -> Seq(Points)] /\ \A t \in KThreads : Len(kstack[t]) = 1
      /\ \A c \in Cores : kstack[c][1] = "loop" /\ Top(c) = "loop"
      /\ \A p \in Tasks : kstack[p][1] = "forkret" /\ Top(p) = "forkret"
  BY <1>1 DEF SpinInit, Top
<1>3. SpinTypeOK
  <2>1. lockCpu \in [Locks -> Cores \cup {Free}] /\ runs \in [Cores -> KThreads]
    BY <1>1 DEF SpinInit
  <2>2. ncli \in [Cores -> 0..2] /\ ticks \in 0..MaxTicks /\ ticks0 \in [Tasks -> 0..MaxTicks]
    BY SpinAssumption DEF SpinInit
  <2> QED BY <1>2, <2>1, <2>2 DEF SpinInit, SpinTypeOK
<1>4. SeatInv
  BY <1>1 DEF SpinInit, SeatInv
<1>5. OnTime
  BY DEF SpinInit, OnTime
<1>6. ASSUME NEW t \in KThreads PROVE StackInv(t)
  BY <1>1, <1>2 DEF StackInv, InScheduler, InTask, InTrap, Points, InForkret
<1>7. ASSUME NEW t \in KThreads PROVE WaitInv(t)
  <2>1. CASE t \in Cores
    BY <2>1 DEF SpinInit, WaitInv
  <2>2. CASE t \in Tasks
    BY <1>1, <1>2, <2>2 DEF SpinInit, WaitInv, AfterSwtch
  <2> QED BY <1>1, <2>1, <2>2
<1>8. ASSUME NEW p \in Tasks PROVE SavedInv(p)
  BY <1>2 DEF SavedInv
<1>9. ASSUME NEW c \in Cores PROVE CoreInv(c)
  <2>1. Held("loop") = {} /\ Depth("loop") = 0
    BY DEF Held, Depth, WithPtable, WithTicks, WithBoth, AfterSwtch
  <2>2. \A l \in Locks : lockCpu[l] # c
    BY SpinAssumption DEF SpinInit
  <2>3. CoreAt(c, "loop")
    BY <2>1, <2>2 DEF CoreAt, SpinInit
  <2>4. runs[c] = c
    BY DEF SpinInit
  <2> QED BY <1>2, <2>3, <2>4 DEF CoreInv
<1> QED BY <1>3, <1>4, <1>5, <1>6, <1>7, <1>8, <1>9 DEF SpinInv

LEMMA SpinInvStutters == SpinInv /\ UNCHANGED spinVars => SpinInv'
<1> SUFFICES ASSUME SpinInv, UNCHANGED spinVars PROVE SpinInv'
  OBVIOUS
<1>1. /\ intr' = intr /\ ncli' = ncli /\ intena' = intena /\ lockCpu' = lockCpu /\ runs' = runs
      /\ taskState' = taskState /\ kstack' = kstack /\ spins' = spins /\ savedIntena' = savedIntena
      /\ ticks' = ticks /\ ticks0' = ticks0 /\ howLong' = howLong
  BY DEF spinVars, cpuVars, sleepVars
<1>2. SpinTypeOK' /\ SeatInv'
  BY <1>1 DEF SpinInv, SpinTypeOK, SeatInv
<1>3. OnTime'
  BY <1>1 DEF SpinInv, OnTime, Top, Left
<1>4. \A t \in KThreads : StackInv(t)' /\ WaitInv(t)'
  BY <1>1 DEF SpinInv, StackInv, WaitInv, Top
<1>5. \A p \in Tasks : SavedInv(p)'
  BY <1>1 DEF SpinInv, SavedInv, Top
<1>6. \A c \in Cores : CoreInv(c)'
  BY <1>1 DEF SpinInv, CoreInv, CoreAt, Top, Left
<1> QED BY <1>2, <1>3, <1>4, <1>5, <1>6 DEF SpinInv

LEMMA SpinInvStep == SpinInv /\ [SpinNext]_spinVars => SpinInv'
<1> SUFFICES ASSUME SpinInv, [SpinNext]_spinVars PROVE SpinInv'
  OBVIOUS
<1>1. CASE UNCHANGED spinVars
  BY <1>1, SpinInvStutters
<1>2. CASE SpinNext
  <2>1. PICK c \in Cores :
          \/ Acquire(c) \/ Xchg(c)
          \/ SchedulerLoop(c) \/ EndOfPass(c) \/ \E p \in Tasks : Switch(c, p)
          \/ Forkret(c) \/ Trapret(c)
          \/ \E n \in SleepTimes : SysSleep(c, n)
          \/ Begin(c) \/ TimeNotUp(c) \/ TimeUp(c) \/ Sleep(c) \/ Woken(c) \/ SysReturn(c)
          \/ Interrupt(c) \/ Count(c) \/ WakeTicks(c) \/ Counted(c)
          \/ Preempt(c) \/ GiveUp(c) \/ Yielded(c) \/ Iret(c)
    BY <1>2 DEF SpinNext
  <2>2. CASE Acquire(c) \/ Xchg(c)
    BY <2>2, AcquireKeeps, XchgKeeps
  <2>3. CASE SchedulerLoop(c) \/ Trapret(c)
    BY <2>3, StartsKeep
  <2>4. CASE EndOfPass(c) \/ Forkret(c) \/ TimeUp(c) \/ Woken(c) \/ Counted(c) \/ Yielded(c)
    BY <2>4, ReleasesKeep
  <2>5. CASE \E p \in Tasks : Switch(c, p)
    BY <2>5, SwitchKeeps
  <2>6. CASE (\E n \in SleepTimes : SysSleep(c, n)) \/ SysReturn(c) \/ Begin(c) \/ TimeNotUp(c) \/ Preempt(c)
    BY <2>6, PlacesKeep
  <2>7. CASE Sleep(c) \/ GiveUp(c)
    BY <2>7, SleepKeeps, GiveUpKeeps
  <2>8. CASE Interrupt(c) \/ Iret(c)
    BY <2>8, InterruptKeeps, IretKeeps
  <2>9. CASE Count(c) \/ WakeTicks(c)
    BY <2>9, CountKeeps, WakeTicksKeeps
  <2> QED BY <2>1, <2>2, <2>3, <2>4, <2>5, <2>6, <2>7, <2>8, <2>9
<1> QED BY <1>1, <1>2

LEMMA SpinInvAlways == SpinSpec => []SpinInv
BY SpinInvInit, SpinInvStep, PTL DEF SpinSpec

-----------------------------------------------------------------------------
\* A CPU that spins for a lock another CPU holds.  Only tickslock is held while a
\* CPU spins, and then for ptable.lock; who holds ptable.lock does not spin.
LEMMA OneLockOrder ==
  ASSUME SpinInv, NEW c \in Cores, NEW d \in Cores, SpinsFor(c) = d
  PROVE  \/ SpinsFor(d) = Free
         \/ \E e \in Cores : SpinsFor(d) = e /\ lockCpu["ptable"] = e /\ SpinsFor(e) = Free
<1>1. \A k \in Cores : InLoop(k) => Top(runs[k]) \in DOMAIN LockAt /\ "ptable" \notin Held(Top(runs[k]))
  BY LockPoints DEF InLoop, Held, WithPtable, WithBoth, AfterSwtch
<1>2. \A k \in Cores : InLoop(k) => lockCpu["ptable"] # k
  BY <1>1, Here DEF CoreInv, CoreAt, Locks
<1>3. \A k \in Cores : lockCpu["ptable"] = k => SpinsFor(k) = Free
  BY <1>2 DEF SpinsFor
<1>4. CASE ~InLoop(d)
  BY <1>4 DEF SpinsFor
<1>5. CASE InLoop(d)
  <2>1. InLoop(c) /\ lockCpu[LockAt[Top(runs[c])]] = d
    BY SpinAssumption DEF SpinsFor
  <2>2. LockAt[Top(runs[c])] = "tickslock" /\ lockCpu["tickslock"] = d
    BY <1>1, <1>2, <1>5, <2>1, LockPoints
  <2>3. "tickslock" \in Held(Top(runs[d]))
    BY <2>2, Here DEF CoreInv, CoreAt, Locks
  <2>4. LockAt[Top(runs[d])] = "ptable"
    BY <1>1, <1>5, <2>3, LockPoints DEF Held, WithTicks, WithBoth
  <2>5. SpinsFor(d) = lockCpu["ptable"] /\ lockCpu["ptable"] \in Cores \cup {Free}
    BY <1>5, <2>4 DEF SpinsFor, SpinInv, SpinTypeOK, Locks
  <2> QED BY <1>3, <2>5
<1> QED BY <1>4, <1>5

LEMMA SpinsEndHolds == SpinInv => SpinsEnd
<1> SUFFICES ASSUME SpinInv, NEW stuck \in (SUBSET Cores) \ {{}}, \A c \in stuck : SpinsFor(c) \in stuck
             PROVE  FALSE
  BY DEF SpinsEnd
<1>1. Free \notin stuck
  BY SpinAssumption
<1>2. PICK c \in stuck : SpinsFor(c) \in stuck
  OBVIOUS
<1>3. PICK d \in stuck : SpinsFor(c) = d
  BY <1>2
<1>4. SpinsFor(d) \in stuck
  BY <1>3
<1>5. PICK e \in Cores : SpinsFor(d) = e /\ SpinsFor(e) = Free
  BY <1>1, <1>3, <1>4, OneLockOrder
<1>6. e \in stuck
  BY <1>4, <1>5
<1> QED BY <1>1, <1>5, <1>6

\* Interrupts, locks, stacks and times have the values spinlock.c, proc.c and sysproc.c give them.
THEOREM SpinTypesHold == SpinSpec => []SpinTypeOK
<1>1. SpinInv => SpinTypeOK
  BY DEF SpinInv
<1> QED BY <1>1, SpinInvAlways, PTL

\* On any number of CPUs, none spins for ever: no circle of CPUs that wait for each
\* other's spin locks, nor a CPU for its own (spinlock.c:27, proc.c:434-437).
THEOREM CpusNeverStuck == SpinSpec => []SpinsEnd
BY SpinsEndHolds, SpinInvAlways, PTL

\* Whoever took a CPU over in between, a thread leaves its last spin lock with
\* interrupts as they were before its first (proc.c:359-363).
THEOREM InterruptsRestored == SpinSpec => []IntenaKept
<1>1. SpinInv => IntenaKept
  BY DEF SpinInv, IntenaKept, CoreInv, CoreAt
<1> QED BY <1>1, SpinInvAlways, PTL

\* The tick that ends a sleep finds the sleeper, for any CPUs, sleepers and times
\* (proc.c:428-440, trap.c:52-55).
THEOREM SleepersOnTime == SpinSpec => []OnTime
<1>1. SpinInv => OnTime
  BY DEF SpinInv
<1> QED BY <1>1, SpinInvAlways, PTL

-----------------------------------------------------------------------------
\* The console: the counters and the ring.

Buffer == [buf : [0..(INPUTBUF - 1) -> Kept], r : 0..(COUNT - 1), w : 0..(COUNT - 1), e : 0..(COUNT - 1)]

\* A counter's place in the ring.
Place(i) == Wrap(i, INPUTBUF)

\* What lies in the ring b from the counter `from` up to the counter `to`.
Between(b, from, to) == [i \in 1..Diff(to, from) |-> b.buf[Plus(from, i - 1) % INPUTBUF]]

LEMMA ConsoleNumbers ==
  /\ INPUTBUF \in Nat \ {0} /\ COUNT \in Nat \ {0} /\ COUNT \in Int
  /\ Wrap(COUNT, INPUTBUF) = 0 /\ COUNT > INPUTBUF
BY ConsoleAssumption DEF Wrap

LEMMA PlaceRange == ASSUME NEW i \in Int PROVE Place(i) \in 0..(INPUTBUF - 1)
BY ConsoleNumbers, Division DEF Place, Wrap

\* Counters that a whole number of turns separates have the same place.
LEMMA SameRingCell ==
  ASSUME NEW a \in Int, NEW b \in Int, Turns(a, b, COUNT)
  PROVE  Place(a) = Place(b)
<1>1. /\ INPUTBUF \in Nat \ {0} /\ COUNT \in Int /\ Wrap(COUNT, INPUTBUF) = 0
      /\ a \in Int /\ b \in Int /\ Turns(a, b, COUNT)
  BY ConsoleNumbers
<1>2. Wrap(a, INPUTBUF) = Wrap(b, INPUTBUF)
  BY <1>1, SamePosition
<1> QED BY <1>2 DEF Place

LEMMA PlusPlace ==
  ASSUME NEW i \in Int, NEW j \in Int, NEW k \in Int
  PROVE  Plus(i, j) \in 0..(COUNT - 1) /\ Place(Plus(i, j) + k) = Place(i + j + k)
<1> DEFINE n == i + j  m == n % COUNT
<1>1. n \in Int
  OBVIOUS
<1> HIDE DEF n
<1>2. m \in 0..(COUNT - 1) /\ \E q \in Int : n = COUNT * q + m
  BY <1>1, ConsoleNumbers, Division
<1>3. PICK q \in Int : n = COUNT * q + m
  BY <1>2
<1> HIDE DEF m
<1>4. COUNT * q \in Int /\ COUNT * (-q) = 0 - COUNT * q /\ -q \in Int
  BY ConsoleNumbers
<1>5. m + k = (n + k) + COUNT * (-q)
  BY <1>1, <1>2, <1>3, <1>4
<1> DEFINE a == m + k  b == n + k
<1>6. a \in Int /\ b \in Int /\ Turns(a, b, COUNT)
  <2>1. m + k \in Int /\ n + k \in Int
    BY <1>1, <1>2
  <2> QED BY <1>4, <1>5, <2>1 DEF Turns
<1> HIDE DEF a, b
<1>7. Place(a) = Place(b)
  <2>1. Wrap(a, INPUTBUF) = Wrap(b, INPUTBUF)
    BY <1>6, ConsoleNumbers, SamePosition
  <2> QED BY <2>1 DEF Place
<1>8. Plus(i, j) = m
  BY DEF Plus, m, n
<1>9. n + k = i + j + k
  BY DEF n
<1> QED BY <1>2, <1>7, <1>8, <1>9 DEF a, b

\* Places less than a turn of the ring apart differ.
LEMMA PlacesApart ==
  ASSUME NEW a \in Int, NEW b \in Int, Place(a) = Place(b), a - b < INPUTBUF, b - a < INPUTBUF
  PROVE  a = b
BY ConsoleNumbers, Apart DEF Place

\* From one counter to another.
LEMMA DiffIs ==
  ASSUME NEW i \in Int, NEW j \in Int
  PROVE  /\ Diff(i, j) \in 0..(COUNT - 1) /\ Diff(i, j) \in Nat /\ Diff(i, j) = Wrap(i - j, COUNT)
         /\ \A k \in Int : Place(i + k) = Place(j + Diff(i, j) + k)
<1>0. i \in Int /\ j \in Int /\ COUNT \in Nat \ {0}
  BY ConsoleNumbers
<1>1. Diff(i, j) = Wrap(i - j, COUNT)
  BY DEF Diff, Wrap
<1>2. Wrap(i - j, COUNT) \in 0..(COUNT - 1) /\ \E q \in Int : i = (j + Wrap(i - j, COUNT)) + COUNT * q
  BY ONLY <1>0, Behind
<1> DEFINE d == Diff(i, j)
<1> HIDE DEF d
<1>3. d \in 0..(COUNT - 1) /\ \E q \in Int : i = (j + d) + COUNT * q
  BY <1>1, <1>2 DEF d
<1>4. PICK q \in Int : i = (j + d) + COUNT * q
  BY <1>3
<1>5. d \in Nat
  BY <1>3, ConsoleNumbers
<1>6. ASSUME NEW k \in Int PROVE Place(i + k) = Place(j + d + k)
  <2> DEFINE a == i + k  b == j + d + k
  <2>1. COUNT * q \in Int
    BY ConsoleNumbers
  <2>2. a = b + COUNT * q /\ a \in Int /\ b \in Int
    BY <1>4, <1>5, <2>1
  <2>3. Turns(a, b, COUNT)
    BY <2>2 DEF Turns
  <2> HIDE DEF a, b
  <2>4. Place(a) = Place(b)
    BY <2>2, <2>3, SameRingCell
  <2> QED BY <2>4 DEF a, b
<1> QED BY <1>1, <1>3, <1>5, <1>6 DEF d

LEMMA DiffSum ==
  ASSUME NEW i \in Int, NEW j \in Int, NEW k \in Int, Diff(i, j) + Diff(j, k) < COUNT
  PROVE  Diff(i, k) = Diff(i, j) + Diff(j, k)
<1>0. i \in Int /\ j \in Int /\ k \in Int /\ COUNT \in Nat \ {0}
  BY ConsoleNumbers
<1> DEFINE a == Diff(i, j)  b == Diff(j, k)
<1>1. a = Wrap(i - j, COUNT) /\ b = Wrap(j - k, COUNT) /\ a \in Nat /\ b \in Nat
  BY DiffIs
<1>2. \E q \in Int : i = (j + Wrap(i - j, COUNT)) + COUNT * q
  BY ONLY <1>0, Behind
<1>3. \E q \in Int : j = (k + Wrap(j - k, COUNT)) + COUNT * q
  BY ONLY <1>0, Behind
<1>4. Diff(i, k) = (i - k) % COUNT
  BY DEF Diff
<1>5. a + b < COUNT
  OBVIOUS
<1> HIDE DEF a, b
<1>6. PICK q \in Int : i = (j + a) + COUNT * q
  BY <1>1, <1>2
<1>7. PICK p \in Int : j = (k + b) + COUNT * p
  BY <1>1, <1>3
<1>8. COUNT * (q + p) = COUNT * q + COUNT * p /\ COUNT * q \in Int /\ COUNT * p \in Int /\ q + p \in Int
  BY ConsoleNumbers
<1>9. i - k = COUNT * (q + p) + (a + b)
  BY <1>1, <1>6, <1>7, <1>8
<1>10. a + b \in 0..(COUNT - 1) /\ i - k \in Int
  BY <1>1, <1>5, ConsoleNumbers
<1>11. (i - k) % COUNT = a + b
  BY <1>8, <1>9, <1>10, ConsoleNumbers, Remainder
<1> QED BY <1>4, <1>11 DEF a, b

LEMMA DiffAhead ==
  ASSUME NEW i \in Int, NEW j \in Int, NEW k \in Int, Diff(i, j) + k \in 0..(COUNT - 1)
  PROVE  Diff(Plus(i, k), j) = Diff(i, j) + k
<1>0. i \in Int /\ j \in Int /\ k \in Int /\ COUNT \in Nat \ {0}
  BY ConsoleNumbers
<1>1. Wrap(i - j, COUNT) + k \in 0..(COUNT - 1)
  BY DiffIs
<1>2. Wrap(Wrap(i + k, COUNT) - j, COUNT) = Wrap(i - j, COUNT) + k
  BY ONLY <1>0, <1>1, Ahead, Zenon
<1> QED BY <1>2 DEF Diff, Plus, Wrap

LEMMA DiffBehind ==
  ASSUME NEW i \in Int, NEW j \in Int, NEW k \in Int, Diff(i, j) - k \in 0..(COUNT - 1)
  PROVE  Diff(i, Plus(j, k)) = Diff(i, j) - k
<1>0. i \in Int /\ j \in Int /\ k \in Int /\ COUNT \in Nat \ {0}
  BY ConsoleNumbers
<1>1. Wrap(i - j, COUNT) - k \in 0..(COUNT - 1)
  BY DiffIs
<1>2. Wrap(i - Wrap(j + k, COUNT), COUNT) = Wrap(i - j, COUNT) - k
  BY ONLY <1>0, <1>1, CatchUp, ZenonT(30)
<1> QED BY <1>2 DEF Diff, Plus, Wrap

\* What is between two counters, as a sequence.
LEMMA BetweenIs ==
  ASSUME NEW b \in Buffer, NEW from \in 0..(COUNT - 1), NEW to \in 0..(COUNT - 1)
  PROVE  /\ Between(b, from, to) \in Seq(Kept)
         /\ Len(Between(b, from, to)) = Diff(to, from)
         /\ \A i \in 1..Diff(to, from) : Between(b, from, to)[i] = b.buf[Place(from + i - 1)]
<1> DEFINE d == Diff(to, from)
<1>0. from \in Int /\ to \in Int
  BY ConsoleNumbers
<1>1. d \in Nat
  BY <1>0, DiffIs
<1> HIDE DEF d
<1>2. ASSUME NEW i \in 1..d
      PROVE  Plus(from, i - 1) % INPUTBUF = Place(from + i - 1) /\ b.buf[Place(from + i - 1)] \in Kept
  <2>1. i \in Int /\ i - 1 \in Int
    BY <1>1
  <2>2. Plus(from, i - 1) \in 0..(COUNT - 1) /\ Place(Plus(from, i - 1) + 0) = Place(from + (i - 1) + 0)
    BY <1>0, <2>1, PlusPlace, 0 \in Int
  <2>3. Plus(from, i - 1) + 0 = Plus(from, i - 1) /\ from + (i - 1) + 0 = from + i - 1
    BY <1>0, <2>1, <2>2
  <2>4. Place(from + i - 1) \in 0..(INPUTBUF - 1)
    BY <1>0, <2>1, PlaceRange
  <2>5. b.buf \in [0..(INPUTBUF - 1) -> Kept]
    BY DEF Buffer
  <2>6. Plus(from, i - 1) % INPUTBUF = Place(Plus(from, i - 1))
    BY DEF Place, Wrap
  <2>7. b.buf[Place(from + i - 1)] \in Kept
    BY <2>4, <2>5
  <2> QED BY <2>2, <2>3, <2>6, <2>7
<1> DEFINE s == [i \in 1..d |-> b.buf[Place(from + i - 1)]]
<1>3. Between(b, from, to) = s
  BY <1>2 DEF Between, d
<1>4. s \in [1..d -> Kept]
  BY <1>2
<1>5. \A i \in 1..d : s[i] = b.buf[Place(from + i - 1)]
  OBVIOUS
<1> HIDE DEF s
<1>6. s \in Seq(Kept)
  BY <1>1, <1>4, SeqDef
<1>7. Len(s) = d
  BY <1>1, <1>4, <1>6, LenProperties
<1> QED BY <1>3, <1>5, <1>6, <1>7 DEF d

\* The same cells hold the same.
LEMMA SameBetween ==
  ASSUME NEW b \in Buffer, NEW c \in Buffer, NEW from \in 0..(COUNT - 1), NEW to \in 0..(COUNT - 1),
         \A i \in 1..Diff(to, from) : c.buf[Place(from + i - 1)] = b.buf[Place(from + i - 1)]
  PROVE  Between(c, from, to) = Between(b, from, to)
<1> DEFINE s == Between(b, from, to)  t == Between(c, from, to)
<1>1. /\ s \in Seq(Kept) /\ Len(s) = Diff(to, from)
      /\ \A i \in 1..Diff(to, from) : s[i] = b.buf[Place(from + i - 1)]
  BY BetweenIs
<1>2. /\ t \in Seq(Kept) /\ Len(t) = Diff(to, from)
      /\ \A i \in 1..Diff(to, from) : t[i] = c.buf[Place(from + i - 1)]
  BY BetweenIs
<1> HIDE DEF s, t
<1>3. Len(t) = Len(s) /\ \A i \in 1..Len(t) : t[i] = s[i]
  BY <1>1, <1>2
<1>4. t = s
  BY <1>1, <1>2, <1>3, SeqEqual, Zenon
<1> QED BY <1>4 DEF s, t

\* The cell at i is none of those from j up to i.
LEMMA CellAhead ==
  ASSUME NEW i \in Int, NEW j \in Int, Diff(i, j) < INPUTBUF, NEW n \in 0..(Diff(i, j) - 1)
  PROVE  Place(j + n) # Place(i)
<1> DEFINE d == Diff(i, j)
<1>1. d \in Nat
  BY DiffIs
<1>2. Place(i + 0) = Place(j + d + 0)
  BY DiffIs, 0 \in Int, Zenon
<1>3. d < INPUTBUF /\ n \in 0..(d - 1)
  OBVIOUS
<1> HIDE DEF d
<1>4. i + 0 = i /\ j + d + 0 = j + d
  BY <1>1
<1>5. Place(i) = Place(j + d)
  BY <1>2, <1>4
<1>6. ASSUME Place(j + n) = Place(j + d) PROVE FALSE
  <2> DEFINE x == j + n  y == j + d
  <2>1. x \in Int /\ y \in Int /\ x - y < INPUTBUF /\ y - x < INPUTBUF /\ x # y
    BY <1>1, <1>3, ConsoleNumbers
  <2>2. Place(x) = Place(y)
    BY <1>6
  <2> HIDE DEF x, y
  <2>3. x = y
    BY <2>1, <2>2, PlacesApart
  <2> QED BY <2>1, <2>3
<1> QED BY <1>5, <1>6

\* Two stretches, one behind the other.
LEMMA BetweenJoin ==
  ASSUME NEW b \in Buffer, NEW x \in 0..(COUNT - 1), NEW y \in 0..(COUNT - 1), NEW z \in 0..(COUNT - 1),
         Diff(z, y) + Diff(y, x) < COUNT
  PROVE  Between(b, x, z) = Between(b, x, y) \o Between(b, y, z)
<1> DEFINE s == Between(b, x, y)  t == Between(b, y, z)  u == Between(b, x, z)
           m == Diff(y, x)  n == Diff(z, y)
<1>0. x \in Int /\ y \in Int /\ z \in Int
  BY ConsoleNumbers
<1>1. /\ s \in Seq(Kept) /\ Len(s) = m
      /\ \A i \in 1..m : s[i] = b.buf[Place(x + i - 1)]
  BY BetweenIs
<1>2. /\ t \in Seq(Kept) /\ Len(t) = n
      /\ \A i \in 1..n : t[i] = b.buf[Place(y + i - 1)]
  BY BetweenIs
<1>3. Diff(z, x) = n + m
  BY <1>0, DiffSum
<1>4. /\ u \in Seq(Kept) /\ Len(u) = n + m
      /\ \A i \in 1..(n + m) : u[i] = b.buf[Place(x + i - 1)]
  BY <1>3, BetweenIs
<1>5. m \in Nat /\ n \in Nat
  BY <1>0, DiffIs
<1>6. \A k \in Int : Place(y + k) = Place(x + m + k)
  BY <1>0, DiffIs, Zenon
<1> HIDE DEF s, t, u, m, n
<1>7. /\ s \o t \in Seq(Kept) /\ Len(s \o t) = m + n
      /\ \A i \in 1..(m + n) : (s \o t)[i] = IF i <= m THEN s[i] ELSE t[i - m]
  BY <1>1, <1>2, ConcatProperties
<1>8. ASSUME NEW i \in 1..(n + m) PROVE u[i] = (s \o t)[i]
  <2>1. CASE i <= m
    <3>1. i \in 1..m /\ i \in 1..(m + n)
      BY <1>5, <2>1
    <3> QED BY <1>1, <1>4, <1>7, <2>1, <3>1
  <2>2. CASE i > m
    <3>1. i - m \in 1..n /\ i \in 1..(m + n) /\ i \in 1..(n + m) /\ ~(i <= m) /\ (i - m) - 1 \in Int
      BY <1>5, <2>2
    <3>2. t[i - m] = b.buf[Place(y + (i - m) - 1)]
      BY <1>2, <3>1
    <3>3. Place(y + ((i - m) - 1)) = Place(x + m + ((i - m) - 1))
      BY <1>6, <3>1
    <3>4. y + ((i - m) - 1) = y + (i - m) - 1 /\ x + m + ((i - m) - 1) = x + i - 1
      BY <1>0, <1>5
    <3>5. (s \o t)[i] = t[i - m] /\ u[i] = b.buf[Place(x + i - 1)]
      BY <1>4, <1>7, <3>1
    <3> QED BY <3>2, <3>3, <3>4, <3>5
  <2>3. i <= m \/ i > m
    BY <1>5
  <2> QED BY <2>1, <2>2, <2>3, Zenon
<1>9. Len(u) = Len(s \o t) /\ \A i \in 1..Len(u) : u[i] = (s \o t)[i]
  BY <1>4, <1>5, <1>7, <1>8
<1>10. u = s \o t
  BY <1>4, <1>7, <1>9, SeqEqual, Zenon
<1> QED BY <1>10 DEF s, t, u

\* One more character.
LEMMA BetweenMore ==
  ASSUME NEW b \in Buffer, NEW x \in 0..(COUNT - 1), NEW e \in 0..(COUNT - 1), NEW ch \in Kept,
         Diff(e, x) < INPUTBUF, NEW c \in Buffer, c.buf = [b.buf EXCEPT ![e % INPUTBUF] = ch]
  PROVE  /\ Diff(Plus(e, 1), x) = Diff(e, x) + 1
         /\ Between(c, x, e) = Between(b, x, e)
         /\ Between(c, x, Plus(e, 1)) = Append(Between(b, x, e), ch)
<1> DEFINE d == Diff(e, x)  f == Plus(e, 1)  s == Between(b, x, e)  u == Between(c, x, f)
<1>0. x \in Int /\ e \in Int /\ 1 \in Int
  BY ConsoleNumbers
<1>1. d \in Nat /\ f \in 0..(COUNT - 1) /\ Place(e + 0) = Place(x + d + 0)
  <2>1. d \in Nat /\ Place(e + 0) = Place(x + d + 0)
    BY <1>0, DiffIs, 0 \in Int, Zenon
  <2>2. f \in 0..(COUNT - 1)
    BY <1>0, PlusPlace
  <2> QED BY <2>1, <2>2
<1>2. Diff(f, x) = d + 1
  <2>1. Diff(e, x) + 1 \in 0..(COUNT - 1)
    BY <1>1, ConsoleNumbers
  <2> QED BY <1>0, <2>1, DiffAhead
<1>3. \A n \in 0..(d - 1) : Place(x + n) # Place(e)
  BY <1>0, CellAhead
<1>4. Place(e) = e % INPUTBUF /\ Place(e) \in 0..(INPUTBUF - 1)
  BY <1>0, PlaceRange DEF Place, Wrap
<1>5. b.buf \in [0..(INPUTBUF - 1) -> Kept]
  BY DEF Buffer
<1>6. c.buf[Place(e)] = ch /\ \A l \in 0..(INPUTBUF - 1) : l # Place(e) => c.buf[l] = b.buf[l]
  BY <1>4, <1>5
<1>7. \A i \in 1..d : Place(x + i - 1) \in 0..(INPUTBUF - 1) /\ Place(x + i - 1) # Place(e)
  <2> SUFFICES ASSUME NEW i \in 1..d
               PROVE  Place(x + i - 1) \in 0..(INPUTBUF - 1) /\ Place(x + i - 1) # Place(e)
    OBVIOUS
  <2>1. i - 1 \in 0..(d - 1) /\ x + (i - 1) = x + i - 1 /\ x + i - 1 \in Int
    BY <1>0, <1>1
  <2>2. Place(x + (i - 1)) # Place(e)
    BY <1>3, <2>1
  <2> QED BY <2>1, <2>2, PlaceRange
<1>8. \A i \in 1..Diff(e, x) : c.buf[Place(x + i - 1)] = b.buf[Place(x + i - 1)]
  BY <1>6, <1>7
<1>9. Between(c, x, e) = Between(b, x, e)
  BY <1>8, SameBetween
<1>10. /\ s \in Seq(Kept) /\ Len(s) = d
       /\ \A i \in 1..d : s[i] = b.buf[Place(x + i - 1)]
  BY BetweenIs
<1>11. /\ u \in Seq(Kept) /\ Len(u) = d + 1
       /\ \A i \in 1..(d + 1) : u[i] = c.buf[Place(x + i - 1)]
  <2>1. /\ u \in Seq(Kept) /\ Len(u) = Diff(f, x)
        /\ \A i \in 1..Diff(f, x) : u[i] = c.buf[Place(x + i - 1)]
    <3>1. f \in 0..(COUNT - 1)
      BY <1>1
    <3> HIDE DEF d, f, s
    <3> QED BY <3>1, BetweenIs, ZenonT(30)
  <2> HIDE DEF d, f, s, u
  <2> QED BY <1>2, <2>1
<1>12. \A i \in 1..d : c.buf[Place(x + i - 1)] = b.buf[Place(x + i - 1)]
  BY <1>8
<1> HIDE DEF d, f, s, u
<1>13. c.buf[Place(x + (d + 1) - 1)] = ch
  <2>1. x + (d + 1) - 1 = x + d + 0 /\ e + 0 = e
    BY <1>0, <1>1
  <2> QED BY <2>1, <1>1, <1>6
<1>14. /\ Append(s, ch) \in Seq(Kept) /\ Len(Append(s, ch)) = d + 1
       /\ \A i \in 1..d : Append(s, ch)[i] = s[i]
       /\ Append(s, ch)[d + 1] = ch
  BY <1>10, AppendProperties
<1>15. ASSUME NEW i \in 1..(d + 1) PROVE u[i] = Append(s, ch)[i]
  <2>1. CASE i \in 1..d
    BY <2>1, <1>10, <1>11, <1>12, <1>14
  <2>2. CASE i = d + 1
    BY <2>2, <1>11, <1>13, <1>14
  <2>3. i \in 1..d \/ i = d + 1
    BY <1>1
  <2> QED BY <2>1, <2>2, <2>3, Zenon
<1>16. Len(u) = Len(Append(s, ch)) /\ \A i \in 1..Len(u) : u[i] = Append(s, ch)[i]
  BY <1>11, <1>14, <1>15
<1>17. u = Append(s, ch)
  BY <1>11, <1>14, <1>16, SeqEqual, Zenon
<1> QED BY <1>2, <1>9, <1>17 DEF d, f, s, u

\* t characters fewer, at the front.
LEMMA BetweenLess ==
  ASSUME NEW b \in Buffer, NEW x \in 0..(COUNT - 1), NEW w \in 0..(COUNT - 1), NEW t \in 0..Diff(w, x)
  PROVE  /\ Plus(x, t) \in 0..(COUNT - 1)
         /\ Diff(w, Plus(x, t)) = Diff(w, x) - t
         /\ Between(b, Plus(x, t), w) = SubSeq(Between(b, x, w), t + 1, Len(Between(b, x, w)))
<1> DEFINE d == Diff(w, x)  y == Plus(x, t)  s == Between(b, x, w)  u == Between(b, y, w)
           v == SubSeq(s, t + 1, Len(s))
<1>0. x \in Int /\ w \in Int /\ d \in Nat /\ d \in 0..(COUNT - 1)
  BY ConsoleNumbers, DiffIs
<1>1. t \in Nat /\ t \in Int /\ t <= d
  BY <1>0
<1>2. y \in 0..(COUNT - 1) /\ \A k \in Int : Place(y + k) = Place(x + t + k)
  BY <1>0, <1>1, PlusPlace
<1>3. Diff(w, y) = d - t
  <2>1. Diff(w, x) - t \in 0..(COUNT - 1)
    BY <1>0, <1>1, ConsoleNumbers
  <2> QED BY <1>0, <1>1, <2>1, DiffBehind
<1>4. /\ s \in Seq(Kept) /\ Len(s) = d
      /\ \A i \in 1..d : s[i] = b.buf[Place(x + i - 1)]
  BY BetweenIs
<1>5. /\ u \in Seq(Kept) /\ Len(u) = d - t
      /\ \A i \in 1..(d - t) : u[i] = b.buf[Place(y + i - 1)]
  <2>0. y \in 0..(COUNT - 1)
    BY <1>2
  <2> HIDE DEF d, y, s
  <2>1. /\ u \in Seq(Kept) /\ Len(u) = Diff(w, y)
        /\ \A i \in 1..Diff(w, y) : u[i] = b.buf[Place(y + i - 1)]
    BY <2>0, BetweenIs
  <2> HIDE DEF u
  <2> QED BY <1>3, <2>1
<1>6. y \in Int
  BY <1>2, ConsoleNumbers
<1> HIDE DEF d, y, s, u
<1>7. /\ v \in Seq(Kept) /\ Len(v) = d - t
      /\ \A i \in 1..(d - t) : v[i] = s[t + i]
  BY <1>1, <1>4, Rest
<1> HIDE DEF v
<1>8. ASSUME NEW i \in 1..(d - t) PROVE u[i] = v[i]
  <2>1. t + i \in 1..d /\ i - 1 \in Int /\ y + (i - 1) = y + i - 1 /\ x + t + (i - 1) = x + (t + i) - 1
    BY <1>0, <1>1, <1>6
  <2>2. u[i] = b.buf[Place(y + i - 1)] /\ v[i] = s[t + i]
    BY <1>5, <1>7
  <2>3. s[t + i] = b.buf[Place(x + (t + i) - 1)]
    BY <1>4, <2>1
  <2>4. Place(y + (i - 1)) = Place(x + t + (i - 1))
    BY <1>2, <2>1
  <2> QED BY <2>1, <2>2, <2>3, <2>4
<1>9. Len(u) = Len(v) /\ \A i \in 1..Len(u) : u[i] = v[i]
  BY <1>5, <1>7, <1>8
<1>10. u = v
  BY <1>5, <1>7, <1>9, SeqEqual, Zenon
<1> QED BY <1>2, <1>3, <1>10 DEF d, y, s, u, v

-----------------------------------------------------------------------------
\* The console: the invariant, and what a step does to the line.
ConsoleInv ==
  /\ input \in Buffer
  /\ Diff(input.w, input.r) + Diff(input.e, input.w) <= INPUTBUF
  /\ rpc \in [Readers -> {"user", "reading", "asleep"}]
  /\ todo \in [Readers -> [n : Nat, target : Nat]]
  /\ \A p \in Readers : todo[p].n <= todo[p].target /\ (rpc[p] # "user" => todo[p].n > 0)
  /\ signalled \subseteq Readers
  /\ given \in Seq(Kept)
  /\ Committed # <<>> => \A p \in Readers : rpc[p] # "asleep"

\* The counters of the buffer, and the stretches between them.
LEMMA BufferHas ==
  ASSUME NEW b \in Buffer
  PROVE  /\ b.r \in 0..(COUNT - 1) /\ b.w \in 0..(COUNT - 1) /\ b.e \in 0..(COUNT - 1)
         /\ b.r \in Int /\ b.w \in Int /\ b.e \in Int
         /\ b.buf \in [0..(INPUTBUF - 1) -> Kept]
BY ConsoleNumbers DEF Buffer

LEMMA LinesAre ==
  /\ Committed = Between(input, input.r, input.w) /\ Editing = Between(input, input.w, input.e)
  /\ Committed' = Between(input', input'.r, input'.w)
BY DEF Committed, Editing, Span, Between

LEMMA InvHas ==
  ASSUME ConsoleInv
  PROVE  /\ Committed \in Seq(Kept) /\ Len(Committed) = Diff(input.w, input.r)
         /\ Editing \in Seq(Kept) /\ Len(Editing) = Diff(input.e, input.w)
         /\ Diff(input.w, input.r) \in Nat /\ Diff(input.e, input.w) \in Nat
         /\ Diff(input.e, input.r) = Diff(input.e, input.w) + Diff(input.w, input.r)
<1>1. input \in Buffer /\ Diff(input.w, input.r) + Diff(input.e, input.w) <= INPUTBUF
  BY DEF ConsoleInv
<1>2. /\ input.r \in 0..(COUNT - 1) /\ input.w \in 0..(COUNT - 1) /\ input.e \in 0..(COUNT - 1)
      /\ input.r \in Int /\ input.w \in Int /\ input.e \in Int
  BY <1>1, BufferHas
<1>3. Diff(input.w, input.r) \in Nat /\ Diff(input.e, input.w) \in Nat
  BY <1>2, DiffIs
<1>4. Diff(input.e, input.w) + Diff(input.w, input.r) < COUNT
  BY <1>1, <1>3, ConsoleNumbers
<1>5. Diff(input.e, input.r) = Diff(input.e, input.w) + Diff(input.w, input.r)
  BY <1>2, <1>4, DiffSum
<1>6. Committed \in Seq(Kept) /\ Len(Committed) = Diff(input.w, input.r)
  BY <1>1, <1>2, BetweenIs, LinesAre
<1>7. Editing \in Seq(Kept) /\ Len(Editing) = Diff(input.e, input.w)
  BY <1>1, <1>2, BetweenIs, LinesAre
<1> QED BY <1>3, <1>5, <1>6, <1>7

\* Nothing between two counters means that they are equal.
LEMMA DiffZero ==
  ASSUME NEW i \in 0..(COUNT - 1), NEW j \in 0..(COUNT - 1), Diff(i, j) = 0
  PROVE  i = j
<1>1. i \in Int /\ j \in Int /\ i - j \in Int /\ COUNT \in Nat \ {0}
  BY ConsoleNumbers
<1>7. \E q \in Int : i = (j + Wrap(i - j, COUNT)) + COUNT * q
  BY ONLY <1>1, Behind, Zenon
<1>2. PICK q \in Int : i = (j + Wrap(i - j, COUNT)) + COUNT * q
  BY <1>7
<1>3. Wrap(i - j, COUNT) = 0
  BY DEF Diff, Wrap
<1> DEFINE r == i - j
<1>4. COUNT * q \in Int
  BY <1>1
<1>5. r = COUNT * q /\ r \in Int /\ 0 - COUNT < r /\ r < COUNT
  BY <1>1, <1>2, <1>3, <1>4
<1> HIDE DEF r
<1>6. r = 0
  BY <1>1, <1>5, NoMultiple
<1> QED BY <1>1, <1>6 DEF r

\* A set of numbers up to L that is not empty has a greatest one: Max, in KillLine.
LEMMA GreatestOf ==
  ASSUME NEW L \in Nat, NEW S, S \subseteq 0..L, S # {}
  PROVE  Max(S) \in S
<1> DEFINE T == {L - x : x \in S}
<1>1. T \subseteq Nat /\ T # {}
  <2>1. \A x \in S : L - x \in Nat
    OBVIOUS
  <2>2. PICK x \in S : TRUE
    OBVIOUS
  <2>3. L - x \in T
    BY <2>2
  <2>4. \A y \in T : \E z \in S : y = L - z
    OBVIOUS
  <2> HIDE DEF T
  <2> QED BY <2>1, <2>3, <2>4
<1> HIDE DEF T
<1> DEFINE R == OpToRel(<, Nat)
<1>2. IsWellFoundedOn(R, Nat)
  BY NatLessThanWellFounded
<1>3. \A x \in T, y \in T : y < x => <<y, x>> \in R
  BY <1>1 DEF OpToRel
<1> HIDE DEF R
<1>4. \E x \in T : \A y \in T : ~ (<<y, x>> \in R)
  BY <1>1, <1>2, WFMin
<1>5. PICK t \in T : \A y \in T : ~(y < t)
  BY <1>3, <1>4, Zenon
<1>6. PICK m \in S : t = L - m
  BY DEF T
<1>7. \A x \in S : x <= m
  <2> TAKE x \in S
  <2>1. L - x \in T
    BY DEF T
  <2>2. ~(L - x < t) /\ x \in Nat /\ m \in Nat
    BY <1>5, <2>1
  <2> QED BY <1>6, <2>2
<1>8. \A x \in S : m >= x
  <2> TAKE x \in S
  <2>1. x \in Nat /\ m \in Nat /\ x <= m
    BY <1>7
  <2> QED BY <2>1
<1> QED BY <1>8, Zenon DEF Max

\* A step that only moves the end of the line back, not beyond its start.
LEMMA EraseKeeps ==
  ASSUME ConsoleInv, NEW k \in Int, input' = [input EXCEPT !.e = Plus(@, k)],
         Diff(input.e, input.w) + k \in 0..Diff(input.e, input.w),
         given' = <<>>, UNCHANGED <<rpc, todo, signalled>>
  PROVE  ConsoleInv' /\ Committed' = Committed
<1>1. input \in Buffer /\ Diff(input.w, input.r) + Diff(input.e, input.w) <= INPUTBUF
  BY DEF ConsoleInv
<1>2. /\ input.r \in Int /\ input.w \in Int /\ input.e \in Int
      /\ Diff(input.w, input.r) \in Nat /\ Diff(input.e, input.w) \in 0..(COUNT - 1)
  BY <1>1, BufferHas, DiffIs
<1>3. Plus(input.e, k) \in 0..(COUNT - 1)
  BY <1>2, PlusPlace
<1>4. /\ input' \in Buffer /\ input'.r = input.r /\ input'.w = input.w
      /\ input'.e = Plus(input.e, k) /\ input'.buf = input.buf
  BY <1>1, <1>3 DEF Buffer
<1>5. Diff(input'.e, input'.w) = Diff(input.e, input.w) + k
  <2>1. Diff(input.e, input.w) + k \in 0..(COUNT - 1)
    BY <1>2, ConsoleNumbers
  <2> QED BY <1>2, <1>4, <2>1, DiffAhead
<1>6. Diff(input'.w, input'.r) = Diff(input.w, input.r)
  BY <1>4
<1>7. Diff(input'.w, input'.r) + Diff(input'.e, input'.w) <= INPUTBUF
  BY <1>1, <1>2, <1>5, <1>6, ConsoleNumbers
<1>8. Committed' = Committed
  BY <1>4, LinesAre DEF Between
<1> QED BY <1>4, <1>7, <1>8, EmptySeq DEF ConsoleInv

LEMMA KillLineKeeps ==
  ASSUME ConsoleInv, KillLine
  PROVE  ConsoleInv' /\ Committed' = Committed /\ given' = <<>> /\ rpc' = rpc
<1> DEFINE line == Editing
           S == {0} \cup {i \in DOMAIN line : line[i] = "nl"}
           L == Len(line)
<1>1. /\ input' = [input EXCEPT !.e = Plus(@, Max(S) - L)]
      /\ given' = <<>> /\ UNCHANGED <<rpc, todo, signalled>>
  BY DEF KillLine
<1>2. L = Diff(input.e, input.w) /\ L \in Nat /\ DOMAIN line = 1..L
  BY InvHas, LenProperties
<1>3. S \subseteq 0..L /\ S # {}
  BY <1>2
<1> HIDE DEF S, L
<1>4. Max(S) \in 0..L
  BY <1>2, <1>3, GreatestOf
<1>5. Max(S) - L \in Int /\ Diff(input.e, input.w) + (Max(S) - L) \in 0..Diff(input.e, input.w)
  BY <1>2, <1>4
<1> QED BY <1>1, <1>5, EraseKeeps

LEMMA BackspaceKeeps ==
  ASSUME ConsoleInv, Backspace
  PROVE  ConsoleInv' /\ Committed' = Committed /\ given' = <<>> /\ rpc' = rpc
<1>1. /\ input.e # input.w /\ input' = [input EXCEPT !.e = Plus(@, -1)]
      /\ given' = <<>> /\ UNCHANGED <<rpc, todo, signalled>>
  BY DEF Backspace
<1>2. Diff(input.e, input.w) \in Nat /\ Diff(input.e, input.w) # 0
  BY <1>1, InvHas, BufferHas, DiffZero DEF ConsoleInv
<1>3. -1 \in Int /\ Diff(input.e, input.w) + (-1) \in 0..Diff(input.e, input.w)
  BY <1>2
<1> QED BY <1>1, <1>3, EraseKeeps

LEMMA ReadersWoken ==
  ASSUME ConsoleInv, WakeReaders
  PROVE  /\ rpc' \in [Readers -> {"user", "reading", "asleep"}]
         /\ \A p \in Readers : rpc'[p] # "asleep" /\ (rpc'[p] # "user" => rpc[p] # "user")
BY DEF ConsoleInv, WakeReaders

\* A character: it ends the line and gives it to the readers, or it is added
\* to the line.
LEMMA TypeKeeps ==
  ASSUME ConsoleInv, NEW c \in Kept, Type(c)
  PROVE  /\ ConsoleInv' /\ given' = <<>>
         /\ \/ Committed' = Committed
            \/ Committed' = Committed \o Append(Editing, c)
<1> DEFINE f == Plus(input.e, 1)
           commit == c \in {"nl", "^D"} \/ f = Plus(input.r, INPUTBUF)
<1>1. /\ Diff(input.e, input.r) < INPUTBUF /\ given' = <<>> /\ UNCHANGED <<todo, signalled>>
      /\ input' = [input EXCEPT !.buf[input.e % INPUTBUF] = c, !.e = f, !.w = IF commit THEN f ELSE @]
      /\ IF commit THEN WakeReaders ELSE UNCHANGED rpc
  BY DEF Type
<1>2. /\ input \in Buffer
      /\ input.r \in 0..(COUNT - 1) /\ input.w \in 0..(COUNT - 1) /\ input.e \in 0..(COUNT - 1)
      /\ input.r \in Int /\ input.w \in Int /\ input.e \in Int
      /\ input.buf \in [0..(INPUTBUF - 1) -> Kept]
  BY BufferHas DEF ConsoleInv
<1>3. /\ Committed \in Seq(Kept) /\ Len(Committed) = Diff(input.w, input.r)
      /\ Editing \in Seq(Kept) /\ Len(Editing) = Diff(input.e, input.w)
      /\ Diff(input.w, input.r) \in Nat /\ Diff(input.e, input.w) \in Nat
      /\ Diff(input.e, input.r) = Diff(input.e, input.w) + Diff(input.w, input.r)
  BY InvHas
<1>4. f \in 0..(COUNT - 1)
  BY <1>2, PlusPlace, 1 \in Int
<1> HIDE DEF f, commit
<1>5. /\ input' \in Buffer /\ input'.r = input.r /\ input'.e = f
      /\ input'.w = IF commit THEN f ELSE input.w
      /\ input'.buf = [input.buf EXCEPT ![input.e % INPUTBUF] = c]
  BY <1>1, <1>2, <1>4 DEF Buffer
<1>6. /\ Diff(f, input.r) = Diff(input.e, input.r) + 1
      /\ Between(input', input.r, input.e) = Between(input, input.r, input.e)
      /\ Between(input', input.r, f) = Append(Between(input, input.r, input.e), c)
  <2>1. /\ input' \in Buffer /\ input'.buf = [input.buf EXCEPT ![input.e % INPUTBUF] = c]
        /\ input.r \in 0..(COUNT - 1) /\ input.e \in 0..(COUNT - 1) /\ input \in Buffer
        /\ c \in Kept /\ Diff(input.e, input.r) < INPUTBUF
    BY <1>1, <1>2, <1>5
  <2>2. /\ Diff(Plus(input.e, 1), input.r) = Diff(input.e, input.r) + 1
        /\ Between(input', input.r, input.e) = Between(input, input.r, input.e)
        /\ Between(input', input.r, Plus(input.e, 1)) = Append(Between(input, input.r, input.e), c)
    BY <2>1, BetweenMore
  <2> QED BY <2>2 DEF f
<1>7. Diff(input.e, input.w) < INPUTBUF
  BY <1>1, <1>3, ConsoleNumbers
<1>8. Diff(f, input.w) = Diff(input.e, input.w) + 1
  BY <1>2, <1>5, <1>7, BetweenMore DEF f
<1>9. CASE commit
  <2>1. Between(input, input.r, input.e) = Committed \o Editing
    <3>1. Diff(input.e, input.w) + Diff(input.w, input.r) < COUNT
      BY <1>1, <1>3, ConsoleNumbers
    <3> QED BY <1>2, <3>1, BetweenJoin, LinesAre
  <2>2. Committed' = Append(Committed \o Editing, c)
    BY <1>5, <1>6, <1>9, <2>1, LinesAre
  <2>3. Append(Committed \o Editing, c) = Committed \o Append(Editing, c)
    <3>1. /\ Committed \o Editing \in Seq(Kept) /\ Append(Editing, c) \in Seq(Kept)
          /\ Append(Committed \o Editing, c) = (Committed \o Editing) \o <<c>>
          /\ Append(Editing, c) = Editing \o <<c>> /\ <<c>> \in Seq(Kept)
      BY <1>3, ConcatProperties, AppendProperties, AppendIsConcat
    <3> QED BY <1>3, <3>1, ConcatAssociative
  <2>4. Diff(input'.e, input'.w) = 0
    <3>1. Diff(f, f) = f - f
      <4>1. f - f = 0 /\ f \in Int
        BY <1>4, ConsoleNumbers
      <4>2. 0 % COUNT = 0
        BY ConsoleNumbers
      <4> QED BY <4>1, <4>2 DEF Diff
    <3> QED BY <1>4, <1>5, <1>9, <3>1, ConsoleNumbers
  <2>5. Diff(input'.w, input'.r) + Diff(input'.e, input'.w) <= INPUTBUF
    BY <1>1, <1>3, <1>5, <1>6, <1>9, <2>4, ConsoleNumbers
  <2>6. /\ rpc' \in [Readers -> {"user", "reading", "asleep"}]
        /\ \A p \in Readers : rpc'[p] # "asleep" /\ (rpc'[p] # "user" => rpc[p] # "user")
    BY <1>1, <1>9, ReadersWoken
  <2> QED BY <1>1, <1>5, <2>2, <2>3, <2>5, <2>6, EmptySeq DEF ConsoleInv
<1>10. CASE ~commit
  <2>1. \A i \in 1..Diff(input.w, input.r) : input'.buf[Place(input.r + i - 1)] = input.buf[Place(input.r + i - 1)]
    <3> SUFFICES ASSUME NEW i \in 1..Diff(input.w, input.r)
                 PROVE  input'.buf[Place(input.r + i - 1)] = input.buf[Place(input.r + i - 1)]
      OBVIOUS
    <3>1. i - 1 \in 0..(Diff(input.e, input.r) - 1) /\ input.r + (i - 1) = input.r + i - 1 /\ input.r + i - 1 \in Int
      BY <1>2, <1>3
    <3>2. Place(input.r + (i - 1)) # Place(input.e)
      BY <1>1, <1>2, <3>1, CellAhead
    <3>3. Place(input.e) = input.e % INPUTBUF
      BY DEF Place, Wrap
    <3>4. Place(input.r + i - 1) \in 0..(INPUTBUF - 1)
      BY <3>1, PlaceRange
    <3> QED BY <1>2, <1>5, <3>1, <3>2, <3>3, <3>4
  <2>2. Between(input', input.r, input.w) = Between(input, input.r, input.w)
    BY <1>2, <1>5, <2>1, SameBetween
  <2>3. Committed' = Committed
    BY <1>5, <1>10, <2>2, LinesAre
  <2>4. Diff(input'.w, input'.r) + Diff(input'.e, input'.w) <= INPUTBUF
    BY <1>1, <1>3, <1>5, <1>8, <1>10, ConsoleNumbers
  <2> QED BY <1>1, <1>5, <1>10, <2>3, <2>4, EmptySeq DEF ConsoleInv
<1> QED BY <1>1, <1>9, <1>10

LEMMA ReadKeepsConsole ==
  ASSUME ConsoleInv, NEW p \in Readers, NEW n \in Sizes, Read(p, n)
  PROVE  ConsoleInv' /\ Committed' = Committed /\ given' = <<>>
<1>1. /\ rpc' = [rpc EXCEPT ![p] = "reading"] /\ todo' = [todo EXCEPT ![p] = [n |-> n, target |-> n]]
      /\ given' = <<>> /\ UNCHANGED <<input, signalled>>
  BY DEF Read
<1>2. Committed' = Committed
  BY <1>1, LinesAre
<1>3. n \in Nat \ {0}
  BY ConsoleAssumption
<1>4. rpc' \in [Readers -> {"user", "reading", "asleep"}] /\ \A q \in Readers : rpc'[q] = "asleep" => rpc[q] = "asleep"
  BY <1>1 DEF ConsoleInv
<1>5. todo' \in [Readers -> [n : Nat, target : Nat]]
  BY <1>1, <1>3 DEF ConsoleInv
<1>6. \A q \in Readers : todo'[q].n <= todo'[q].target /\ (rpc'[q] # "user" => todo'[q].n > 0)
  BY <1>1, <1>3 DEF ConsoleInv
<1> QED BY <1>1, <1>2, <1>4, <1>5, <1>6, EmptySeq DEF ConsoleInv

LEMMA NothingKeeps ==
  ASSUME ConsoleInv, NEW p \in Readers, NothingToRead(p)
  PROVE  ConsoleInv' /\ Committed' = Committed /\ given' = <<>>
<1>1. /\ rpc[p] = "reading" /\ Committed = <<>> /\ given' = <<>> /\ UNCHANGED <<input, signalled>>
      /\ rpc' = [rpc EXCEPT ![p] = IF p \in signalled THEN "user" ELSE "asleep"]
      /\ todo' = [todo EXCEPT ![p] = IF p \in signalled THEN Returned ELSE @]
  BY DEF NothingToRead
<1>2. Committed' = Committed
  BY <1>1, LinesAre
<1>3. rpc' \in [Readers -> {"user", "reading", "asleep"}]
  BY <1>1 DEF ConsoleInv
<1>4. todo' \in [Readers -> [n : Nat, target : Nat]]
  BY <1>1 DEF ConsoleInv, Returned
<1>5. \A q \in Readers : todo'[q].n <= todo'[q].target /\ (rpc'[q] # "user" => todo'[q].n > 0)
  BY <1>1 DEF ConsoleInv, Returned
<1> QED BY <1>1, <1>2, <1>3, <1>4, <1>5, EmptySeq DEF ConsoleInv

LEMMA KillReaderKeeps ==
  ASSUME ConsoleInv, NEW p \in Readers, KillReader(p)
  PROVE  ConsoleInv' /\ Committed' = Committed /\ given' = <<>>
<1>1. /\ signalled' = signalled \cup {p} /\ given' = <<>> /\ UNCHANGED <<input, todo>>
      /\ rpc' = [rpc EXCEPT ![p] = IF @ = "asleep" THEN "reading" ELSE @]
  BY DEF KillReader
<1>2. Committed' = Committed
  BY <1>1, LinesAre
<1>3. /\ rpc' \in [Readers -> {"user", "reading", "asleep"}]
      /\ \A q \in Readers : /\ rpc'[q] = "asleep" => rpc[q] = "asleep"
                            /\ rpc'[q] # "user" => rpc[q] # "user"
  BY <1>1 DEF ConsoleInv
<1> QED BY <1>1, <1>2, <1>3, EmptySeq DEF ConsoleInv

\* How many characters a section of a reader takes.
LEMMA TakenIs ==
  ASSUME ConsoleInv, NEW p \in Readers, rpc[p] = "reading", Committed # <<>>
  PROVE  /\ Taken(p) \in 1..Len(Committed) /\ Taken(p) <= todo[p].n
         /\ \/ Committed[Taken(p)] \in {"nl", "^D"}
            \/ Taken(p) = Len(Committed) \/ Taken(p) = todo[p].n
<1> DEFINE stops == {i \in DOMAIN Committed : Committed[i] \in {"nl", "^D"}}
           L == Len(Committed)  n == todo[p].n
           S == stops \cup {L, n}
<1>1. L \in Nat \ {0} /\ DOMAIN Committed = 1..L
  BY InvHas, EmptySeq, LenProperties
<1>2. n \in Nat \ {0}
  BY DEF ConsoleInv
<1>3. stops \subseteq 1..L
  BY <1>1
<1>4. \A i \in stops : Committed[i] \in {"nl", "^D"}
  OBVIOUS
<1>5. Taken(p) = Min(S)
  BY DEF Taken
<1> HIDE DEF stops, L, n
<1>6. S \subseteq Nat /\ 0 \notin S /\ S # {} /\ L \in S /\ n \in S
  BY <1>1, <1>2, <1>3
<1>7. Min(S) \in S /\ \A x \in S : Min(S) <= x
  <2>1. Min(S) \in S
    BY <1>6, LeastOf
  <2>2. \E x \in S : \A y \in S : x <= y
    BY <1>6, LeastBelow
  <2> HIDE DEF S
  <2> QED BY <2>1, <2>2, Zenon DEF Min
<1>8. Min(S) <= L /\ Min(S) <= n
  BY <1>6, <1>7
<1>9. Min(S) \in 1..L
  <2>1. Min(S) \in Nat /\ Min(S) # 0
    BY <1>6, <1>7, Zenon
  <2> QED BY <1>1, <1>8, <2>1
<1>10. Min(S) \in stops \/ Min(S) = L \/ Min(S) = n
  BY <1>7
<1>11. Committed[Min(S)] \in {"nl", "^D"} \/ Min(S) = L \/ Min(S) = n
  BY <1>4, <1>10, Zenon
<1> HIDE DEF S
<1> QED BY <1>5, <1>8, <1>9, <1>11 DEF L, n

\* A reader gets the front of what can be read.
FrontTaken ==
  \E t \in 0..Len(Committed) :
    /\ Committed' = SubSeq(Committed, t + 1, Len(Committed)) /\ Len(Committed') = Len(Committed) - t
    /\ \/ given' = SubSeq(Committed, 1, t)
       \/ t > 0 /\ Append(given', "^D") = SubSeq(Committed, 1, t)

LEMMA ConsumeKeeps ==
  ASSUME ConsoleInv, NEW p \in Readers, Consume(p)
  PROVE  ConsoleInv' /\ FrontTaken
<1> DEFINE L == Len(Committed)
           k == Taken(p)
           eof == Committed[k] = "^D"
           g == IF eof THEN k - 1 ELSE k
           n == todo[p].n - g
           stays == eof /\ n < todo[p].target
           goes == eof \/ Committed[k] = "nl" \/ n = 0
           t == IF stays THEN k - 1 ELSE k
           out == goes \/ p \in signalled
<1>1. /\ rpc[p] = "reading" /\ Committed # <<>> /\ UNCHANGED signalled
      /\ input' = [input EXCEPT !.r = Plus(@, t)]
      /\ given' = SubSeq(Committed, 1, g)
      /\ todo' = [todo EXCEPT ![p] = IF out THEN Returned ELSE [@ EXCEPT !.n = n]]
      /\ rpc' = [rpc EXCEPT ![p] = IF out THEN "user" ELSE "asleep"]
  BY DEF Consume
<1>2. /\ k \in 1..L /\ k <= todo[p].n
      /\ Committed[k] \in {"nl", "^D"} \/ k = L \/ k = todo[p].n
  BY <1>1, TakenIs
<1>3. /\ Committed \in Seq(Kept) /\ L = Diff(input.w, input.r) /\ L \in Nat
      /\ Diff(input.e, input.w) \in Nat
  BY InvHas
<1>4. todo[p].n \in Nat /\ todo[p].target \in Nat /\ todo[p].n <= todo[p].target
  BY DEF ConsoleInv
<1> HIDE DEF k, L
<1>5. g \in 0..L /\ t \in 0..L /\ n \in Nat /\ n <= todo[p].n /\ (eof \/ g = k)
  BY <1>2, <1>3, <1>4
<1>6. ~out => eof = FALSE /\ g = k /\ t = k /\ n > 0
  BY <1>2, <1>3, <1>4
<1>7. ~out => k = L
  BY <1>2, <1>3, <1>4
<1>8. t = g \/ (eof /\ t = k /\ g = k - 1)
  BY <1>2
<1> HIDE DEF g, t, n, out
<1>9. /\ input \in Buffer
      /\ input.r \in 0..(COUNT - 1) /\ input.w \in 0..(COUNT - 1) /\ input.e \in 0..(COUNT - 1)
  BY BufferHas DEF ConsoleInv
<1>10. /\ Plus(input.r, t) \in 0..(COUNT - 1)
       /\ Diff(input.w, Plus(input.r, t)) = L - t
       /\ Between(input, Plus(input.r, t), input.w) = SubSeq(Committed, t + 1, L)
  <2>1. t \in 0..Diff(input.w, input.r)
    BY <1>3, <1>5
  <2>2. /\ Plus(input.r, t) \in 0..(COUNT - 1)
        /\ Diff(input.w, Plus(input.r, t)) = Diff(input.w, input.r) - t
        /\ Between(input, Plus(input.r, t), input.w) =
             SubSeq(Between(input, input.r, input.w), t + 1, Len(Between(input, input.r, input.w)))
    BY <1>9, <2>1, BetweenLess
  <2> QED BY <1>3, <2>2, LinesAre DEF L
<1>11. /\ input' \in Buffer /\ input'.r = Plus(input.r, t) /\ input'.w = input.w
       /\ input'.e = input.e /\ input'.buf = input.buf
  BY <1>1, <1>9, <1>10 DEF Buffer
<1>12. Committed' = SubSeq(Committed, t + 1, L)
  <2>1. Committed' = Between(input', Plus(input.r, t), input.w)
    BY <1>11, LinesAre
  <2>2. Between(input', Plus(input.r, t), input.w) = Between(input, Plus(input.r, t), input.w)
    BY <1>11 DEF Between
  <2> QED BY <1>10, <2>1, <2>2
<1>13. Committed' \in Seq(Kept) /\ Len(Committed') = L - t
  <2>1. t \in Nat /\ t <= Len(Committed)
    BY <1>3, <1>5 DEF L
  <2> QED BY <1>3, <1>12, <2>1, Rest DEF L
<1>14. Diff(input'.w, input'.r) + Diff(input'.e, input'.w) <= INPUTBUF
  <2>1. Diff(input.w, input.r) + Diff(input.e, input.w) <= INPUTBUF
    BY DEF ConsoleInv
  <2>2. Diff(input'.w, input'.r) = L - t /\ Diff(input'.e, input'.w) = Diff(input.e, input.w)
    BY <1>10, <1>11
  <2> QED BY <1>3, <1>5, <2>1, <2>2, ConsoleNumbers
<1>15. \A m \in 0..L : SubSeq(Committed, 1, m) \in Seq(Kept) /\ Len(SubSeq(Committed, 1, m)) = m
                       /\ \A i \in 1..m : SubSeq(Committed, 1, m)[i] = Committed[i]
  <2> SUFFICES ASSUME NEW m \in 0..L
               PROVE  /\ SubSeq(Committed, 1, m) \in Seq(Kept) /\ Len(SubSeq(Committed, 1, m)) = m
                      /\ \A i \in 1..m : SubSeq(Committed, 1, m)[i] = Committed[i]
    OBVIOUS
  <2>1. 1 \in Int /\ m \in Int /\ \A i \in 1..m : i \in 1..Len(Committed)
    BY <1>3 DEF L
  <2>2. \A i \in 1..m : Committed[i] \in Kept
    BY <1>3, <2>1, ElementOfSeq
  <2>3. /\ SubSeq(Committed, 1, m) \in Seq(Kept)
        /\ Len(SubSeq(Committed, 1, m)) = IF 1 <= m THEN m - 1 + 1 ELSE 0
        /\ \A i \in 1..(m - 1 + 1) : SubSeq(Committed, 1, m)[i] = Committed[1 + i - 1]
    BY <2>1, <2>2, SubSeqProperties
  <2>4. m \in Nat
    BY <1>3
  <2> HIDE DEF L
  <2>5. (IF 1 <= m THEN m - 1 + 1 ELSE 0) = m /\ m - 1 + 1 = m /\ \A i \in 1..m : 1 + i - 1 = i
    BY <2>4
  <2> QED BY <2>3, <2>5
<1>16. given' \in Seq(Kept)
  BY <1>1, <1>5, <1>15
<1>17. t = g => given' = SubSeq(Committed, 1, t)
  BY <1>1
<1>18. eof /\ t = k /\ g = k - 1 => t > 0 /\ Append(given', "^D") = SubSeq(Committed, 1, t)
  <2> SUFFICES ASSUME eof, t = k, g = k - 1 PROVE t > 0 /\ Append(given', "^D") = SubSeq(Committed, 1, t)
    OBVIOUS
  <2> DEFINE a == SubSeq(Committed, 1, g)  b == SubSeq(Committed, 1, t)
  <2>1. a \in Seq(Kept) /\ Len(a) = g /\ \A i \in 1..g : a[i] = Committed[i]
    BY <1>5, <1>15
  <2>2. b \in Seq(Kept) /\ Len(b) = t /\ \A i \in 1..t : b[i] = Committed[i]
    BY <1>5, <1>15
  <2>3. "^D" \in Kept /\ k \in Nat \ {0}
    BY <1>2, <1>3 DEF Kept
  <2> HIDE DEF a, b
  <2>4. /\ Append(a, "^D") \in Seq(Kept) /\ Len(Append(a, "^D")) = g + 1
        /\ \A i \in 1..g : Append(a, "^D")[i] = a[i]
        /\ Append(a, "^D")[g + 1] = "^D"
    BY <2>1, <2>3, AppendProperties
  <2>5. ASSUME NEW i \in 1..t PROVE b[i] = Append(a, "^D")[i]
    <3>1. CASE i \in 1..g
      BY <2>1, <2>2, <2>4, <3>1
    <3>2. CASE i = t
      <4>1. b[t] = Committed[t] /\ t = g + 1 /\ Committed[t] = "^D"
        BY <2>2, <2>3, <3>2
      <4> QED BY <2>4, <3>2, <4>1
    <3>3. i \in 1..g \/ i = t
      BY <2>3
    <3> QED BY <3>1, <3>2, <3>3, Zenon
  <2>6. Len(b) = Len(Append(a, "^D")) /\ \A i \in 1..Len(b) : b[i] = Append(a, "^D")[i]
    BY <2>2, <2>3, <2>4, <2>5
  <2>7. b = Append(a, "^D")
    BY <2>2, <2>4, <2>6, SeqEqual, Zenon
  <2>8. Append(SubSeq(Committed, 1, g), "^D") = SubSeq(Committed, 1, t)
    BY <2>7 DEF a, b
  <2>9. t > 0
    BY <2>3
  <2> QED BY <1>1, <2>8, <2>9
<1>19. rpc' \in [Readers -> {"user", "reading", "asleep"}]
  BY <1>1 DEF ConsoleInv
<1>20. todo' \in [Readers -> [n : Nat, target : Nat]]
  BY <1>1, <1>4, <1>5 DEF ConsoleInv, Returned
<1>21. \A q \in Readers : todo'[q].n <= todo'[q].target /\ (rpc'[q] # "user" => todo'[q].n > 0)
  <2> SUFFICES ASSUME NEW q \in Readers
               PROVE  todo'[q].n <= todo'[q].target /\ (rpc'[q] # "user" => todo'[q].n > 0)
    OBVIOUS
  <2>1. CASE q # p
    BY <1>1, <2>1 DEF ConsoleInv
  <2>2. CASE q = p /\ out
    BY <1>1, <2>2 DEF ConsoleInv, Returned
  <2>3. CASE q = p /\ ~out
    <3>1. todo'[p].n = n /\ todo'[p].target = todo[p].target
      BY <1>1, <1>4, <2>3 DEF ConsoleInv
    <3> QED BY <1>4, <1>5, <1>6, <2>3, <3>1
  <2> QED BY <2>1, <2>2, <2>3
<1>22. Committed' # <<>> => \A q \in Readers : rpc'[q] # "asleep"
  <2> SUFFICES ASSUME Committed' # <<>>, NEW q \in Readers PROVE rpc'[q] # "asleep"
    OBVIOUS
  <2>1. Len(Committed') \in Nat \ {0}
    BY <1>13, EmptySeq
  <2>2. out
    BY <1>3, <1>6, <1>7, <1>13, <2>1
  <2> QED BY <1>1, <2>2 DEF ConsoleInv
<1>23. ConsoleInv'
  BY <1>1, <1>11, <1>14, <1>16, <1>19, <1>20, <1>21, <1>22 DEF ConsoleInv
<1>24. t \in 0..L /\ Committed' = SubSeq(Committed, t + 1, L) /\ Len(Committed') = L - t
  BY <1>5, <1>12, <1>13
<1>25. given' = SubSeq(Committed, 1, t) \/ (t > 0 /\ Append(given', "^D") = SubSeq(Committed, 1, t))
  BY <1>8, <1>17, <1>18
<1>26. FrontTaken
  BY <1>24, <1>25, Zenon DEF FrontTaken, L
<1> QED BY <1>23, <1>26

LEMMA ConsoleInit1 == ConsoleInit => ConsoleInv
<1> SUFFICES ASSUME ConsoleInit PROVE ConsoleInv
  OBVIOUS
<1>1. /\ input = [buf |-> [i \in 0..(INPUTBUF - 1) |-> "nl"], r |-> 0, w |-> 0, e |-> 0]
      /\ rpc = [p \in Readers |-> "user"] /\ todo = [p \in Readers |-> Returned]
      /\ signalled = {} /\ given = <<>>
  BY DEF ConsoleInit
<1>2. 0 \in 0..(COUNT - 1) /\ "nl" \in Kept
  BY ConsoleNumbers DEF Kept
<1>3. input \in Buffer /\ input.r = 0 /\ input.w = 0 /\ input.e = 0
  BY <1>1, <1>2 DEF Buffer
<1>4. Diff(0, 0) = 0
  <2>1. 0 - 0 = 0 /\ 0 % COUNT = 0
    BY ConsoleNumbers
  <2> QED BY <2>1 DEF Diff
<1>5. Diff(input.w, input.r) + Diff(input.e, input.w) <= INPUTBUF
  BY <1>3, <1>4, ConsoleNumbers
<1>6. \A p \in Readers : todo[p].n <= todo[p].target /\ rpc[p] = "user"
  BY <1>1 DEF Returned
<1>7. todo \in [Readers -> [n : Nat, target : Nat]] /\ rpc \in [Readers -> {"user", "reading", "asleep"}]
  BY <1>1 DEF Returned
<1> QED BY <1>1, <1>3, <1>5, <1>6, <1>7, EmptySeq DEF ConsoleInv

\* The three things a step does to what can be read.
LineStep ==
  \/ Committed' = Committed /\ given' = <<>>
  \/ FrontTaken
  \/ given' = <<>> /\ \E c \in Kept : Committed' = Committed \o Append(Editing, c)

LEMMA ConsoleStep ==
  ASSUME ConsoleInv, ConsoleNext
  PROVE  ConsoleInv' /\ LineStep
<1>1. CASE KillLine
  BY <1>1, KillLineKeeps DEF LineStep
<1>2. CASE Backspace
  BY <1>2, BackspaceKeeps DEF LineStep
<1>3. ASSUME NEW c \in Kept, Type(c) PROVE ConsoleInv' /\ LineStep
  BY <1>3, TypeKeeps, Zenon DEF LineStep
<1>4. ASSUME NEW p \in Readers, NEW n \in Sizes, Read(p, n) PROVE ConsoleInv' /\ LineStep
  BY <1>4, ReadKeepsConsole DEF LineStep
<1>5. ASSUME NEW p \in Readers, Consume(p) PROVE ConsoleInv' /\ LineStep
  BY <1>5, ConsumeKeeps DEF LineStep
<1>6. ASSUME NEW p \in Readers, NothingToRead(p) PROVE ConsoleInv' /\ LineStep
  BY <1>6, NothingKeeps DEF LineStep
<1>7. ASSUME NEW p \in Readers, KillReader(p) PROVE ConsoleInv' /\ LineStep
  BY <1>7, KillReaderKeeps DEF LineStep
<1> QED BY <1>1, <1>2, <1>3, <1>4, <1>5, <1>6, <1>7 DEF ConsoleNext

LEMMA ConsoleStutters == ConsoleInv /\ UNCHANGED consoleVars => ConsoleInv'
BY LinesAre DEF ConsoleInv, consoleVars

LEMMA ConsoleInvHolds == ConsoleSpec => []ConsoleInv
<1>1. ConsoleInv /\ [ConsoleNext]_consoleVars => ConsoleInv'
  BY ConsoleStep, ConsoleStutters
<1> QED BY <1>1, ConsoleInit1, PTL DEF ConsoleSpec

\* console.c:191-199, 225-279.  The types, and the order of the counters.
THEOREM ConsoleTyped == ConsoleSpec => []ConsoleTypeOK
<1>1. ConsoleInv => ConsoleTypeOK
  BY BufferHas DEF ConsoleInv, ConsoleTypeOK
<1> QED BY <1>1, ConsoleInvHolds, PTL

\* The step in the words of the property, where what is taken is the difference of
\* the lengths.
LEMMA LineStepTells ==
  ASSUME ConsoleInv, ConsoleInv', LineStep
  PROVE  LineInOrder
<1> DEFINE old == Committed
           new == Committed'
           lost == Len(old) - Len(new)
<1>1. new # <<>> => \A p \in Readers : rpc'[p] # "asleep"
  BY DEF ConsoleInv
<1>2. CASE FrontTaken
  <2>1. PICK t \in 0..Len(old) :
          /\ new = SubSeq(old, t + 1, Len(old)) /\ Len(new) = Len(old) - t
          /\ \/ given' = SubSeq(old, 1, t)
             \/ t > 0 /\ Append(given', "^D") = SubSeq(old, 1, t)
    BY <1>2, Zenon DEF FrontTaken
  <2>2. Len(old) \in Nat /\ old \in Seq(Kept)
    BY InvHas
  <2> HIDE DEF new
  <2>3. lost = t
    BY <2>1, <2>2
  <2>4. CASE t > 0
    BY <2>1, <2>3, <2>4, <1>1 DEF new, LineInOrder
  <2>5. CASE t = 0
    <3>1. new = SubSeq(old, 1, Len(old)) /\ given' = SubSeq(old, 1, 0)
      BY <2>1, <2>5
    <3>2. new = old /\ given' = <<>>
      <4>1. 1 \in Int /\ 0 \in Int /\ 0 < 1
        OBVIOUS
      <4> QED BY <2>2, <3>1, <4>1, SubSeqFull, SubSeqEmpty
    <3> QED BY <3>2, <1>1 DEF new, LineInOrder
  <2>6. t > 0 \/ t = 0
    BY <2>2
  <2> QED BY <2>4, <2>5, <2>6
<1> QED BY <1>1, <1>2 DEF LineStep, LineInOrder

\* console.c:191-279.  The readers get what was typed, in order and once, and
\* nobody sleeps when there is something to read.
THEOREM LinesReadInOrder == ConsoleSpec => LinesKept
<1>1. ConsoleInv /\ ConsoleInv' /\ [ConsoleNext]_consoleVars =>
        [LineInOrder]_consoleVars
  BY ConsoleStep, LineStepTells
<1> QED BY <1>1, ConsoleInvHolds, PTL DEF ConsoleSpec, LinesKept

-----------------------------------------------------------------------------
\* The threads: the inductive invariant.

States == {"UNUSED", "EMBRYO", "SLEEPING", "RUNNABLE", "ZOMBIE"}
SlotRecord == [state : States, ours : BOOLEAN, parent : 0..Outside, tid : Nat, tmaker : 0..NSLOTS,
               sz : 0..KERNBASE, thdva : Pages, killed : BOOLEAN, limit : Nat]
ThreadPlaces == {"user", "free", "dead", "create", "stack", "publish", "again", "fork", "forked",
                 "other", "wait", "join", "grown", "set", "exec", "exec2", "exit"}

ThreadTypes ==
  /\ thd \in [TSlots -> SlotRecord]
  /\ \A s \in TSlots : thd[s].tid < nextTid
  /\ spare \in [TSlots -> Seq(Pages)] /\ \A s \in TSlots : Len(spare[s]) < NTHREAD
  /\ mapped \subseteq Pages
  /\ nextTid \in Nat \ {0} /\ taken \in 0..MaxTaken
  /\ tpc \in [TSlots -> ThreadPlaces]
  /\ targ \in [TSlots -> Nat]
  /\ parentAsleep \in BOOLEAN /\ nested \in BOOLEAN
  /\ wreck \in {"none", "remap", "kfree", "zombie exit", "freed stack", "freed pgdir",
                "hole", "lock held"}

\* A slot that the scheduler may find in user code or between two sections.
Active(s) == tpc[s] \notin {"free", "dead", "other"}
Making(s) == tpc[s] \in {"create", "stack", "fork"}
Execs == {"exec", "exec2", "exit"}

\* One slot: where it is, in which state, and whose.
SlotInv(s) ==
  /\ Active(s) => /\ thd[s].ours /\ thd[s].state \in {"RUNNABLE", "SLEEPING"}
                  /\ s # Main => thd[s].tid # 0
  /\ thd[s].state = "SLEEPING" => tpc[s] \in {"join", "wait"}
  /\ thd[s].state = "ZOMBIE" => tpc[s] = "dead" /\ (thd[s].tid # 0 => thd[s].ours)
  /\ thd[s].state = "UNUSED" => /\ tpc[s] = "free" /\ thd[s].parent \in {0, Outside}
                                /\ thd[s].ours => thd[s].tid = 0
  /\ thd[s].state = "EMBRYO" => tpc[s] \in {"free", "other"}
  /\ tpc[s] = "other" => ~thd[s].ours /\ thd[s].tid = 0 /\ thd[s].parent # Outside
  /\ thd[s].ours => thd[s].parent = Outside
  /\ tpc[s] \in {"publish", "again", "forked"} => targ[s] \in TSlots
  /\ tpc[s] \in {"grown", "set"} => targ[s] \in 0..KERNBASE
  /\ tpc[s] = "exec2" => targ[s] \in 0..100
  /\ tpc[s] = "join" => targ[s] # 0

\* The slot that s is about to give to a thread or a child is nobody else's.
MakingInv(s) ==
  Making(s) => /\ targ[s] \in TSlots /\ tpc[targ[s]] = "free" /\ thd[targ[s]].tid = 0
               /\ thd[targ[s]].state \in {"EMBRYO", "RUNNABLE"}
               /\ thd[targ[s]].ours = (tpc[s] = "stack") /\ thd[targ[s]].parent \in {0, Outside}

\* The process itself stays in its slot as long as one of its slots does anything
\* but exit(); in exec() and exit() the slot is alone.
MainInv ==
  /\ thd[Main].ours => /\ thd[Main].tid = 0 /\ thd[Main].tmaker = Main /\ thd[Main].state # "UNUSED"
                       /\ \A s \in TSlots \ {Main} : thd[s].limit = 0
  /\ \A s \in TSlots : Active(s) /\ tpc[s] # "exit" => Active(Main)
  /\ \A s \in TSlots : tpc[s] \in Execs => \A t \in TSlots \ {s} : ~thd[t].ours

PairInv ==
  /\ \A s, t \in TSlots : Making(s) /\ Making(t) /\ s # t => targ[s] # targ[t]
  /\ \A s, t \in TSlots : thd[s].tid = thd[t].tid /\ thd[s].tid # 0 => s = t

SlotsInv == (\A s \in TSlots : SlotInv(s) /\ MakingInv(s)) /\ MainInv /\ PairInv

MadeByMain == ~nested => \A s \in TSlots : HasStack(s) => thd[s].tmaker = Main

\* Every page below n is mapped or belongs to a spare stack.
CoveredBy(n, m, ring) ==
  \A page \in 0..(n - 1) : page \in m \/ \E i \in DOMAIN ring : page \in StackAt(ring[i])

\* All sizes that a slot holds, but for the process between the two halves of a
\* growproc() that gives memory back: it is alone then.
SizesCovered ==
  \A s \in TSlots : Active(s) \/ s = Main =>
    /\ \/ CoveredBy(thd[s].sz, mapped, spare[Main])
       \/ s = Main /\ tpc[s] = "grown" /\ \A t \in TSlots \ {Main} : ~Active(t)
    /\ tpc[s] \in {"grown", "set"} => CoveredBy(targ[s], mapped, spare[Main])

\* A stack is made only when none is spare: the ring does not run over.
SpareFits == Len(spare[Main]) + Cardinality({s \in TSlots : HasStack(s)}) <= NSLOTS - 1

MemoryInv == (Unlimited /\ ~nested) => SizesCovered /\ SpareFits

ThreadsInv ==
  /\ ThreadTypes
  /\ wreck = "none" => SlotsInv /\ StacksApart /\ JoinersWait /\ MadeByMain /\ MemoryInv
  /\ wreck = "hole" => HolesSpare

LEMMA ThreadNumbers ==
  /\ NSLOTS \in Nat \ {0} /\ NTHREAD \in Nat /\ NTHREAD > NSLOTS
  /\ IMAGE \in Nat \ {0} /\ KERNBASE \in Nat /\ KERNBASE > IMAGE
  /\ Main = 1 /\ Main \in TSlots /\ TSlots \subseteq Nat \ {0} /\ TSlots = 1..NSLOTS
  /\ Outside = NSLOTS + 1 /\ Outside \notin TSlots /\ Outside # 0 /\ IsFiniteSet(TSlots)
<1>1. IsFiniteSet(1..NSLOTS)
  BY ThreadsAssumption, FS_Interval
<1> QED BY <1>1, ThreadsAssumption DEF Main, TSlots, Outside

LEMMA TypesGive == ThreadTypes => ThreadsTypeOK
<1> SUFFICES ASSUME ThreadTypes PROVE ThreadsTypeOK
  OBVIOUS
<1>1. \A s \in TSlots : thd[s].tid \in 0..(nextTid - 1)
  <2> TAKE s \in TSlots
  <2>1. thd[s].tid \in Nat /\ thd[s].tid < nextTid /\ nextTid \in Nat
    BY DEF ThreadTypes, SlotRecord
  <2> QED BY <2>1
<1>2. thd \in [TSlots -> [state : {"UNUSED", "EMBRYO", "SLEEPING", "RUNNABLE", "ZOMBIE"},
                         ours : BOOLEAN, parent : 0..Outside, tid : 0..(nextTid - 1), tmaker : 0..NSLOTS,
                         sz : 0..KERNBASE, thdva : Pages, killed : BOOLEAN, limit : Nat]]
  BY <1>1 DEF ThreadTypes, SlotRecord, States
<1> QED BY <1>2 DEF ThreadTypes, ThreadsTypeOK, ThreadPlaces

\* What the kernel dies of leaves everything else as it was.
LEMMA PanicKeeps ==
  ASSUME ThreadsInv, NEW why, Panic(why),
         why \in {"remap", "kfree", "zombie exit", "freed stack", "freed pgdir", "lock held"}
  PROVE  ThreadsInv'
BY DEF ThreadsInv, ThreadTypes, Panic

\* A slot that keeps its place; it may be revived, and passed to init.
Steady(t) ==
  /\ thd'[t].ours = thd[t].ours /\ thd'[t].tid = thd[t].tid /\ thd'[t].tmaker = thd[t].tmaker
  /\ thd'[t].limit = thd[t].limit \/ t = Main \/ ~thd'[Main].ours
  /\ thd'[t].parent = thd[t].parent \/ (thd'[t].parent = 0 /\ thd[t].parent \in TSlots)
  /\ thd'[t].state = thd[t].state \/ thd'[t].state = "RUNNABLE"
  /\ tpc'[t] = tpc[t] /\ targ'[t] = targ[t]

\* The slot s goes from one section of the kernel to the next.
Walks(s) ==
  /\ Active(s)
  /\ thd'[s].ours = thd[s].ours /\ thd'[s].tid = thd[s].tid /\ thd'[s].tmaker = thd[s].tmaker
  /\ thd'[s].limit = thd[s].limit \/ s = Main
  /\ thd'[s].parent = thd[s].parent
  /\ thd'[s].state = "RUNNABLE" \/ (thd'[s].state = "SLEEPING" /\ tpc'[s] \in {"join", "wait"})
  /\ tpc'[s] \in {"user", "publish", "again", "forked", "grown", "set", "wait", "join"}
  /\ tpc'[s] \in {"publish", "again", "forked"} => targ'[s] \in TSlots
  /\ tpc'[s] \in {"grown", "set"} => targ'[s] \in 0..KERNBASE
  /\ tpc'[s] = "join" => targ'[s] # 0

\* The slot t dies, or is given back.
Dies(t) ==
  /\ Active(t) \/ tpc[t] = "other"
  /\ thd'[t].ours = thd[t].ours /\ thd'[t].tid = thd[t].tid /\ thd'[t].tmaker = thd[t].tmaker
  /\ thd'[t].limit = thd[t].limit \/ t = Main
  /\ thd'[t].parent = thd[t].parent \/ (thd'[t].parent = 0 /\ thd[t].parent \in TSlots)
  /\ thd'[t].state = "ZOMBIE" /\ tpc'[t] = "dead"

Leaves(t) ==
  /\ thd'[t].state = "UNUSED" /\ ~thd'[t].ours /\ thd'[t].parent = 0
  /\ thd'[t].tid = thd[t].tid /\ tpc'[t] = "free" /\ thd'[t].limit = 0

LEMMA SteadySlot ==
  ASSUME NEW t \in TSlots, SlotInv(t), Steady(t) PROVE SlotInv(t)'
BY ThreadNumbers DEF SlotInv, Steady, Active

LEMMA WalkingSlot ==
  ASSUME NEW t \in TSlots, SlotInv(t), Walks(t) PROVE SlotInv(t)'
BY ThreadNumbers DEF SlotInv, Walks, Active

LEMMA DyingSlot ==
  ASSUME NEW t \in TSlots, SlotInv(t), Dies(t) PROVE SlotInv(t)'
BY ThreadNumbers DEF SlotInv, Dies, Active

LEMMA LeavingSlot ==
  ASSUME NEW t \in TSlots, Leaves(t) PROVE SlotInv(t)'
BY ThreadNumbers DEF SlotInv, Leaves, Active

\* Who goes on making a slot finds it as it was.
LEMMA MakingKept ==
  ASSUME NEW t \in TSlots, MakingInv(t),
         Making(t)' => tpc'[t] = tpc[t] /\ targ'[t] = targ[t] /\ Steady(targ[t])
  PROVE  MakingInv(t)'
BY ThreadNumbers DEF MakingInv, Making, Steady

LEMMA PairKept ==
  ASSUME PairInv, \A t \in TSlots : /\ Making(t)' => Making(t) /\ targ'[t] = targ[t]
                                    /\ thd'[t].tid = thd[t].tid \/ thd'[t].tid = 0
  PROVE  PairInv'
BY DEF PairInv

\* Each slot keeps its place, walks, dies or leaves, and no slot that is being
\* made does more than the first.
LEMMA MoveKeepsSlots ==
  ASSUME SlotsInv,
         \A t \in TSlots : Steady(t) \/ Walks(t) \/ Dies(t) \/ Leaves(t),
         \A t \in TSlots : Making(t)' => Steady(targ[t]),
         \A t \in TSlots : Active(t)' /\ tpc'[t] # "exit" => Active(Main)'
  PROVE  SlotsInv'
<1>1. \A t \in TSlots : SlotInv(t)'
  BY SteadySlot, WalkingSlot, DyingSlot, LeavingSlot DEF SlotsInv
<1>2. \A t \in TSlots : tpc'[t] \in {"create", "stack", "fork", "exec", "exec2", "exit"} => Steady(t)
  BY DEF Walks, Dies, Leaves
<1>3. \A t \in TSlots : Making(t)' => Making(t) /\ tpc'[t] = tpc[t] /\ targ'[t] = targ[t]
  BY <1>2 DEF Making, Steady
<1>4. \A t \in TSlots : MakingInv(t)'
  BY <1>3, MakingKept DEF SlotsInv
<1>5. \A t \in TSlots : thd'[t].tid = thd[t].tid
  BY DEF Steady, Walks, Dies, Leaves
<1>6. PairInv'
  BY <1>3, <1>5, PairKept DEF SlotsInv
<1>7. \A t \in TSlots : thd'[t].ours => thd[t].ours /\ thd'[t].tmaker = thd[t].tmaker
  BY DEF Steady, Walks, Dies, Leaves
<1>8. \A t \in TSlots : thd'[t].limit = thd[t].limit \/ t = Main \/ thd'[t].limit = 0 \/ ~thd'[Main].ours
  BY DEF Steady, Walks, Dies, Leaves
<1>9. \A t \in TSlots : tpc'[t] \in Execs => tpc[t] \in Execs
  BY <1>2 DEF Steady, Execs
<1>10. \A t \in TSlots : thd'[t].ours => thd'[t].state = thd[t].state \/ thd'[t].state # "UNUSED"
  BY DEF Steady, Walks, Dies, Leaves
<1>11. MainInv'
  BY <1>5, <1>7, <1>8, <1>9, <1>10, ThreadNumbers DEF SlotsInv, MainInv
<1> QED BY <1>1, <1>4, <1>6, <1>11 DEF SlotsInv

\* What a step does to the stacks: it gives and takes none, nor pages, nor spare
\* ones, unless the process has or gets a memory limit.
StacksStay ==
  /\ \A t \in TSlots : HasStack(t)' => /\ HasStack(t) /\ thd'[t].thdva = thd[t].thdva
                                       /\ thd'[t].tmaker = thd[t].tmaker
  /\ nested' = nested
  /\ Unlimited' => Unlimited /\ mapped \subseteq mapped' /\ spare'[Main] = spare[Main]

\* What it does to the sizes: a slot keeps its own or gets one that is covered.
SizesStay ==
  \A t \in TSlots : Active(t)' \/ t = Main =>
    /\ \/ CoveredBy(thd'[t].sz, mapped, spare[Main])
       \/ /\ thd'[t].sz = thd[t].sz /\ (Active(t) \/ t = Main)
          /\ tpc[t] = "grown" => tpc'[t] = "grown"
    /\ tpc'[t] \in {"grown", "set"} => tpc[t] \in {"grown", "set"} /\ targ'[t] = targ[t]
    /\ t # Main => Active(t)

LEMMA StacksKept ==
  ASSUME StacksStay, wreck = "none", wreck' = "none", StacksApart, MadeByMain
  PROVE  StacksApart' /\ MadeByMain'
<1>1. ASSUME Unlimited', NEW s \in TSlots, HasStack(s)'
      PROVE  /\ StackAt(thd'[s].thdva) \subseteq mapped'
             /\ \A t \in TSlots \ {s} : HasStack(t)' => StackAt(thd'[s].thdva) \cap StackAt(thd'[t].thdva) = {}
             /\ \A i \in DOMAIN spare'[Main] : nested' \/
                   StackAt(thd'[s].thdva) \cap StackAt(spare'[Main][i]) = {}
  <2>1. /\ Unlimited /\ mapped \subseteq mapped' /\ spare'[Main] = spare[Main] /\ nested' = nested
        /\ \A t \in TSlots : HasStack(t)' => HasStack(t) /\ thd'[t].thdva = thd[t].thdva
    BY <1>1 DEF StacksStay
  <2>2. /\ StackAt(thd[s].thdva) \subseteq mapped
        /\ \A t \in TSlots \ {s} : HasStack(t) => StackAt(thd[s].thdva) \cap StackAt(thd[t].thdva) = {}
        /\ \A i \in DOMAIN spare[Main] : nested \/
              StackAt(thd[s].thdva) \cap StackAt(spare[Main][i]) = {}
    BY <1>1, <2>1 DEF StacksApart
  <2> HIDE DEF StackAt, HasStack
  <2> QED BY <1>1, <2>1, <2>2
<1>2. ASSUME Unlimited', NEW i \in DOMAIN spare'[Main], NEW j \in DOMAIN spare'[Main], i # j, ~nested'
      PROVE  StackAt(spare'[Main][i]) \cap StackAt(spare'[Main][j]) = {}
  <2>1. Unlimited /\ spare'[Main] = spare[Main] /\ nested' = nested
    BY <1>2 DEF StacksStay
  <2> QED BY <1>2, <2>1 DEF StacksApart
<1>3. StacksApart'
  BY <1>1, <1>2 DEF StacksApart
<1>4. MadeByMain'
  BY DEF MadeByMain, StacksStay
<1> QED BY <1>3, <1>4

LEMMA StacksFinite == IsFiniteSet({s \in TSlots : HasStack(s)})
<1>1. {s \in TSlots : HasStack(s)} \subseteq TSlots
  OBVIOUS
<1> QED BY <1>1, ThreadNumbers, FS_Subset

LEMMA FitsKept ==
  ASSUME StacksStay, Unlimited', ThreadTypes, SpareFits
  PROVE  SpareFits'
<1> DEFINE A == {s \in TSlots : HasStack(s)}  B == {s \in TSlots : HasStack(s)'}
<1>1. B \subseteq A
  BY DEF StacksStay
<1>2. IsFiniteSet(A)
  BY StacksFinite
<1>3. Cardinality(B) <= Cardinality(A) /\ Cardinality(A) \in Nat /\ Cardinality(B) \in Nat
  BY <1>1, <1>2, FS_Subset, FS_CardinalityType
<1>4. Len(spare'[Main]) = Len(spare[Main]) /\ Len(spare[Main]) \in Nat
  BY ThreadNumbers, LenProperties DEF StacksStay, ThreadTypes
<1>5. Len(spare[Main]) + Cardinality(A) <= NSLOTS - 1
  BY DEF SpareFits
<1> HIDE DEF A, B
<1>6. Len(spare'[Main]) + Cardinality(B) <= NSLOTS - 1
  BY <1>3, <1>4, <1>5, ThreadNumbers
<1> QED BY <1>6 DEF B, SpareFits

LEMMA CoveredMore ==
  ASSUME NEW n, NEW m, NEW k, NEW ring, m \subseteq k, CoveredBy(n, m, ring)
  PROVE  CoveredBy(n, k, ring)
BY DEF CoveredBy

LEMMA SizesKept ==
  ASSUME SizesStay, mapped \subseteq mapped', spare'[Main] = spare[Main], SizesCovered
  PROVE  SizesCovered'
<1> DEFINE C(n) == CoveredBy(n, mapped, spare[Main])  D(n) == CoveredBy(n, mapped', spare'[Main])
<1>1. \A n : C(n) => D(n)
  BY CoveredMore
<1>2. \A t \in TSlots : Active(t)' /\ t # Main => Active(t)
  BY DEF SizesStay
<1>3. ASSUME NEW s \in TSlots, Active(s)' \/ s = Main
      PROVE  /\ \/ D(thd'[s].sz)
                \/ s = Main /\ tpc'[s] = "grown" /\ \A t \in TSlots \ {Main} : ~Active(t)'
             /\ tpc'[s] \in {"grown", "set"} => D(targ'[s])
  <2>1. /\ \/ C(thd'[s].sz)
           \/ /\ thd'[s].sz = thd[s].sz /\ (Active(s) \/ s = Main)
              /\ tpc[s] = "grown" => tpc'[s] = "grown"
        /\ tpc'[s] \in {"grown", "set"} => tpc[s] \in {"grown", "set"} /\ targ'[s] = targ[s]
        /\ s # Main => Active(s)
    BY <1>3 DEF SizesStay
  <2>2. /\ \/ C(thd[s].sz)
           \/ s = Main /\ tpc[s] = "grown" /\ \A t \in TSlots \ {Main} : ~Active(t)
        /\ tpc[s] \in {"grown", "set"} => C(targ[s])
    BY <2>1 DEF SizesCovered
  <2> HIDE DEF C, D, Active
  <2> QED BY <1>1, <1>2, <2>1, <2>2
<1> QED BY <1>3 DEF SizesCovered

LEMMA MemoryKept ==
  ASSUME StacksStay, Unlimited /\ ~nested => SizesStay, ThreadTypes, MemoryInv
  PROVE  MemoryInv'
<1> SUFFICES ASSUME Unlimited', ~nested' PROVE SizesCovered' /\ SpareFits'
  BY DEF MemoryInv
<1>1. Unlimited /\ nested' = nested /\ mapped \subseteq mapped' /\ spare'[Main] = spare[Main]
  BY DEF StacksStay
<1>2. SizesCovered /\ SpareFits
  BY <1>1 DEF MemoryInv
<1> QED BY <1>1, <1>2, SizesKept, FitsKept

\* Who will wake the slot s.
Cause(s, t) == Live(t) /\ IF tpc[s] = "wait" THEN thd[t].parent = s ELSE thd[t].tid = targ[s]

LEMMA JoinersKept ==
  ASSUME JoinersWait, wreck = "none", SlotsInv',
         \A s \in TSlots : thd'[s].state = "SLEEPING" =>
           \/ \E t \in TSlots : Cause(s, t)'
           \/ thd[s].state = "SLEEPING" /\ \A t \in TSlots : Cause(s, t) => Cause(s, t)',
         \/ ~parentAsleep'
         \/ \E t \in TSlots : Active(t)'
         \/ /\ parentAsleep
            /\ \A t \in TSlots : thd[t].parent = Outside /\ (Live(t) \/ thd[t].state = "UNUSED") =>
                 thd'[t].parent = Outside /\ (Live(t)' \/ thd'[t].state = "UNUSED")
  PROVE  JoinersWait'
<1>1. ASSUME NEW s \in TSlots, thd'[s].state = "SLEEPING" PROVE \E t \in TSlots : Cause(s, t)'
  <2>1. thd[s].state = "SLEEPING" => \E t \in TSlots : Cause(s, t)
    BY DEF JoinersWait, Cause
  <2> HIDE DEF Cause
  <2> QED BY <1>1, <2>1
<1>2. ASSUME parentAsleep'
      PROVE \E s \in TSlots : thd'[s].parent = Outside /\ (Live(s)' \/ thd'[s].state = "UNUSED")
  <2>1. CASE \E t \in TSlots : Active(t)'
    <3>1. PICK t \in TSlots : Active(t)'
      BY <2>1
    <3>2. SlotInv(t)'
      BY DEF SlotsInv
    <3>3. thd'[t].parent = Outside /\ Live(t)'
      BY <3>1, <3>2 DEF SlotInv, Live
    <3> QED BY <3>3
  <2>2. CASE /\ parentAsleep
             /\ \A t \in TSlots : thd[t].parent = Outside /\ (Live(t) \/ thd[t].state = "UNUSED") =>
                 thd'[t].parent = Outside /\ (Live(t)' \/ thd'[t].state = "UNUSED")
    <3>1. \E s \in TSlots : thd[s].parent = Outside /\ (Live(s) \/ thd[s].state = "UNUSED")
      BY <2>2 DEF JoinersWait
    <3> HIDE DEF Live
    <3> QED BY <2>2, <3>1
  <2> QED BY <1>2, <2>1, <2>2
<1> QED BY <1>1, <1>2 DEF JoinersWait, Cause

\* What holds as long as the kernel lives.
Good == SlotsInv /\ StacksApart /\ JoinersWait /\ MadeByMain /\ MemoryInv
Fine == ThreadTypes /\ wreck = "none" /\ Good

LEMMA GoodIsEnough ==
  ASSUME ThreadTypes', wreck' = "none", Good' PROVE ThreadsInv'
BY DEF ThreadsInv, Good

LEMMA GoToGives ==
  ASSUME ThreadTypes, NEW s \in TSlots, NEW pc, NEW arg, GoTo(s, pc, arg)
  PROVE  /\ tpc'[s] = pc /\ targ'[s] = arg
         /\ \A t \in TSlots \ {s} : tpc'[t] = tpc[t] /\ targ'[t] = targ[t]
         /\ pc \in ThreadPlaces => tpc' \in [TSlots -> ThreadPlaces]
         /\ arg \in Nat => targ' \in [TSlots -> Nat]
BY DEF GoTo, ThreadTypes

\* A slot that is still the same thread or child.
SameSlot(t) ==
  /\ thd'[t].ours = thd[t].ours /\ thd'[t].tid = thd[t].tid /\ thd'[t].tmaker = thd[t].tmaker
  /\ thd'[t].limit = thd[t].limit /\ thd'[t].parent = thd[t].parent /\ thd'[t].thdva = thd[t].thdva

\* One slot goes on; of the others at most the state and the size change.
LEMMA SimpleStep ==
  ASSUME Fine, ThreadTypes', NEW s \in TSlots, thd[s].state = "RUNNABLE", Walks(s), tpc[s] # "exit",
         mapped' = mapped, spare' = spare, nested' = nested, wreck' = "none",
         \A t \in TSlots \ {s} : Steady(t),
         \A t \in TSlots : /\ thd'[t].thdva = thd[t].thdva /\ thd'[t].parent = thd[t].parent
                           /\ thd'[t].limit = thd[t].limit,
         Unlimited /\ ~nested => SizesStay,
         thd'[s].state = "SLEEPING" => \E t \in TSlots : Cause(s, t)'
  PROVE  ThreadsInv'
<1>1. \A t \in TSlots : /\ thd'[t].ours = thd[t].ours /\ thd'[t].tid = thd[t].tid /\ thd'[t].tmaker = thd[t].tmaker
                        /\ thd'[t].state = thd[t].state \/ thd'[t].state = "RUNNABLE" \/ t = s
  BY DEF Steady, Walks
<1>2. SlotsInv /\ StacksApart /\ JoinersWait /\ MadeByMain /\ MemoryInv /\ ThreadTypes /\ wreck = "none"
  BY DEF Fine, Good
<1>3. Active(s) /\ Active(s)' /\ thd'[s].state \in {"RUNNABLE", "SLEEPING"}
  BY DEF Walks, Active
<1>4. Active(Main)'
  <2>1. Active(Main)
    BY <1>2, <1>3 DEF SlotsInv, MainInv
  <2>2. Main # s => Active(Main)'
    BY <2>1, ThreadNumbers DEF Steady, Active
  <2> QED BY <1>3, <2>2
<1>5. SlotsInv'
  <2>1. \A t \in TSlots : Steady(t) \/ Walks(t)
    OBVIOUS
  <2>2. \A t \in TSlots : Making(t)' => t # s /\ Making(t) /\ targ'[t] = targ[t] /\ tpc'[t] = tpc[t]
    BY DEF Steady, Walks, Making
  <2>3. \A t \in TSlots : Making(t)' => targ[t] \in TSlots \ {s}
    BY <1>2, <1>3, <2>2 DEF SlotsInv, MakingInv, Active
  <2>4. \A t \in TSlots : Making(t)' => Steady(targ[t])
    BY <2>3
  <2> QED BY <1>2, <1>4, <2>1, <2>4, MoveKeepsSlots
<1>6. StacksStay
  <2>1. \A t \in TSlots : HasStack(t)' => HasStack(t)
    <3> TAKE t \in TSlots
    <3>1. SlotInv(t)
      BY <1>2 DEF SlotsInv
    <3>2. thd[s].state # "UNUSED"
      OBVIOUS
    <3> QED BY <1>1, <3>1, <3>2 DEF HasStack, SlotInv
  <2>2. Unlimited' => Unlimited
    BY <1>1, ThreadNumbers DEF Unlimited
  <2> QED BY <1>1, <2>1, <2>2 DEF StacksStay
<1>7. StacksApart' /\ MadeByMain' /\ MemoryInv'
  BY <1>2, <1>6, StacksKept, MemoryKept
<1>8. JoinersWait'
  <2>1. ASSUME NEW u \in TSlots, thd'[u].state = "SLEEPING", u # s
        PROVE  thd[u].state = "SLEEPING" /\ \A t \in TSlots : Cause(u, t) => Cause(u, t)'
    <3>1. thd[u].state = "SLEEPING" /\ tpc'[u] = tpc[u] /\ targ'[u] = targ[u]
      BY <2>1 DEF Steady
    <3>2. \A t \in TSlots : Live(t) => Live(t)'
      BY <1>1, <1>3 DEF Live
    <3> HIDE DEF Live
    <3> QED BY <1>1, <3>1, <3>2 DEF Cause
  <2> QED BY <1>2, <1>3, <1>5, <2>1, JoinersKept
<1> QED BY <1>5, <1>7, <1>8, GoodIsEnough DEF Good

LEMMA RingsTyped ==
  ASSUME ThreadTypes, NEW k \in TSlots, spare' = [spare EXCEPT ![k] = <<>>]
  PROVE  spare' \in [TSlots -> Seq(Pages)] /\ \A t \in TSlots : Len(spare'[t]) < NTHREAD
<1>1. <<>> \in Seq(Pages) /\ Len(<<>>) = 0
  OBVIOUS
<1>2. 0 < NTHREAD
  BY ThreadNumbers
<1>3. spare' \in [TSlots -> Seq(Pages)]
  BY <1>1 DEF ThreadTypes
<1>4. spare'[k] = <<>> /\ \A t \in TSlots \ {k} : spare'[t] = spare[t]
  BY DEF ThreadTypes
<1>5. \A t \in TSlots : Len(spare'[t]) < NTHREAD
  BY <1>1, <1>2, <1>4 DEF ThreadTypes
<1> QED BY <1>3, <1>5

LEMMA TypesMove ==
  ASSUME ThreadTypes, thd' \in [TSlots -> SlotRecord], \A t \in TSlots : thd'[t].tid = thd[t].tid,
         tpc' \in [TSlots -> ThreadPlaces], targ' \in [TSlots -> Nat], mapped' \subseteq mapped,
         spare' = spare \/ \E k \in TSlots : spare' = [spare EXCEPT ![k] = <<>>],
         nextTid' = nextTid, taken' = taken, parentAsleep' \in BOOLEAN, nested' = nested,
         wreck' \in {"none", "freed pgdir"}
  PROVE  ThreadTypes'
<1>1. \A t \in TSlots : thd'[t].tid < nextTid'
  BY DEF ThreadTypes
<1>2. spare' \in [TSlots -> Seq(Pages)] /\ \A t \in TSlots : Len(spare'[t]) < NTHREAD
  BY RingsTyped DEF ThreadTypes
<1> QED BY <1>1, <1>2 DEF ThreadTypes

LEMMA FineHas ==
  ASSUME Fine
  PROVE  /\ ThreadTypes /\ wreck = "none" /\ SlotsInv /\ StacksApart /\ JoinersWait
         /\ MadeByMain /\ MemoryInv /\ \A t \in TSlots : SlotInv(t) /\ MakingInv(t)
         /\ thd \in [TSlots -> SlotRecord] /\ tpc \in [TSlots -> ThreadPlaces]
         /\ targ \in [TSlots -> Nat] /\ spare \in [TSlots -> Seq(Pages)]
         /\ mapped \subseteq Pages /\ parentAsleep \in BOOLEAN
BY DEF Fine, Good, SlotsInv, ThreadTypes

LEMMA StateSet ==
  ASSUME thd \in [TSlots -> SlotRecord], NEW n \in TSlots, NEW st \in States,
         thd' = [thd EXCEPT ![n].state = st]
  PROVE  /\ thd' \in [TSlots -> SlotRecord] /\ thd'[n].state = st
         /\ \A t \in TSlots : SameSlot(t) /\ thd'[t].sz = thd[t].sz /\ thd'[t].killed = thd[t].killed
         /\ \A t \in TSlots \ {n} : thd'[t] = thd[t]
<1>1. thd'[n] = [thd[n] EXCEPT !.state = st] /\ \A t \in TSlots \ {n} : thd'[t] = thd[t]
  OBVIOUS
<1>2. thd[n] \in SlotRecord
  OBVIOUS
<1>3. /\ thd'[n] \in SlotRecord /\ thd'[n].state = st /\ SameSlot(n)
      /\ thd'[n].sz = thd[n].sz /\ thd'[n].killed = thd[n].killed
  BY <1>1, <1>2 DEF SlotRecord, SameSlot
<1>4. thd' \in [TSlots -> SlotRecord]
  BY <1>1, <1>3
<1> QED BY <1>1, <1>3, <1>4 DEF SameSlot

\* thread_create() and fork() mark the slot that they made.
LEMMA RevivedStep ==
  ASSUME Fine, NEW s \in TSlots, Runs(s, "again") \/ Runs(s, "forked"),
         thd' = [thd EXCEPT ![targ[s]].state = "RUNNABLE"], GoTo(s, "user", 0),
         UNCHANGED <<spare, mapped, nextTid>>, InKernel
  PROVE  ThreadsInv'
<1>1. targ[s] \in TSlots /\ Active(s) /\ thd[s].state = "RUNNABLE"
  BY FineHas DEF SlotInv, Runs, Active
<1>2. thd' = [thd EXCEPT ![targ[s]].state = "RUNNABLE"] /\ "RUNNABLE" \in States
  BY DEF States
<1>3. /\ thd' \in [TSlots -> SlotRecord]
      /\ \A t \in TSlots : SameSlot(t) /\ thd'[t].sz = thd[t].sz
           /\ (thd'[t].state = "RUNNABLE" \/ thd'[t].state = thd[t].state)
  BY FineHas, <1>1, <1>2, StateSet
<1>4. /\ tpc'[s] = "user" /\ targ'[s] = 0
      /\ \A t \in TSlots \ {s} : tpc'[t] = tpc[t] /\ targ'[t] = targ[t]
      /\ tpc' \in [TSlots -> ThreadPlaces] /\ targ' \in [TSlots -> Nat]
  BY FineHas, GoToGives DEF ThreadPlaces
<1>5. ThreadTypes'
  BY FineHas, <1>2, <1>3, <1>4, TypesMove DEF InKernel, SameSlot
<1>6. Walks(s) /\ tpc[s] # "exit" /\ \A t \in TSlots \ {s} : Steady(t)
  BY <1>1, <1>3, <1>4 DEF Walks, Steady, Runs, SameSlot
<1>7. SizesStay
  BY <1>1, <1>3, <1>4 DEF SizesStay, Active, Runs
<1>8. thd'[s].state # "SLEEPING"
  BY <1>1, <1>3
<1>9. mapped' = mapped /\ spare' = spare /\ nested' = nested /\ wreck' = "none"
  BY FineHas DEF InKernel
<1> QED BY <1>1, <1>3, <1>5, <1>6, <1>7, <1>8, <1>9, SimpleStep DEF SameSlot

\* One slot goes on; of the others at most the size changes.
LEMMA SizeStep ==
  ASSUME Fine, NEW s \in TSlots, Active(s), tpc[s] \notin Execs, thd[s].state = "RUNNABLE",
         thd' \in [TSlots -> SlotRecord],
         \A t \in TSlots : SameSlot(t) /\ (thd'[t].state = thd[t].state \/ t = s),
         NEW pc \in {"user", "again", "set", "join", "wait"}, NEW arg \in Nat, GoTo(s, pc, arg),
         pc = "again" => arg \in TSlots,
         pc = "set" => arg \in 0..KERNBASE /\ tpc[s] = "grown" /\ arg = targ[s],
         pc = "join" => arg # 0,
         \/ thd'[s].state = "RUNNABLE"
         \/ thd'[s].state = "SLEEPING" /\ pc \in {"join", "wait"} /\ \E t \in TSlots : Cause(s, t)',
         Unlimited /\ ~nested => \A t \in TSlots : Active(t) \/ t = Main =>
           CoveredBy(thd'[t].sz, mapped, spare[Main]) \/ (thd'[t].sz = thd[t].sz /\ (t = s => tpc[s] # "grown")),
         UNCHANGED <<spare, mapped, nextTid>>, InKernel
  PROVE  ThreadsInv'
<1>1. /\ tpc'[s] = pc /\ targ'[s] = arg
      /\ \A t \in TSlots \ {s} : tpc'[t] = tpc[t] /\ targ'[t] = targ[t]
      /\ tpc' \in [TSlots -> ThreadPlaces] /\ targ' \in [TSlots -> Nat]
  <2>1. pc \in ThreadPlaces
    BY DEF ThreadPlaces
  <2> QED BY <2>1, FineHas, GoToGives
<1>6. /\ mapped' = mapped /\ spare' = spare /\ nested' = nested /\ wreck' = "none"
      /\ nextTid' = nextTid /\ taken' = taken /\ parentAsleep' = parentAsleep
  BY FineHas DEF InKernel
<1>7. \A t \in TSlots : /\ thd'[t].thdva = thd[t].thdva /\ thd'[t].parent = thd[t].parent
                        /\ thd'[t].limit = thd[t].limit /\ thd'[t].tid = thd[t].tid
  BY DEF SameSlot
<1>2. ThreadTypes'
  <2>1. ThreadTypes /\ mapped' \subseteq mapped /\ parentAsleep' \in BOOLEAN /\ thd' \in [TSlots -> SlotRecord]
    BY FineHas, <1>6
  <2> QED BY <2>1, <1>1, <1>6, <1>7, TypesMove
<1>3. Walks(s) /\ tpc[s] # "exit" /\ \A t \in TSlots \ {s} : Steady(t)
  <2>1. tpc[s] # "exit"
    BY DEF Execs
  <2>2. \A t \in TSlots \ {s} : Steady(t)
    BY <1>1 DEF Steady, SameSlot
  <2>3. thd'[s].state = "RUNNABLE" \/ (thd'[s].state = "SLEEPING" /\ tpc'[s] \in {"join", "wait"})
    BY <1>1
  <2>4. tpc'[s] \in {"user", "again", "set", "join", "wait"}
    BY <1>1
  <2>5. Walks(s)
    <3>1. /\ tpc'[s] \in {"publish", "again", "forked"} => targ'[s] \in TSlots
          /\ tpc'[s] \in {"grown", "set"} => targ'[s] \in 0..KERNBASE
          /\ tpc'[s] = "join" => targ'[s] # 0
      BY <1>1, <2>4
    <3>2. /\ thd'[s].ours = thd[s].ours /\ thd'[s].tid = thd[s].tid /\ thd'[s].tmaker = thd[s].tmaker
          /\ thd'[s].limit = thd[s].limit /\ thd'[s].parent = thd[s].parent /\ Active(s)
      BY DEF SameSlot
    <3> QED BY <3>1, <3>2, <2>3, <2>4, Zenon DEF Walks
  <2> QED BY <2>1, <2>2, <2>5
<1>4. ASSUME Unlimited, ~nested PROVE SizesStay
  <2>1. \A t \in TSlots : Active(t) \/ t = Main =>
           CoveredBy(thd'[t].sz, mapped, spare[Main]) \/ (thd'[t].sz = thd[t].sz /\ (t = s => tpc[s] # "grown"))
    BY <1>4
  <2>2. \A t \in TSlots : Active(t)' => Active(t)
    BY <1>1 DEF Active
  <2> HIDE DEF Active
  <2> QED BY <1>1, <2>1, <2>2 DEF SizesStay
<1>5. thd'[s].state = "SLEEPING" => \E t \in TSlots : Cause(s, t)'
  OBVIOUS
<1>8. thd[s].state = "RUNNABLE"
  OBVIOUS
<1> QED BY <1>2, <1>3, <1>4, <1>5, <1>6, <1>7, <1>8, SimpleStep

LEMMA SameSzGives ==
  ASSUME thd \in [TSlots -> SlotRecord], NEW n \in 0..KERNBASE, thd' = SameSz(n)
  PROVE  /\ thd' \in [TSlots -> SlotRecord]
         /\ \A t \in TSlots : SameSlot(t) /\ thd'[t].state = thd[t].state
                              /\ thd'[t].sz = IF thd[t].ours THEN n ELSE thd[t].sz
BY DEF SameSz, SlotRecord, SameSlot

\* The sizes that the others get: thread_family_sz_same().
LEMMA PublishStep ==
  ASSUME Fine, NEW s \in TSlots, CreatePublish(s)
  PROVE  ThreadsInv'
<1>1. /\ Active(s) /\ tpc[s] \notin Execs /\ tpc[s] = "publish" /\ thd[s].state = "RUNNABLE"
      /\ targ[s] \in TSlots /\ targ[s] \in Nat /\ thd[s].sz \in 0..KERNBASE
  BY FineHas DEF CreatePublish, Runs, Active, Execs, SlotInv, SlotRecord
<1>2. /\ thd' \in [TSlots -> SlotRecord]
      /\ \A t \in TSlots : SameSlot(t) /\ thd'[t].state = thd[t].state
                              /\ thd'[t].sz = IF thd[t].ours THEN thd[s].sz ELSE thd[t].sz
  BY FineHas, <1>1, SameSzGives DEF CreatePublish
<1>3. ASSUME Unlimited, ~nested
      PROVE  \A t \in TSlots : Active(t) \/ t = Main => CoveredBy(thd'[t].sz, mapped, spare[Main])
  <2>1. CoveredBy(thd[s].sz, mapped, spare[Main])
    BY <1>1, <1>3, FineHas DEF MemoryInv, SizesCovered
  <2>2. \A t \in TSlots : Active(t) \/ t = Main => thd[t].ours
    BY <1>3, FineHas DEF SlotInv, Unlimited
  <2> QED BY <1>2, <2>1, <2>2
<1>4. GoTo(s, "again", targ[s]) /\ UNCHANGED <<spare, mapped, nextTid>> /\ InKernel
  BY DEF CreatePublish
<1> QED BY <1>1, <1>2, <1>3, <1>4, SizeStep

LEMMA GrowPublishStep ==
  ASSUME Fine, NEW s \in TSlots, GrowPublish(s)
  PROVE  ThreadsInv'
<1>1. /\ Active(s) /\ tpc[s] \notin Execs /\ tpc[s] = "grown" /\ thd[s].state = "RUNNABLE"
      /\ targ[s] \in Nat /\ targ[s] \in 0..KERNBASE
  BY FineHas DEF GrowPublish, Runs, Active, Execs, SlotInv, SlotRecord
<1>2. /\ thd' \in [TSlots -> SlotRecord]
      /\ \A t \in TSlots : SameSlot(t) /\ thd'[t].state = thd[t].state
                              /\ thd'[t].sz = IF thd[t].ours THEN targ[s] ELSE thd[t].sz
  BY FineHas, <1>1, SameSzGives DEF GrowPublish
<1>3. ASSUME Unlimited, ~nested
      PROVE  \A t \in TSlots : Active(t) \/ t = Main => CoveredBy(thd'[t].sz, mapped, spare[Main])
  <2>1. CoveredBy(targ[s], mapped, spare[Main])
    BY <1>1, <1>3, FineHas DEF MemoryInv, SizesCovered
  <2>2. \A t \in TSlots : Active(t) \/ t = Main => thd[t].ours
    BY <1>3, FineHas DEF SlotInv, Unlimited
  <2> QED BY <1>2, <2>1, <2>2
<1>4. GoTo(s, "set", targ[s]) /\ UNCHANGED <<spare, mapped, nextTid>> /\ InKernel
  BY DEF GrowPublish
<1> QED BY <1>1, <1>2, <1>3, <1>4, SizeStep

\* The size a slot gets at the end of growproc().
LEMMA GrowSetStep ==
  ASSUME Fine, NEW s \in TSlots, GrowSet(s)
  PROVE  ThreadsInv'
<1>1. /\ Active(s) /\ tpc[s] \notin Execs /\ tpc[s] \in {"grown", "set"} /\ thd[s].state = "RUNNABLE"
      /\ targ[s] \in 0..KERNBASE
  BY FineHas DEF GrowSet, Runs, Active, Execs, SlotInv, SlotRecord
<1>2. thd' = [thd EXCEPT ![s].sz = targ[s]]
  BY DEF GrowSet
<1>3. /\ thd' \in [TSlots -> SlotRecord]
      /\ \A t \in TSlots : SameSlot(t) /\ thd'[t].state = thd[t].state
                              /\ thd'[t].sz = IF t = s THEN targ[s] ELSE thd[t].sz
  <2> DEFINE r == [thd[s] EXCEPT !.sz = targ[s]]
  <2>1. thd \in [TSlots -> SlotRecord] /\ thd[s] \in SlotRecord
    BY FineHas
  <2>2. /\ r \in SlotRecord /\ r.sz = targ[s] /\ r.ours = thd[s].ours /\ r.tid = thd[s].tid
        /\ r.tmaker = thd[s].tmaker /\ r.limit = thd[s].limit /\ r.parent = thd[s].parent
        /\ r.thdva = thd[s].thdva /\ r.state = thd[s].state
    BY <1>1, <2>1 DEF SlotRecord
  <2>3. thd' = [thd EXCEPT ![s] = r]
    BY <1>2
  <2> HIDE DEF r
  <2>4. thd' \in [TSlots -> SlotRecord] /\ thd'[s] = r /\ \A t \in TSlots \ {s} : thd'[t] = thd[t]
    BY <2>1, <2>2, <2>3
  <2> QED BY <2>2, <2>4 DEF SameSlot
<1>4. ASSUME Unlimited, ~nested
      PROVE  CoveredBy(thd'[s].sz, mapped, spare[Main]) /\ \A t \in TSlots \ {s} : thd'[t].sz = thd[t].sz
  BY <1>1, <1>3, <1>4, FineHas DEF MemoryInv, SizesCovered
<1>5. GoTo(s, "user", 0) /\ UNCHANGED <<spare, mapped, nextTid>> /\ InKernel /\ 0 \in Nat
  BY DEF GrowSet
<1> QED BY <1>1, <1>3, <1>4, <1>5, SizeStep

\* thread_join() and wait() return, or sleep on somebody who lives.
LEMMA WaiterStep ==
  ASSUME Fine, NEW s \in TSlots, Active(s), tpc[s] \in {"user", "join", "wait"}, thd[s].state = "RUNNABLE",
         NEW pc \in {"user", "join", "wait"}, NEW arg \in Nat, GoTo(s, pc, arg), pc = "join" => arg # 0,
         NEW st \in {"RUNNABLE", "SLEEPING"}, thd' = [thd EXCEPT ![s].state = st],
         st = "SLEEPING" => /\ pc \in {"join", "wait"}
                            /\ \E t \in TSlots : Live(t) /\ IF pc = "wait" THEN thd[t].parent = s ELSE thd[t].tid = arg,
         UNCHANGED <<spare, mapped, nextTid>>, InKernel
  PROVE  ThreadsInv'
<1>1. /\ thd' \in [TSlots -> SlotRecord] /\ thd'[s].state = st
      /\ \A t \in TSlots : SameSlot(t) /\ thd'[t].sz = thd[t].sz
      /\ \A t \in TSlots \ {s} : thd'[t] = thd[t]
  <2>1. st \in States
    BY DEF States
  <2> QED BY <2>1, FineHas, StateSet
<1>2. tpc'[s] = pc /\ targ'[s] = arg
  BY FineHas, GoToGives
<1>3. st = "SLEEPING" => \E t \in TSlots : Cause(s, t)'
  <2> SUFFICES ASSUME st = "SLEEPING" PROVE \E t \in TSlots : Cause(s, t)'
    OBVIOUS
  <2>1. PICK t \in TSlots : Live(t) /\ IF pc = "wait" THEN thd[t].parent = s ELSE thd[t].tid = arg
    OBVIOUS
  <2>2. Live(t)'
    BY <1>1, <2>1 DEF Live
  <2>3. thd'[t].parent = thd[t].parent /\ thd'[t].tid = thd[t].tid
    BY <1>1 DEF SameSlot
  <2>4. Cause(s, t)'
    BY <1>2, <2>1, <2>2, <2>3 DEF Cause
  <2> QED BY <2>4
<1>4. \A t \in TSlots : SameSlot(t) /\ (thd'[t].state = thd[t].state \/ t = s)
  BY <1>1
<1>5. thd'[s].state = "RUNNABLE" \/ (thd'[s].state = "SLEEPING" /\ pc \in {"join", "wait"} /\ \E t \in TSlots : Cause(s, t)')
  BY <1>1, <1>3
<1>6. tpc[s] \notin Execs /\ tpc[s] # "grown" /\ pc \in {"user", "again", "set", "join", "wait"} /\ pc # "again" /\ pc # "set"
  BY DEF Execs
<1>7. UNCHANGED <<spare, mapped, nextTid>> /\ InKernel /\ thd[s].state = "RUNNABLE" /\ Active(s) /\ (pc = "join" => arg # 0)
  OBVIOUS
<1> QED BY <1>1, <1>4, <1>5, <1>6, <1>7, SizeStep

LEMMA JoinSimpleStep ==
  ASSUME Fine, NEW s \in TSlots, NEW tid \in Nat \ {0}, UNCHANGED nextTid, InKernel,
         thd[s].state = "RUNNABLE", tpc[s] \in {"user", "join"},
         \/ JoinReturn(s)
         \/ JoinSleep(s, tid) /\ \E t \in TSlots : thd[t].tid = tid /\ Live(t)
  PROVE  ThreadsInv'
<1>1. Active(s) /\ tpc[s] \in {"user", "join", "wait"} /\ 0 \in Nat /\ tid \in Nat /\ tid # 0 /\ thd[s].state = "RUNNABLE"
  BY DEF Active
<1>2. CASE JoinReturn(s)
  <2>1. thd' = [thd EXCEPT ![s].state = "RUNNABLE"]
    <3>1. thd \in [TSlots -> SlotRecord] /\ thd[s] = [thd[s] EXCEPT !.state = "RUNNABLE"]
      BY FineHas, <1>1 DEF SlotRecord
    <3> QED BY <1>2, <3>1 DEF JoinReturn
  <2>2. GoTo(s, "user", 0) /\ UNCHANGED <<spare, mapped, nextTid>> /\ InKernel
    BY <1>2 DEF JoinReturn
  <2>3. "user" \in {"user", "join", "wait"} /\ "RUNNABLE" \in {"RUNNABLE", "SLEEPING"} /\ "RUNNABLE" # "SLEEPING"
    OBVIOUS
  <2> QED BY <1>1, <2>1, <2>2, <2>3, WaiterStep
<1>3. CASE JoinSleep(s, tid) /\ \E t \in TSlots : thd[t].tid = tid /\ Live(t)
  <2>1. GoTo(s, "join", tid) /\ UNCHANGED <<spare, mapped, nextTid>> /\ InKernel /\ thd' = [thd EXCEPT ![s].state = "SLEEPING"]
    BY <1>3 DEF JoinSleep
  <2>2. "join" \in {"user", "join", "wait"} /\ "SLEEPING" \in {"RUNNABLE", "SLEEPING"}
    OBVIOUS
  <2>3. \E t \in TSlots : Live(t) /\ IF "join" = "wait" THEN thd[t].parent = s ELSE thd[t].tid = tid
    BY <1>3
  <2> QED BY <1>1, <2>1, <2>2, <2>3, WaiterStep
<1> QED BY <1>2, <1>3

\* wait() in a slot of the process, without a child to reap.
LEMMA WaitChildSimpleStep ==
  ASSUME Fine, NEW w \in TSlots, thd[w].state = "RUNNABLE", tpc[w] \in {"user", "wait"},
         UNCHANGED <<spare, mapped, nextTid, targ>>, InKernel,
         \/ thd' = thd /\ tpc' = [tpc EXCEPT ![w] = "user"]
         \/ /\ \E k \in TSlots : thd[k].parent = w /\ thd[k].state # "ZOMBIE"
            /\ thd' = [thd EXCEPT ![w].state = "SLEEPING"] /\ tpc' = [tpc EXCEPT ![w] = "wait"]
  PROVE  ThreadsInv'
<1>1. Active(w) /\ tpc[w] \in {"user", "join", "wait"} /\ targ[w] \in Nat /\ thd[w].state = "RUNNABLE"
  BY FineHas DEF Active
<1>2. targ' = [targ EXCEPT ![w] = targ[w]]
  BY FineHas
<1>3. UNCHANGED <<spare, mapped, nextTid>> /\ InKernel
  OBVIOUS
<1>4. CASE thd' = thd /\ tpc' = [tpc EXCEPT ![w] = "user"]
  <2>1. thd' = [thd EXCEPT ![w].state = "RUNNABLE"]
    <3>1. thd \in [TSlots -> SlotRecord] /\ thd[w] = [thd[w] EXCEPT !.state = "RUNNABLE"]
      BY FineHas, <1>1 DEF SlotRecord
    <3> QED BY <1>4, <3>1
  <2>2. GoTo(w, "user", targ[w])
    BY <1>2, <1>4 DEF GoTo
  <2>3. "user" \in {"user", "join", "wait"} /\ "RUNNABLE" \in {"RUNNABLE", "SLEEPING"} /\ "RUNNABLE" # "SLEEPING" /\ "user" # "join"
    OBVIOUS
  <2> QED BY <1>1, <1>3, <2>1, <2>2, <2>3, WaiterStep
<1>5. CASE /\ \E k \in TSlots : thd[k].parent = w /\ thd[k].state # "ZOMBIE"
           /\ thd' = [thd EXCEPT ![w].state = "SLEEPING"] /\ tpc' = [tpc EXCEPT ![w] = "wait"]
  <2>1. PICK k \in TSlots : thd[k].parent = w /\ thd[k].state # "ZOMBIE"
    BY <1>5
  <2>2. Live(k)
    <3>1. w # 0 /\ w # Outside
      BY ThreadNumbers
    <3>2. SlotInv(k)
      BY FineHas
    <3> QED BY <2>1, <3>1, <3>2 DEF SlotInv, Live
  <2>3. \E t \in TSlots : Live(t) /\ IF "wait" = "wait" THEN thd[t].parent = w ELSE thd[t].tid = targ[w]
    BY <2>1, <2>2
  <2>4. GoTo(w, "wait", targ[w]) /\ thd' = [thd EXCEPT ![w].state = "SLEEPING"]
    BY <1>2, <1>5 DEF GoTo
  <2>5. "wait" \in {"user", "join", "wait"} /\ "SLEEPING" \in {"RUNNABLE", "SLEEPING"} /\ "wait" # "join"
    OBVIOUS
  <2> QED BY <1>1, <1>3, <2>3, <2>4, <2>5, WaiterStep
<1> QED BY <1>4, <1>5

LEMMA MinIsLeast ==
  ASSUME NEW S, S \subseteq Nat, S # {}
  PROVE  Min(S) \in S /\ \A x \in S : Min(S) <= x
BY LeastBelow, Zenon DEF Min

\* A step of nobody's: setmemorylimit() or kill().
LEMMA NobodyStep ==
  ASSUME Fine, thd' \in [TSlots -> SlotRecord], UNCHANGED <<spare, mapped, nextTid, tpc, targ>>, InKernel,
         \A t \in TSlots : Steady(t) /\ thd'[t].sz = thd[t].sz /\ thd'[t].parent = thd[t].parent
                           /\ thd'[t].thdva = thd[t].thdva,
         \A t \in TSlots : thd'[t].state = thd[t].state \/ (thd[t].state = "SLEEPING" /\ thd'[t].state = "RUNNABLE"),
         Unlimited' => Unlimited
  PROVE  ThreadsInv'
<1>1. /\ mapped' = mapped /\ spare' = spare /\ nextTid' = nextTid /\ tpc' = tpc /\ targ' = targ
      /\ taken' = taken /\ parentAsleep' = parentAsleep /\ nested' = nested /\ wreck' = "none"
  BY FineHas DEF InKernel
<1>2. ThreadTypes'
  <2>1. /\ thd' \in [TSlots -> SlotRecord] /\ tpc' \in [TSlots -> ThreadPlaces] /\ targ' \in [TSlots -> Nat]
        /\ mapped' \subseteq mapped /\ parentAsleep' \in BOOLEAN /\ ThreadTypes
    BY FineHas, <1>1
  <2>2. \A t \in TSlots : thd'[t].tid = thd[t].tid
    BY DEF Steady
  <2> QED BY <1>1, <2>1, <2>2, TypesMove
<1>3. SlotsInv'
  <2>1. \A t \in TSlots : Active(t)' /\ tpc'[t] # "exit" => Active(Main)'
    BY <1>1, FineHas DEF SlotsInv, MainInv, Active
  <2>2. \A t \in TSlots : Making(t)' => targ[t] \in TSlots
    BY <1>1, FineHas DEF Making, MakingInv
  <2>3. \A t \in TSlots : Steady(t)
    OBVIOUS
  <2> QED BY <2>1, <2>2, <2>3, FineHas, MoveKeepsSlots
<1>4. StacksStay
  <2>1. \A t \in TSlots : HasStack(t)' => HasStack(t)
    BY DEF HasStack, Steady
  <2>2. \A t \in TSlots : thd'[t].thdva = thd[t].thdva /\ thd'[t].tmaker = thd[t].tmaker
    BY DEF Steady
  <2> HIDE DEF HasStack
  <2> QED BY <1>1, <2>1, <2>2 DEF StacksStay
<1>5. SizesStay
  BY <1>1 DEF SizesStay, Active
<1>6. StacksApart' /\ MadeByMain' /\ MemoryInv'
  BY <1>1, <1>4, <1>5, FineHas, StacksKept, MemoryKept
<1>7. JoinersWait'
  <2>1. \A t \in TSlots : Live(t) => Live(t)'
    BY DEF Live
  <2>2. \A t \in TSlots : thd'[t].parent = thd[t].parent /\ thd'[t].tid = thd[t].tid
    BY DEF Steady
  <2>3. \A s \in TSlots : thd'[s].state = "SLEEPING" =>
          thd[s].state = "SLEEPING" /\ \A t \in TSlots : Cause(s, t) => Cause(s, t)'
    <3>1. \A s \in TSlots : thd'[s].state = "SLEEPING" => thd[s].state = "SLEEPING"
      OBVIOUS
    <3> HIDE DEF Live
    <3> QED BY <1>1, <2>1, <2>2, <3>1 DEF Cause
  <2>4. \/ ~parentAsleep'
        \/ /\ parentAsleep
           /\ \A t \in TSlots : thd[t].parent = Outside /\ (Live(t) \/ thd[t].state = "UNUSED") =>
                thd'[t].parent = Outside /\ (Live(t)' \/ thd'[t].state = "UNUSED")
    <3>1. \A t \in TSlots : thd[t].state = "UNUSED" => thd'[t].state = "UNUSED"
      OBVIOUS
    <3> HIDE DEF Live
    <3> QED BY <1>1, <2>1, <2>2, <3>1
  <2> QED BY <1>3, <2>3, <2>4, FineHas, JoinersKept
<1> QED BY <1>1, <1>2, <1>3, <1>6, <1>7, GoodIsEnough DEF Good

LEMMA KillStep ==
  ASSUME Fine, Kill
  PROVE  ThreadsInv'
<1>1. thd' = [s \in TSlots |->
               IF thd[s].ours THEN [thd[s] EXCEPT !.killed = TRUE,
                                                  !.state = IF @ = "SLEEPING" THEN "RUNNABLE" ELSE @]
               ELSE thd[s]]
  BY DEF Kill
<1>2. ASSUME NEW t \in TSlots
      PROVE  /\ thd'[t] \in SlotRecord /\ SameSlot(t) /\ thd'[t].sz = thd[t].sz
             /\ (thd'[t].state = thd[t].state \/ (thd[t].state = "SLEEPING" /\ thd'[t].state = "RUNNABLE"))
  <2>1. thd[t] \in SlotRecord
    BY FineHas
  <2>2. thd'[t] = IF thd[t].ours THEN [thd[t] EXCEPT !.killed = TRUE,
                                        !.state = IF thd[t].state = "SLEEPING" THEN "RUNNABLE" ELSE thd[t].state]
                  ELSE thd[t]
    BY <1>1
  <2> QED BY <2>1, <2>2 DEF SlotRecord, SameSlot, States
<1>3. thd' \in [TSlots -> SlotRecord]
  BY <1>1, <1>2
<1>4. UNCHANGED <<spare, mapped, nextTid, tpc, targ>> /\ InKernel
  BY DEF Kill
<1>5. \A t \in TSlots : Steady(t) /\ thd'[t].sz = thd[t].sz /\ thd'[t].parent = thd[t].parent
                           /\ thd'[t].thdva = thd[t].thdva
  BY <1>2, <1>4 DEF SameSlot, Steady
<1>6. Unlimited' => Unlimited
  BY <1>2, ThreadNumbers DEF SameSlot, Unlimited
<1> QED BY <1>2, <1>3, <1>4, <1>5, <1>6, NobodyStep

LEMMA SetMemoryLimitStep ==
  ASSUME Fine, NEW limit \in Limits, SetMemoryLimit(limit)
  PROVE  ThreadsInv'
<1> DEFINE own == {s \in Family : thd[s].tmaker = s}  m == Min(own)
<1>1. own # {} /\ thd' = [thd EXCEPT ![m].limit = limit] /\ limit \in Nat \ {0}
  BY ThreadsAssumption DEF SetMemoryLimit
<1>2. own \subseteq TSlots /\ IsFiniteSet(own)
  <2>1. own \subseteq TSlots
    BY DEF Family
  <2> QED BY <2>1, ThreadNumbers, FS_Subset
<1>3. m \in own /\ \A t \in own : m <= t
  <2>1. own \subseteq Nat
    BY <1>2, ThreadNumbers
  <2> HIDE DEF own, m
  <2> QED BY <1>1, <1>2, <2>1, MinIsLeast DEF m
<1>4. thd[Main].ours => m = Main
  <2>1. thd[Main].ours => Main \in own
    BY FineHas, ThreadNumbers DEF SlotsInv, MainInv, Family
  <2>2. m \in Nat \ {0} /\ Main = 1
    BY <1>2, <1>3, ThreadNumbers
  <2> HIDE DEF own, m
  <2> QED BY <1>3, <2>1, <2>2
<1>5. m \in TSlots
  BY <1>2, <1>3
<1> HIDE DEF own, m
<1>6. /\ thd'[m] = [thd[m] EXCEPT !.limit = limit] /\ \A t \in TSlots \ {m} : thd'[t] = thd[t]
  BY <1>1, <1>5, FineHas
<1>7. /\ thd'[m] \in SlotRecord /\ thd'[m].limit = limit /\ thd'[m].ours = thd[m].ours
      /\ thd'[m].tid = thd[m].tid /\ thd'[m].tmaker = thd[m].tmaker /\ thd'[m].parent = thd[m].parent
      /\ thd'[m].thdva = thd[m].thdva /\ thd'[m].sz = thd[m].sz /\ thd'[m].state = thd[m].state
  <2>1. thd[m] \in SlotRecord
    BY <1>5, FineHas
  <2> QED BY <1>1, <1>6, <2>1 DEF SlotRecord
<1>8. thd' \in [TSlots -> SlotRecord]
  BY <1>1, <1>6, <1>7, FineHas
<1>9. UNCHANGED <<spare, mapped, nextTid, tpc, targ>> /\ InKernel
  BY DEF SetMemoryLimit
<1>10. thd'[Main].ours = thd[Main].ours
  BY <1>6, <1>7, ThreadNumbers
<1>11. \A t \in TSlots : Steady(t) /\ thd'[t].sz = thd[t].sz /\ thd'[t].parent = thd[t].parent
                           /\ thd'[t].thdva = thd[t].thdva
  BY <1>4, <1>6, <1>7, <1>9, <1>10 DEF Steady
<1>12. \A t \in TSlots : thd'[t].state = thd[t].state
  BY <1>6, <1>7
<1>13. Unlimited' => Unlimited
  BY <1>1, <1>4, <1>7, <1>10 DEF Unlimited
<1> QED BY <1>8, <1>9, <1>11, <1>12, <1>13, NobodyStep

\* The slot d dies, its children go to init, and whoever waits for it is woken.
LEMMA EndStep ==
  ASSUME Fine, NEW d \in TSlots, Dies(d), thd[d].state = "RUNNABLE", tpc[d] \in {"user", "other", "exit"},
         tpc[d] = "user" => thd[d].tid # 0,
         thd' \in [TSlots -> SlotRecord], GoTo(d, "dead", 0), UNCHANGED <<spare, mapped, nextTid, taken, nested, wreck>>,
         parentAsleep' \in {parentAsleep, FALSE}, tpc[d] = "exit" => ~parentAsleep',
         \A t \in TSlots : /\ thd'[t].sz = thd[t].sz /\ thd'[t].thdva = thd[t].thdva
                           /\ thd'[t].limit = thd[t].limit
                           /\ (thd'[t].parent = thd[t].parent \/ thd[t].parent = d),
         \A t \in TSlots \ {d} : Steady(t) /\ (thd'[t].state = thd[t].state \/ thd[t].state = "SLEEPING"),
         \A u \in TSlots \ {d} : thd[u].state = "SLEEPING" /\ Cause(u, d) => thd'[u].state # "SLEEPING"
  PROVE  ThreadsInv'
<1>1. /\ tpc'[d] = "dead" /\ targ'[d] = 0
      /\ \A t \in TSlots \ {d} : tpc'[t] = tpc[t] /\ targ'[t] = targ[t]
      /\ tpc' \in [TSlots -> ThreadPlaces] /\ targ' \in [TSlots -> Nat]
  <2>1. "dead" \in ThreadPlaces /\ 0 \in Nat /\ ThreadTypes /\ GoTo(d, "dead", 0)
    BY FineHas DEF ThreadPlaces
  <2> QED BY <2>1, GoToGives
<1>2. /\ mapped' = mapped /\ spare' = spare /\ nested' = nested /\ wreck' = "none"
      /\ nextTid' = nextTid /\ taken' = taken /\ parentAsleep' \in BOOLEAN
  <2>1. wreck = "none" /\ parentAsleep \in BOOLEAN
    BY FineHas
  <2> QED BY <2>1
<1>3. \A t \in TSlots : thd'[t].ours = thd[t].ours /\ thd'[t].tid = thd[t].tid /\ thd'[t].tmaker = thd[t].tmaker
  BY DEF Steady, Dies
<1>4. ThreadTypes'
  BY FineHas, <1>1, <1>2, <1>3, TypesMove
<1>5. \A t \in TSlots \ {d} : Active(t) /\ tpc[t] # "exit" => d # Main
  <2>1. tpc[d] = "exit" => \A t \in TSlots \ {d} : ~Active(t)
    BY FineHas DEF SlotsInv, MainInv, SlotInv, Execs
  <2>2. tpc[d] = "user" => d # Main
    BY FineHas DEF SlotsInv, MainInv, SlotInv, Active
  <2>3. tpc[d] = "other" => \A t \in TSlots : Active(t) /\ tpc[t] # "exit" => d # Main
    BY FineHas DEF SlotsInv, MainInv, Active
  <2> QED BY <2>1, <2>2, <2>3
<1>6. \A t \in TSlots : Active(t)' => t # d /\ Active(t)
  BY <1>1 DEF Active
<1>7. \A t \in TSlots : Active(t)' /\ tpc'[t] # "exit" => Active(Main)'
  <2> TAKE t \in TSlots
  <2> HAVE Active(t)' /\ tpc'[t] # "exit"
  <2>1. t # d /\ Active(t) /\ tpc[t] # "exit"
    BY <1>1, <1>6
  <2>2. Active(Main) /\ d # Main
    BY <2>1, <1>5, FineHas DEF SlotsInv, MainInv
  <2> QED BY <2>2, <1>1, ThreadNumbers DEF Active
<1>8. SlotsInv'
  <2>1. \A t \in TSlots : Making(t)' => t # d /\ Making(t)
    BY <1>1 DEF Making
  <2>2. \A t \in TSlots : Making(t)' => targ[t] \in TSlots \ {d}
    BY <2>1, FineHas DEF MakingInv
  <2>3. \A t \in TSlots : Making(t)' => Steady(targ[t])
    BY <2>2
  <2>4. \A t \in TSlots : Steady(t) \/ Dies(t)
    OBVIOUS
  <2> QED BY <1>7, <2>3, <2>4, FineHas, MoveKeepsSlots
<1>9. StacksStay
  <2>1. \A t \in TSlots : thd'[t].state # "UNUSED" => thd[t].state # "UNUSED"
    OBVIOUS
  <2>2. \A t \in TSlots : HasStack(t)' => HasStack(t)
    BY <1>3, <2>1 DEF HasStack
  <2>3. Unlimited' => Unlimited
    BY <1>3, ThreadNumbers DEF Unlimited
  <2>4. \A t \in TSlots : thd'[t].thdva = thd[t].thdva
    OBVIOUS
  <2> HIDE DEF HasStack
  <2> QED BY <1>2, <1>3, <2>2, <2>3, <2>4 DEF StacksStay
<1>10. SizesStay
  <2>1. \A t \in TSlots : thd'[t].sz = thd[t].sz
    OBVIOUS
  <2>2. tpc[d] # "grown"
    OBVIOUS
  <2> HIDE DEF Active
  <2> QED BY <1>1, <1>6, <2>1, <2>2 DEF SizesStay
<1>11. StacksApart' /\ MadeByMain' /\ MemoryInv'
  BY <1>2, <1>9, <1>10, FineHas, StacksKept, MemoryKept
<1>12. JoinersWait'
  <2>1. \A t \in TSlots \ {d} : Live(t) => Live(t)'
    BY DEF Live, Steady
  <2>2. ASSUME NEW u \in TSlots, thd'[u].state = "SLEEPING"
        PROVE  thd[u].state = "SLEEPING" /\ \A t \in TSlots : Cause(u, t) => Cause(u, t)'
    <3>1. u # d /\ thd[u].state = "SLEEPING" /\ ~Cause(u, d)
      BY <2>2 DEF Dies, Steady
    <3>2. \A t \in TSlots : thd[t].parent = u => thd'[t].parent = u
      BY <3>1
    <3> HIDE DEF Live
    <3> QED BY <1>1, <1>3, <2>1, <3>1, <3>2 DEF Cause
  <2>3. \/ ~parentAsleep'
        \/ \E t \in TSlots : Active(t)'
        \/ /\ parentAsleep
           /\ \A t \in TSlots : thd[t].parent = Outside /\ (Live(t) \/ thd[t].state = "UNUSED") =>
                 thd'[t].parent = Outside /\ (Live(t)' \/ thd'[t].state = "UNUSED")
    <3>1. CASE tpc[d] = "exit"
      BY <3>1
    <3>2. CASE tpc[d] = "user"
      <4>1. Active(Main) /\ d # Main
        BY <3>2, FineHas DEF SlotsInv, MainInv, SlotInv, Active
      <4>2. Active(Main)'
        BY <1>1, <4>1, ThreadNumbers DEF Active
      <4> QED BY <4>2, ThreadNumbers
    <3>3. CASE tpc[d] = "other"
      <4>1. thd[d].parent # Outside
        BY <3>3, FineHas DEF SlotInv
      <4>2. \A t \in TSlots \ {d} : thd[t].state = "UNUSED" => thd'[t].state = "UNUSED"
        OBVIOUS
      <4>3. \A t \in TSlots : thd[t].parent = Outside => thd'[t].parent = Outside
        BY ThreadNumbers
      <4>4. parentAsleep' => parentAsleep
        OBVIOUS
      <4> HIDE DEF Live
      <4> QED BY <2>1, <4>1, <4>2, <4>3, <4>4
    <3> QED BY <3>1, <3>2, <3>3
  <2> QED BY <1>8, <2>2, <2>3, FineHas, JoinersKept
<1> QED BY <1>2, <1>4, <1>8, <1>11, <1>12, GoodIsEnough DEF Good

LEMMA ThreadExitStep ==
  ASSUME Fine, NEW s \in TSlots, ThreadExit(s)
  PROVE  ThreadsInv'
<1> DEFINE asleep(t) == thd[t].state = "SLEEPING" /\ tpc[t] = "join" /\ targ[t] = thd[s].tid
<1>1. /\ Active(s) /\ thd[s].state = "RUNNABLE" /\ tpc[s] = "user" /\ thd[s].tid # 0 /\ thd[s].ours
      /\ thd[s].parent = Outside
  BY FineHas DEF ThreadExit, Runs, Active, SlotInv
<1>2. ASSUME NEW t \in TSlots
      PROVE  /\ thd'[t] \in SlotRecord /\ thd'[t].sz = thd[t].sz /\ thd'[t].thdva = thd[t].thdva
             /\ thd'[t].limit = thd[t].limit /\ thd'[t].ours = thd[t].ours /\ thd'[t].tid = thd[t].tid
             /\ thd'[t].tmaker = thd[t].tmaker
             /\ thd'[t].parent = (IF thd[t].parent = s THEN 0 ELSE thd[t].parent)
             /\ thd'[t].state = (IF t = s THEN "ZOMBIE" ELSE IF asleep(t) THEN "RUNNABLE" ELSE thd[t].state)
  <2> DEFINE a == IF asleep(t) THEN [thd[t] EXCEPT !.state = "RUNNABLE"] ELSE thd[t]
             b == IF a.parent = s THEN [a EXCEPT !.parent = 0] ELSE a
  <2>1. thd'[t] = IF t = s THEN [b EXCEPT !.state = "ZOMBIE"] ELSE b
    BY DEF ThreadExit, PassedToInit, Awake
  <2>2. thd[t] \in SlotRecord
    BY FineHas
  <2>3. /\ a \in SlotRecord /\ a.sz = thd[t].sz /\ a.thdva = thd[t].thdva
        /\ a.limit = thd[t].limit /\ a.ours = thd[t].ours /\ a.tid = thd[t].tid
        /\ a.tmaker = thd[t].tmaker /\ a.parent = thd[t].parent
        /\ a.state = (IF asleep(t) THEN "RUNNABLE" ELSE thd[t].state)
    BY <2>2 DEF SlotRecord, States
  <2> HIDE DEF a, asleep
  <2>4. /\ b \in SlotRecord /\ b.sz = a.sz /\ b.thdva = a.thdva
        /\ b.limit = a.limit /\ b.ours = a.ours /\ b.tid = a.tid
        /\ b.tmaker = a.tmaker /\ b.parent = (IF a.parent = s THEN 0 ELSE a.parent) /\ b.state = a.state
    <3>1. 0 \in 0..Outside
      BY ThreadNumbers
    <3> QED BY <2>3, <3>1 DEF SlotRecord
  <2> HIDE DEF b
  <2>5. /\ t = s => thd'[t] = [b EXCEPT !.state = "ZOMBIE"]
        /\ t # s => thd'[t] = b
    BY <2>1
  <2>6. CASE t = s
    BY <2>3, <2>4, <2>5, <2>6 DEF SlotRecord, States
  <2>7. CASE t # s
    BY <2>3, <2>4, <2>5, <2>7
  <2> QED BY <2>6, <2>7
<1>3. thd' \in [TSlots -> SlotRecord]
  <2>1. DOMAIN thd' = TSlots /\ thd' = [t \in TSlots |-> thd'[t]]
    BY DEF ThreadExit, PassedToInit, Awake
  <2> QED BY <1>2, <2>1
<1>4. /\ GoTo(s, "dead", 0) /\ UNCHANGED <<spare, mapped, nextTid, taken, nested, wreck>>
      /\ parentAsleep' \in {parentAsleep, FALSE}
  BY DEF ThreadExit, InKernel
<1>5. Dies(s)
  <2>1. tpc'[s] = "dead"
    BY <1>4, FineHas, GoToGives
  <2>2. thd'[s].parent = thd[s].parent \/ (thd'[s].parent = 0 /\ thd[s].parent \in TSlots)
    BY <1>2
  <2> QED BY <1>1, <1>2, <2>1, <2>2 DEF Dies
<1>6. \A t \in TSlots \ {s} : Steady(t) /\ (thd'[t].state = thd[t].state \/ thd[t].state = "SLEEPING")
  BY <1>2, <1>4, FineHas, GoToGives DEF Steady
<1>7. \A u \in TSlots \ {s} : thd[u].state = "SLEEPING" /\ Cause(u, s) => thd'[u].state # "SLEEPING"
  <2> TAKE u \in TSlots \ {s}
  <2> HAVE thd[u].state = "SLEEPING" /\ Cause(u, s)
  <2>1. tpc[u] \in {"join", "wait"}
    BY FineHas DEF SlotInv
  <2>2. tpc[u] # "wait"
    BY <1>1, ThreadNumbers DEF Cause
  <2>3. asleep(u)
    BY <2>1, <2>2 DEF Cause
  <2> HIDE DEF asleep
  <2> QED BY <1>2, <2>3
<1>8. tpc[s] \in {"user", "other", "exit"} /\ tpc[s] # "exit"
  BY <1>1
<1> QED BY <1>1, <1>2, <1>3, <1>4, <1>5, <1>6, <1>7, <1>8, EndStep

LEMMA ChildExitsStep ==
  ASSUME Fine, NEW s \in TSlots, ChildExits(s)
  PROVE  ThreadsInv'
<1> DEFINE asleep(t) == t = thd[s].parent /\ thd[t].state = "SLEEPING" /\ tpc[t] = "wait"
<1>1. /\ thd[s].state = "RUNNABLE" /\ tpc[s] = "other" /\ thd[s].tid = 0
      /\ thd[s].parent # Outside
  BY FineHas DEF ChildExits, Runs, SlotInv
<1>2. ASSUME NEW t \in TSlots
      PROVE  /\ thd'[t] \in SlotRecord /\ thd'[t].sz = thd[t].sz /\ thd'[t].thdva = thd[t].thdva
             /\ thd'[t].limit = thd[t].limit /\ thd'[t].ours = thd[t].ours /\ thd'[t].tid = thd[t].tid
             /\ thd'[t].tmaker = thd[t].tmaker
             /\ thd'[t].parent = (IF thd[t].parent = s THEN 0 ELSE thd[t].parent)
             /\ thd'[t].state = (IF t = s THEN "ZOMBIE" ELSE IF asleep(t) THEN "RUNNABLE" ELSE thd[t].state)
  <2> DEFINE a == IF asleep(t) THEN [thd[t] EXCEPT !.state = "RUNNABLE"] ELSE thd[t]
             b == IF a.parent = s THEN [a EXCEPT !.parent = 0] ELSE a
  <2>1. thd'[t] = IF t = s THEN [b EXCEPT !.state = "ZOMBIE"] ELSE b
    BY DEF ChildExits, PassedToInit
  <2>2. thd[t] \in SlotRecord
    BY FineHas
  <2>3. /\ a \in SlotRecord /\ a.sz = thd[t].sz /\ a.thdva = thd[t].thdva
        /\ a.limit = thd[t].limit /\ a.ours = thd[t].ours /\ a.tid = thd[t].tid
        /\ a.tmaker = thd[t].tmaker /\ a.parent = thd[t].parent
        /\ a.state = (IF asleep(t) THEN "RUNNABLE" ELSE thd[t].state)
    BY <2>2 DEF SlotRecord, States
  <2> HIDE DEF a, asleep
  <2>4. /\ b \in SlotRecord /\ b.sz = a.sz /\ b.thdva = a.thdva
        /\ b.limit = a.limit /\ b.ours = a.ours /\ b.tid = a.tid
        /\ b.tmaker = a.tmaker /\ b.parent = (IF a.parent = s THEN 0 ELSE a.parent) /\ b.state = a.state
    <3>1. 0 \in 0..Outside
      BY ThreadNumbers
    <3> QED BY <2>3, <3>1 DEF SlotRecord
  <2> HIDE DEF b
  <2>5. /\ t = s => thd'[t] = [b EXCEPT !.state = "ZOMBIE"]
        /\ t # s => thd'[t] = b
    BY <2>1
  <2>6. CASE t = s
    BY <2>3, <2>4, <2>5, <2>6 DEF SlotRecord, States
  <2>7. CASE t # s
    BY <2>3, <2>4, <2>5, <2>7
  <2> QED BY <2>6, <2>7
<1>3. thd' \in [TSlots -> SlotRecord]
  <2>1. thd' = [t \in TSlots |-> thd'[t]]
    BY DEF ChildExits, PassedToInit
  <2> QED BY <1>2, <2>1
<1>4. /\ GoTo(s, "dead", 0) /\ UNCHANGED <<spare, mapped, nextTid, taken, nested, wreck>>
      /\ parentAsleep' \in {parentAsleep, FALSE}
  BY DEF ChildExits, InKernel
<1>5. Dies(s)
  <2>1. tpc'[s] = "dead"
    BY <1>4, FineHas, GoToGives
  <2>2. thd'[s].parent = thd[s].parent \/ (thd'[s].parent = 0 /\ thd[s].parent \in TSlots)
    BY <1>2
  <2> QED BY <1>1, <1>2, <2>1, <2>2 DEF Dies
<1>6. \A t \in TSlots \ {s} : Steady(t) /\ (thd'[t].state = thd[t].state \/ thd[t].state = "SLEEPING")
  BY <1>2, <1>4, FineHas, GoToGives DEF Steady
<1>7. \A u \in TSlots \ {s} : thd[u].state = "SLEEPING" /\ Cause(u, s) => thd'[u].state # "SLEEPING"
  <2> TAKE u \in TSlots \ {s}
  <2> HAVE thd[u].state = "SLEEPING" /\ Cause(u, s)
  <2>1. tpc[u] \in {"join", "wait"} /\ (tpc[u] = "join" => targ[u] # 0)
    BY FineHas DEF SlotInv
  <2>2. tpc[u] # "join"
    BY <1>1, <2>1 DEF Cause
  <2>3. asleep(u)
    BY <2>1, <2>2 DEF Cause
  <2> HIDE DEF asleep
  <2> QED BY <1>2, <2>3
<1>8. tpc[s] \in {"user", "other", "exit"} /\ tpc[s] # "exit" /\ tpc[s] # "user"
  BY <1>1
<1> QED BY <1>1, <1>2, <1>3, <1>4, <1>5, <1>6, <1>7, <1>8, EndStep

LEMMA ExitZombieStep ==
  ASSUME Fine, NEW s \in TSlots, ExitZombie(s)
  PROVE  ThreadsInv'
<1>1. /\ Active(s) /\ thd[s].state = "RUNNABLE" /\ tpc[s] = "exit"
      /\ \A t \in TSlots \ {s} : ~Active(t)
  <2>1. Active(s) /\ thd[s].state = "RUNNABLE" /\ tpc[s] = "exit" /\ tpc[s] \in Execs
    BY DEF ExitZombie, Runs, Active, Execs
  <2> QED BY <2>1, FineHas DEF SlotsInv, MainInv, SlotInv
<1>2. ASSUME NEW t \in TSlots
      PROVE  /\ thd'[t] \in SlotRecord /\ thd'[t].sz = thd[t].sz /\ thd'[t].thdva = thd[t].thdva
             /\ thd'[t].limit = thd[t].limit /\ thd'[t].ours = thd[t].ours /\ thd'[t].tid = thd[t].tid
             /\ thd'[t].tmaker = thd[t].tmaker
             /\ thd'[t].parent = (IF thd[t].parent = s THEN 0 ELSE thd[t].parent)
             /\ thd'[t].state = (IF t = s THEN "ZOMBIE" ELSE thd[t].state)
  <2> DEFINE b == IF thd[t].parent = s THEN [thd[t] EXCEPT !.parent = 0] ELSE thd[t]
  <2>1. thd'[t] = IF t = s THEN [b EXCEPT !.state = "ZOMBIE"] ELSE b
    BY DEF ExitZombie, PassedToInit
  <2>2. thd[t] \in SlotRecord
    BY FineHas
  <2>4. /\ b \in SlotRecord /\ b.sz = thd[t].sz /\ b.thdva = thd[t].thdva
        /\ b.limit = thd[t].limit /\ b.ours = thd[t].ours /\ b.tid = thd[t].tid
        /\ b.tmaker = thd[t].tmaker /\ b.parent = (IF thd[t].parent = s THEN 0 ELSE thd[t].parent)
        /\ b.state = thd[t].state
    <3>1. 0 \in 0..Outside
      BY ThreadNumbers
    <3> QED BY <2>2, <3>1 DEF SlotRecord
  <2> HIDE DEF b
  <2>5. /\ t = s => thd'[t] = [b EXCEPT !.state = "ZOMBIE"]
        /\ t # s => thd'[t] = b
    BY <2>1
  <2>6. CASE t = s
    BY <2>4, <2>5, <2>6 DEF SlotRecord, States
  <2>7. CASE t # s
    BY <2>4, <2>5, <2>7
  <2> QED BY <2>6, <2>7
<1>3. thd' \in [TSlots -> SlotRecord]
  <2>1. thd' = [t \in TSlots |-> thd'[t]]
    BY DEF ExitZombie, PassedToInit
  <2> QED BY <1>2, <2>1
<1>4. /\ GoTo(s, "dead", 0) /\ UNCHANGED <<spare, mapped, nextTid, taken, nested, wreck>>
      /\ parentAsleep' \in {parentAsleep, FALSE} /\ ~parentAsleep'
  BY DEF ExitZombie
<1>5. Dies(s)
  <2>1. tpc'[s] = "dead"
    BY <1>4, FineHas, GoToGives
  <2>2. thd'[s].parent = thd[s].parent \/ (thd'[s].parent = 0 /\ thd[s].parent \in TSlots)
    BY <1>2
  <2> QED BY <1>1, <1>2, <2>1, <2>2 DEF Dies
<1>6. \A t \in TSlots \ {s} : Steady(t) /\ (thd'[t].state = thd[t].state \/ thd[t].state = "SLEEPING")
  BY <1>2, <1>4, FineHas, GoToGives DEF Steady
<1>7. \A u \in TSlots \ {s} : thd[u].state # "SLEEPING"
  BY <1>1, FineHas DEF SlotInv, Active
<1>8. tpc[s] \in {"user", "other", "exit"} /\ tpc[s] # "user"
  BY <1>1
<1> QED BY <1>1, <1>2, <1>3, <1>4, <1>5, <1>6, <1>7, <1>8, EndStep

\* The child k is reaped, by w or by nobody of the process.
LEMMA ReapStep ==
  ASSUME Fine, NEW k \in TSlots, thd[k].state = "ZOMBIE", ~thd[k].ours, ChildReaped(k),
         UNCHANGED <<mapped, nextTid, targ>>, InKernel, NEW w \in TSlots,
         \/ tpc' = [tpc EXCEPT ![k] = "free"]
         \/ /\ tpc[w] \in {"user", "wait"} /\ thd[w].state = "RUNNABLE"
            /\ tpc' = [tpc EXCEPT ![w] = "user", ![k] = "free"]
  PROVE  ThreadsInv'
<1>1. /\ mapped' = mapped /\ spare' = [spare EXCEPT ![k] = <<>>] /\ nested' = nested /\ wreck' = "none"
      /\ nextTid' = nextTid /\ taken' = taken /\ parentAsleep' = parentAsleep /\ targ' = targ
  BY FineHas DEF InKernel, ChildReaped
<1>2. tpc[k] = "dead"
  BY FineHas DEF SlotInv
<1>3. /\ \A t \in TSlots \ {k} : thd'[t] = thd[t]
      /\ thd'[k] \in SlotRecord /\ thd'[k].state = "UNUSED" /\ thd'[k].ours = FALSE /\ thd'[k].parent = 0
      /\ thd'[k].tid = thd[k].tid /\ thd'[k].limit = 0 /\ thd' \in [TSlots -> SlotRecord]
  <2>1. thd[k] \in SlotRecord /\ thd \in [TSlots -> SlotRecord]
    BY FineHas
  <2>2. thd' = [thd EXCEPT ![k] = [Reaped(thd[k]) EXCEPT !.sz = 0, !.tmaker = 0]]
    BY <2>1 DEF ChildReaped
  <2> DEFINE r == [Reaped(thd[k]) EXCEPT !.sz = 0, !.tmaker = 0]
  <2>3. /\ r \in SlotRecord /\ r.state = "UNUSED" /\ r.ours = FALSE /\ r.parent = 0
        /\ r.tid = thd[k].tid /\ r.limit = 0
    <3>1. 0 \in 0..Outside /\ 0 \in 0..NSLOTS /\ 0 \in 0..KERNBASE /\ 0 \in Pages
      BY ThreadNumbers DEF Pages
    <3> QED BY <2>1, <3>1 DEF SlotRecord, States, Reaped
  <2> HIDE DEF r
  <2>4. thd'[k] = r /\ \A t \in TSlots \ {k} : thd'[t] = thd[t]
    BY <2>1, <2>2 DEF r
  <2>5. thd' \in [TSlots -> SlotRecord]
    BY <2>1, <2>2, <2>3 DEF r
  <2> QED BY <2>3, <2>4, <2>5
<1>4. /\ tpc' \in [TSlots -> ThreadPlaces] /\ tpc'[k] = "free"
      /\ \A t \in TSlots \ {k} : \/ tpc'[t] = tpc[t]
                                 \/ /\ t = w /\ tpc'[t] = "user" /\ tpc[t] \in {"user", "wait"}
                                    /\ thd[t].state = "RUNNABLE"
  <2>1. tpc \in [TSlots -> ThreadPlaces] /\ "free" \in ThreadPlaces /\ "user" \in ThreadPlaces
    BY FineHas DEF ThreadPlaces
  <2>2. CASE tpc' = [tpc EXCEPT ![k] = "free"]
    BY <2>1, <2>2
  <2>3. CASE /\ tpc[w] \in {"user", "wait"} /\ thd[w].state = "RUNNABLE"
             /\ tpc' = [tpc EXCEPT ![w] = "user", ![k] = "free"]
    BY <2>1, <2>3
  <2> QED BY <2>2, <2>3
<1>5. ThreadTypes'
  <2>1. \A t \in TSlots : thd'[t].tid = thd[t].tid
    BY <1>3
  <2>2. mapped' \subseteq mapped /\ targ' \in [TSlots -> Nat] /\ parentAsleep' \in BOOLEAN /\ ThreadTypes
    BY <1>1, FineHas
  <2> QED BY <1>1, <1>3, <1>4, <2>1, <2>2, TypesMove
<1>6. /\ Leaves(k)
      /\ \A t \in TSlots \ {k} : Steady(t) \/ (Walks(t) /\ t = w /\ tpc[t] \in {"user", "wait"})
  <2>1. Leaves(k)
    BY <1>3, <1>4 DEF Leaves
  <2>2. \A t \in TSlots \ {k} : tpc'[t] = tpc[t] => Steady(t)
    BY <1>1, <1>3 DEF Steady
  <2>3. ASSUME NEW t \in TSlots \ {k}, t = w, tpc'[t] = "user", tpc[t] \in {"user", "wait"}, thd[t].state = "RUNNABLE"
        PROVE  Walks(t)
    BY <1>3, <2>3 DEF Walks, Active
  <2> QED BY <1>4, <2>1, <2>2, <2>3
<1>7. \A t \in TSlots : Active(t)' => Active(t) /\ t # k /\ (tpc'[t] # "exit" => tpc[t] # "exit")
  BY <1>4 DEF Active
<1>8. \A t \in TSlots : Active(t)' /\ tpc'[t] # "exit" => Active(Main)'
  <2>1. Active(Main) => Active(Main)'
    BY <1>2, <1>4, ThreadNumbers DEF Active
  <2> QED BY <1>7, <2>1, FineHas DEF SlotsInv, MainInv
<1>9. SlotsInv'
  <2>1. \A t \in TSlots : Making(t)' => Making(t)
    BY <1>4 DEF Making
  <2>2. \A t \in TSlots : Making(t)' => targ[t] \in TSlots \ {k} /\ tpc[targ[t]] = "free"
    BY <1>2, <2>1, FineHas DEF MakingInv
  <2>3. \A t \in TSlots : Making(t)' => Steady(targ[t])
    BY <1>6, <2>2
  <2>4. \A t \in TSlots : Steady(t) \/ Walks(t) \/ Dies(t) \/ Leaves(t)
    BY <1>6
  <2> QED BY <1>8, <2>3, <2>4, FineHas, MoveKeepsSlots
<1>10. Unlimited => k # Main /\ spare'[Main] = spare[Main]
  BY <1>1, FineHas, ThreadNumbers DEF Unlimited
<1>11. StacksStay
  <2>1. \A t \in TSlots : HasStack(t)' => t # k /\ HasStack(t)
    BY <1>3 DEF HasStack
  <2>2. Unlimited' => Unlimited
    BY <1>3, ThreadNumbers DEF Unlimited
  <2> HIDE DEF HasStack
  <2> QED BY <1>1, <1>3, <1>10, <2>1, <2>2 DEF StacksStay
<1>12. Unlimited /\ ~nested => SizesStay
  <2> HIDE DEF Active
  <2> QED BY <1>1, <1>3, <1>4, <1>7, <1>10 DEF SizesStay
<1>13. StacksApart' /\ MadeByMain' /\ MemoryInv'
  BY <1>1, <1>11, <1>12, FineHas, StacksKept, MemoryKept
<1>14. JoinersWait'
  <2>1. \A t \in TSlots : Live(t) => t # k /\ Live(t)'
    BY <1>3 DEF Live
  <2>2. ASSUME NEW u \in TSlots, thd'[u].state = "SLEEPING"
        PROVE  thd[u].state = "SLEEPING" /\ \A t \in TSlots : Cause(u, t) => Cause(u, t)'
    <3>1. u # k /\ thd[u].state = "SLEEPING" /\ tpc'[u] = tpc[u]
      BY <1>3, <1>4, <2>2
    <3> HIDE DEF Live
    <3> QED BY <1>1, <1>3, <2>1, <3>1 DEF Cause
  <2>3. \/ ~parentAsleep'
        \/ /\ parentAsleep
           /\ \A t \in TSlots : thd[t].parent = Outside /\ (Live(t) \/ thd[t].state = "UNUSED") =>
                 thd'[t].parent = Outside /\ (Live(t)' \/ thd'[t].state = "UNUSED")
    <3> HIDE DEF Live
    <3> QED BY <1>1, <1>3, <2>1
  <2> QED BY <1>9, <2>2, <2>3, FineHas, JoinersKept
<1> QED BY <1>1, <1>5, <1>9, <1>13, <1>14, GoodIsEnough DEF Good

LEMMA WaitElsewhereStep ==
  ASSUME Fine, NEW k \in TSlots, WaitElsewhere(k)
  PROVE  ThreadsInv'
<1>1. /\ thd[k].state = "ZOMBIE" /\ ~thd[k].ours /\ ChildReaped(k) /\ tpc' = [tpc EXCEPT ![k] = "free"]
      /\ UNCHANGED <<mapped, nextTid, targ>> /\ InKernel
  BY DEF WaitElsewhere
<1> QED BY <1>1, ReapStep

LEMMA WaitChildStep ==
  ASSUME Fine, NEW w \in TSlots, WaitChild(w)
  PROVE  ThreadsInv'
<1> DEFINE kids == {k \in TSlots : thd[k].parent = w}
           zombies == {k \in kids : thd[k].state = "ZOMBIE"}
<1>1. thd[w].state = "RUNNABLE" /\ tpc[w] \in {"user", "wait"} /\ UNCHANGED <<mapped, nextTid, targ>> /\ InKernel
  BY DEF WaitChild, InUserCode, Runs
<1>2. CASE /\ zombies # {} /\ ChildReaped(Min(zombies))
           /\ tpc' = [tpc EXCEPT ![w] = "user", ![Min(zombies)] = "free"]
  <2>1. zombies \subseteq Nat
    BY ThreadNumbers
  <2>2. Min(zombies) \in zombies
    <3> HIDE DEF zombies
    <3> QED BY <1>2, <2>1, MinIsLeast
  <2>3. PICK k \in TSlots : k = Min(zombies) /\ thd[k].parent = w /\ thd[k].state = "ZOMBIE"
    BY <2>2
  <2> HIDE DEF zombies
  <2>4. ~thd[k].ours
    BY <2>3, FineHas, ThreadNumbers DEF SlotInv
  <2>5. ChildReaped(k) /\ tpc' = [tpc EXCEPT ![w] = "user", ![k] = "free"]
    BY <1>2, <2>3
  <2> QED BY <1>1, <2>3, <2>4, <2>5, ReapStep
<1>3. CASE /\ zombies = {} /\ (kids = {} \/ thd[w].killed) /\ tpc[w] = "wait"
           /\ tpc' = [tpc EXCEPT ![w] = "user"] /\ UNCHANGED <<thd, spare>>
  <2>1. UNCHANGED <<spare, mapped, nextTid, targ>> /\ InKernel /\ thd' = thd /\ tpc' = [tpc EXCEPT ![w] = "user"]
    BY <1>1, <1>3
  <2> QED BY <1>1, <2>1, WaitChildSimpleStep
<1>4. CASE /\ zombies = {} /\ kids # {} /\ ~thd[w].killed
           /\ thd' = [thd EXCEPT ![w].state = "SLEEPING"]
           /\ tpc' = [tpc EXCEPT ![w] = "wait"] /\ UNCHANGED spare
  <2>1. UNCHANGED <<spare, mapped, nextTid, targ>> /\ InKernel
    BY <1>1, <1>4
  <2>2. \E k \in TSlots : thd[k].parent = w /\ thd[k].state # "ZOMBIE"
    BY <1>4
  <2>3. thd' = [thd EXCEPT ![w].state = "SLEEPING"] /\ tpc' = [tpc EXCEPT ![w] = "wait"]
    BY <1>4
  <2> QED BY <1>1, <2>1, <2>2, <2>3, WaitChildSimpleStep
<1>5. \/ /\ zombies # {} /\ ChildReaped(Min(zombies))
         /\ tpc' = [tpc EXCEPT ![w] = "user", ![Min(zombies)] = "free"]
      \/ /\ zombies = {} /\ (kids = {} \/ thd[w].killed) /\ tpc[w] = "wait"
         /\ tpc' = [tpc EXCEPT ![w] = "user"] /\ UNCHANGED <<thd, spare>>
      \/ /\ zombies = {} /\ kids # {} /\ ~thd[w].killed
         /\ thd' = [thd EXCEPT ![w].state = "SLEEPING"]
         /\ tpc' = [tpc EXCEPT ![w] = "wait"] /\ UNCHANGED spare
  BY DEF WaitChild
<1> QED BY <1>2, <1>3, <1>4, <1>5

\* wait() in the parent of the process.
LEMMA WaitStep ==
  ASSUME Fine, Wait
  PROVE  ThreadsInv'
<1> DEFINE zombies == {s \in TSlots : thd[s].parent = Outside /\ thd[s].state = "ZOMBIE"}
           z == Min(zombies)
<1>1. nextTid' = nextTid /\ taken' = taken /\ targ' = targ /\ nested' = nested
  BY DEF Wait
<1>2. CASE zombies = {}
  <2>1. /\ parentAsleep' = TRUE /\ thd' = thd /\ spare' = spare /\ mapped' = mapped /\ tpc' = tpc /\ wreck' = "none"
        /\ \E s \in TSlots : thd[s].parent = Outside
    BY <1>2, FineHas DEF Wait
  <2>2. ThreadTypes'
    <3>1. ThreadTypes /\ parentAsleep' \in BOOLEAN /\ mapped' \subseteq mapped /\ thd' \in [TSlots -> SlotRecord]
          /\ tpc' \in [TSlots -> ThreadPlaces] /\ targ' \in [TSlots -> Nat]
      BY <1>1, <2>1, FineHas
    <3>2. \A t \in TSlots : thd'[t].tid = thd[t].tid
      BY <2>1
    <3> QED BY <1>1, <2>1, <3>1, <3>2, TypesMove
  <2>3. \A t \in TSlots : Steady(t)
    BY <1>1, <2>1 DEF Steady
  <2>4. SlotsInv'
    <3>1. \A t \in TSlots : Making(t)' => targ[t] \in TSlots
      BY <2>1, FineHas DEF Making, MakingInv
    <3>2. \A t \in TSlots : Active(t)' /\ tpc'[t] # "exit" => Active(Main)'
      BY <2>1, FineHas DEF SlotsInv, MainInv, Active
    <3> QED BY <2>3, <3>1, <3>2, FineHas, MoveKeepsSlots
  <2>5. StacksStay /\ SizesStay
    BY <1>1, <2>1 DEF StacksStay, SizesStay, HasStack, Unlimited, Active
  <2>6. StacksApart' /\ MadeByMain' /\ MemoryInv'
    BY <2>1, <2>5, FineHas, StacksKept, MemoryKept
  <2>7. JoinersWait'
    <3>1. PICK s \in TSlots : thd[s].parent = Outside
      BY <2>1
    <3>2. thd[s].state # "ZOMBIE"
      BY <1>2, <3>1
    <3>3. \A u \in TSlots : thd'[u].state = "SLEEPING" => \E t \in TSlots :
             Live(t)' /\ IF tpc'[u] = "wait" THEN thd'[t].parent = u ELSE thd'[t].tid = targ'[u]
      BY <1>1, <2>1, FineHas DEF JoinersWait, Live
    <3>4. thd'[s].parent = Outside /\ (Live(s)' \/ thd'[s].state = "UNUSED")
      BY <2>1, <3>1, <3>2 DEF Live
    <3> QED BY <3>3, <3>4 DEF JoinersWait
  <2> QED BY <2>1, <2>2, <2>4, <2>6, <2>7, GoodIsEnough DEF Good
<1>3. CASE zombies # {}
  <2>1. z \in TSlots /\ thd[z].parent = Outside /\ thd[z].state = "ZOMBIE"
    <3>1. zombies \subseteq Nat
      BY ThreadNumbers
    <3>2. z \in zombies
      <4> HIDE DEF zombies
      <4> QED BY <1>3, <3>1, MinIsLeast DEF z
    <3> QED BY <3>2
  <2>2. /\ thd' = [thd EXCEPT ![z] = [Reaped(@) EXCEPT !.sz = 0, !.tmaker = 0]]
        /\ spare' = [spare EXCEPT ![z] = <<>>] /\ mapped' = {} /\ tpc' = [tpc EXCEPT ![z] = "free"]
        /\ wreck' = IF \E s \in Family \ {z} : thd[s].state # "UNUSED" THEN "freed pgdir" ELSE "none"
        /\ parentAsleep' = FALSE
    BY <1>3 DEF Wait
  <2> HIDE DEF zombies, z
  <2>3. /\ \A t \in TSlots \ {z} : thd'[t] = thd[t]
        /\ thd'[z] \in SlotRecord /\ thd'[z].state = "UNUSED" /\ thd'[z].ours = FALSE /\ thd'[z].parent = 0
        /\ thd'[z].tid = thd[z].tid /\ thd'[z].limit = 0 /\ thd' \in [TSlots -> SlotRecord]
    <3> DEFINE r == [Reaped(thd[z]) EXCEPT !.sz = 0, !.tmaker = 0]
    <3>1. thd[z] \in SlotRecord /\ thd \in [TSlots -> SlotRecord]
      BY <2>1, FineHas
    <3>2. /\ r \in SlotRecord /\ r.state = "UNUSED" /\ r.ours = FALSE /\ r.parent = 0
          /\ r.tid = thd[z].tid /\ r.limit = 0
      <4>1. 0 \in 0..Outside /\ 0 \in 0..NSLOTS /\ 0 \in 0..KERNBASE /\ 0 \in Pages
        BY ThreadNumbers DEF Pages
      <4> QED BY <3>1, <4>1 DEF SlotRecord, States, Reaped
    <3> HIDE DEF r
    <3>3. thd' = [thd EXCEPT ![z] = r]
      BY <2>1, <2>2, <3>1 DEF r
    <3> QED BY <2>1, <3>1, <3>2, <3>3
  <2>4. /\ tpc'[z] = "free" /\ \A t \in TSlots \ {z} : tpc'[t] = tpc[t]
        /\ tpc' \in [TSlots -> ThreadPlaces] /\ tpc[z] = "dead"
    <3>1. "free" \in ThreadPlaces /\ tpc \in [TSlots -> ThreadPlaces] /\ tpc[z] = "dead"
      BY <2>1, FineHas DEF ThreadPlaces, SlotInv
    <3> QED BY <2>1, <2>2, <3>1
  <2>5. ThreadTypes'
    <3>1. ThreadTypes /\ parentAsleep' \in BOOLEAN /\ mapped' \subseteq mapped /\ wreck' \in {"none", "freed pgdir"}
          /\ targ' \in [TSlots -> Nat]
      BY <1>1, <2>2, FineHas
    <3>2. \A t \in TSlots : thd'[t].tid = thd[t].tid
      BY <2>3
    <3> QED BY <1>1, <2>1, <2>2, <2>3, <2>4, <3>1, <3>2, TypesMove
  <2>6. CASE wreck' = "none"
    <3>1. \A t \in TSlots \ {z} : thd[t].ours => thd[t].state = "UNUSED"
      BY <2>2, <2>6 DEF Family
    <3>2. \A t \in TSlots : ~Active(t) /\ ~Active(t)'
      <4>1. \A t \in TSlots : ~Active(t)
        BY <2>4, <3>1, FineHas DEF SlotInv, Active
      <4> QED BY <2>4, <4>1 DEF Active
    <3>3. \A t \in TSlots : ~HasStack(t)'
      BY <2>3, <3>1 DEF HasStack
    <3>4. ~Unlimited'
      BY <2>3, <3>1, FineHas, ThreadNumbers DEF Unlimited, SlotsInv, MainInv
    <3>5. SlotsInv'
      <4>1. Leaves(z) /\ \A t \in TSlots \ {z} : Steady(t)
        BY <1>1, <2>3, <2>4 DEF Leaves, Steady
      <4>2. \A t \in TSlots : ~Making(t)'
        BY <3>2 DEF Making, Active
      <4>3. \A t \in TSlots : Active(t)' /\ tpc'[t] # "exit" => Active(Main)'
        BY <3>2
      <4> QED BY <4>1, <4>2, <4>3, FineHas, MoveKeepsSlots
    <3>6. StacksApart' /\ MadeByMain' /\ MemoryInv'
      BY <3>3, <3>4 DEF StacksApart, MadeByMain, MemoryInv
    <3>7. JoinersWait'
      <4>1. \A u \in TSlots : thd'[u].state # "SLEEPING"
        <5>1. \A u \in TSlots : SlotInv(u)'
          BY <3>5 DEF SlotsInv
        <5> QED BY <3>2, <5>1 DEF SlotInv, Active
      <4> QED BY <2>2, <4>1 DEF JoinersWait
    <3> QED BY <2>5, <2>6, <3>5, <3>6, <3>7, GoodIsEnough DEF Good
  <2>7. CASE wreck' # "none"
    <3>1. wreck' = "freed pgdir"
      BY <2>2, <2>7
    <3> QED BY <2>5, <3>1 DEF ThreadsInv
  <2> QED BY <2>6, <2>7
<1> QED BY <1>2, <1>3

LEMMA TypesStep ==
  ASSUME ThreadTypes, thd' \in [TSlots -> SlotRecord],
         \A t \in TSlots : thd'[t].tid = thd[t].tid \/ thd'[t].tid < nextTid',
         tpc' \in [TSlots -> ThreadPlaces], targ' \in [TSlots -> Nat], mapped' \subseteq Pages,
         spare' \in [TSlots -> Seq(Pages)], \A t \in TSlots : Len(spare'[t]) < NTHREAD,
         nextTid' \in {nextTid, nextTid + 1}, taken' \in 0..MaxTaken,
         parentAsleep' \in BOOLEAN, nested' \in BOOLEAN, wreck' = "none"
  PROVE  ThreadTypes'
<1>1. \A t \in TSlots : thd'[t].tid < nextTid'
  <2> TAKE t \in TSlots
  <2>1. thd[t].tid < nextTid /\ thd[t].tid \in Nat /\ nextTid \in Nat
    BY DEF ThreadTypes, SlotRecord
  <2> QED BY <2>1
<1>2. nextTid' \in Nat \ {0}
  <2>1. nextTid \in Nat \ {0}
    BY DEF ThreadTypes
  <2>2. nextTid + 1 \in Nat \ {0}
    BY <2>1
  <2> QED BY <2>1, <2>2
<1> QED BY <1>1, <1>2 DEF ThreadTypes

\* A slot that makes another one: only that one changes.
LEMMA TargetStep ==
  ASSUME Fine, NEW s \in TSlots, NEW n \in TSlots \ {s}, Active(s), thd[s].state = "RUNNABLE",
         tpc[s] \in {"user", "create", "stack", "fork"},
         tpc[n] = "free", \A t \in TSlots \ {s} : Making(t) => targ[t] # n,
         ~Live(n) \/ (thd[n].tid = 0 /\ thd[n].parent \in {0, Outside}),
         thd' \in [TSlots -> SlotRecord], \A t \in TSlots \ {n} : thd'[t] = thd[t],
         thd'[n].tid = 0, thd'[n].limit = 0, SlotInv(n)',
         tpc' \in [TSlots -> ThreadPlaces], targ' \in [TSlots -> Nat],
         \A t \in TSlots \ {s, n} : tpc'[t] = tpc[t] /\ targ'[t] = targ[t],
         tpc'[n] \in {"free", "other"}, tpc'[s] \in {"user", "create", "stack", "fork", "forked"},
         tpc'[s] = "forked" => targ'[s] \in TSlots,
         tpc'[s] \in {"create", "stack", "fork"} => targ'[s] = n, MakingInv(s)',
         mapped' = mapped, nextTid' = nextTid, nested' = nested, parentAsleep' = parentAsleep,
         wreck' = "none", taken' \in 0..MaxTaken,
         spare' = spare \/ spare' = [spare EXCEPT ![n] = <<>>]
  PROVE  ThreadsInv'
<1>1. ThreadTypes'
  <2>1. spare' \in [TSlots -> Seq(Pages)] /\ \A t \in TSlots : Len(spare'[t]) < NTHREAD
    <3>1. ThreadTypes
      BY FineHas
    <3>2. CASE spare' = spare
      BY <3>1, <3>2 DEF ThreadTypes
    <3>3. CASE spare' = [spare EXCEPT ![n] = <<>>]
      BY <3>1, <3>3, RingsTyped
    <3> QED BY <3>2, <3>3
  <2>2. \A t \in TSlots : thd'[t].tid = thd[t].tid \/ thd'[t].tid < nextTid'
    <3>1. 0 < nextTid
      BY FineHas DEF ThreadTypes
    <3> QED BY <3>1
  <2>3. ThreadTypes /\ mapped' \subseteq Pages /\ nextTid' \in {nextTid, nextTid + 1} /\ parentAsleep' \in BOOLEAN
        /\ nested' \in BOOLEAN /\ wreck' = "none" /\ taken' \in 0..MaxTaken
    BY FineHas DEF ThreadTypes
  <2>4. thd' \in [TSlots -> SlotRecord] /\ tpc' \in [TSlots -> ThreadPlaces] /\ targ' \in [TSlots -> Nat]
    OBVIOUS
  <2> QED BY <2>1, <2>2, <2>3, <2>4, TypesStep
<1>2. Active(Main) /\ n # Main /\ thd[Main].ours /\ Active(s)' /\ thd[s].ours
  <2>1. Active(Main)
    BY FineHas DEF SlotsInv, MainInv
  <2>2. ~Active(n)
    BY DEF Active
  <2>3. SlotInv(Main) /\ SlotInv(s)
    BY FineHas, ThreadNumbers
  <2>4. Active(s)'
    BY DEF Active
  <2>5. thd[Main].ours /\ thd[s].ours
    BY <2>1, <2>3 DEF SlotInv
  <2> QED BY <2>1, <2>2, <2>4, <2>5
<1>3. Active(Main)'
  <2>1. Main # s => Active(Main)'
    BY <1>2, ThreadNumbers DEF Active
  <2> QED BY <1>2, <2>1
<1>4. \A t \in TSlots \ {s, n} : Steady(t)
  BY DEF Steady
<1>5. \A t \in TSlots : SlotInv(t)'
  <2>1. \A t \in TSlots \ {s, n} : SlotInv(t)'
    BY <1>4, FineHas, SteadySlot
  <2>2. SlotInv(s)'
    <3>1. thd'[s] = thd[s] /\ SlotInv(s) /\ Active(s)
      BY FineHas
    <3>2. tpc'[s] \in {"user", "create", "stack", "fork", "forked"} /\ (tpc'[s] = "forked" => targ'[s] \in TSlots)
      OBVIOUS
    <3>3. thd[s].state = "RUNNABLE"
      OBVIOUS
    <3> QED BY <3>1, <3>2, <3>3 DEF SlotInv, Active
  <2> QED BY <2>1, <2>2
<1>6. \A t \in TSlots \ {s, n} : Making(t)' => /\ Making(t) /\ targ'[t] = targ[t]
                                              /\ targ[t] \in TSlots \ {s, n}
  <2> TAKE t \in TSlots \ {s, n}
  <2>1. tpc'[t] = tpc[t] /\ targ'[t] = targ[t] /\ (Making(t) => targ[t] # n)
    OBVIOUS
  <2>2. MakingInv(t) /\ tpc[s] # "free"
    BY FineHas
  <2> QED BY <2>1, <2>2 DEF Making, MakingInv
<1>7. \A t \in TSlots : MakingInv(t)'
  <2>1. \A t \in TSlots \ {s, n} : MakingInv(t)'
    <3> TAKE t \in TSlots \ {s, n}
    <3>1. MakingInv(t) /\ tpc'[t] = tpc[t]
      BY FineHas
    <3>2. Making(t)' => targ'[t] = targ[t] /\ Steady(targ[t])
      BY <1>4, <1>6
    <3> QED BY <3>1, <3>2, MakingKept
  <2>2. MakingInv(n)'
    BY DEF MakingInv, Making
  <2> QED BY <2>1, <2>2
<1>8. PairInv'
  <2>1. PairInv
    BY FineHas DEF SlotsInv
  <2>2. \A t \in TSlots : Making(t)' => t # n /\ (t = s => targ'[t] = n)
    BY DEF Making
  <2>3. \A t, u \in TSlots : Making(t)' /\ Making(u)' /\ t # u => targ'[t] # targ'[u]
    <3> HIDE DEF Making
    <3> QED BY <1>6, <2>1, <2>2 DEF PairInv
  <2>4. \A t, u \in TSlots : thd'[t].tid = thd'[u].tid /\ thd'[t].tid # 0 => t = u
    <3>1. \A t \in TSlots : thd'[t].tid # 0 => t # n /\ thd'[t].tid = thd[t].tid
      OBVIOUS
    <3> QED BY <2>1, <3>1 DEF PairInv
  <2> QED BY <2>3, <2>4 DEF PairInv
<1>9. MainInv'
  <2>1. MainInv
    BY FineHas DEF SlotsInv
  <2>2. \A t \in TSlots : tpc[t] \notin Execs
    <3>1. tpc[s] \notin Execs
      BY DEF Execs
    <3> QED BY <1>2, <2>1, <3>1 DEF MainInv
  <2>3. \A t \in TSlots : tpc'[t] \notin Execs
    BY <2>2 DEF Execs
  <2>4. thd'[Main] = thd[Main] /\ \A t \in TSlots \ {Main} : thd'[t].limit = 0
    <3>1. \A t \in TSlots \ {Main} : thd[t].limit = 0
      BY <1>2, <2>1 DEF MainInv
    <3>2. \A t \in TSlots \ {n} : thd'[t] = thd[t]
      OBVIOUS
    <3>3. thd'[n].limit = 0
      OBVIOUS
    <3>4. \A t \in TSlots \ {Main} : thd'[t].limit = 0
      BY <3>1, <3>2, <3>3
    <3> QED BY <1>2, <3>2, <3>4, ThreadNumbers
  <2> QED BY <1>3, <2>1, <2>3, <2>4 DEF MainInv
<1>10. SlotsInv'
  BY <1>5, <1>7, <1>8, <1>9 DEF SlotsInv
<1>11. spare'[Main] = spare[Main] /\ thd'[Main] = thd[Main]
  BY <1>2, FineHas, ThreadNumbers
<1>12. StacksStay
  <2>1. \A t \in TSlots : HasStack(t)' => t # n /\ HasStack(t)
    BY DEF HasStack
  <2>2. Unlimited' => Unlimited
    BY <1>11 DEF Unlimited
  <2> HIDE DEF HasStack
  <2> QED BY <1>11, <2>1, <2>2 DEF StacksStay
<1>13. SizesStay
  <2>1. \A t \in TSlots : Active(t)' => t # n /\ Active(t)
    BY DEF Active
  <2>2. tpc[s] # "grown" /\ tpc'[s] \notin {"grown", "set"}
    OBVIOUS
  <2> HIDE DEF Active
  <2> QED BY <1>2, <2>1, <2>2 DEF SizesStay
<1>14. StacksApart' /\ MadeByMain' /\ MemoryInv'
  BY <1>12, <1>13, FineHas, StacksKept, MemoryKept
<1>15. JoinersWait'
  <2>1. ASSUME NEW u \in TSlots, thd'[u].state = "SLEEPING"
        PROVE  thd[u].state = "SLEEPING" /\ \A t \in TSlots : Cause(u, t) => Cause(u, t)'
    <3>1. u # n /\ u # s
      <4>1. tpc'[u] \in {"join", "wait"}
        BY <1>5, <2>1 DEF SlotInv
      <4> QED BY <4>1
    <3>2. thd[u].state = "SLEEPING" /\ tpc'[u] = tpc[u] /\ targ'[u] = targ[u]
      BY <2>1, <3>1
    <3>3. tpc[u] \in {"join", "wait"} /\ (tpc[u] = "join" => targ[u] # 0)
      BY <3>2, FineHas DEF SlotInv
    <3>4. ~Cause(u, n)
      BY <3>3, ThreadNumbers DEF Cause
    <3>5. \A t \in TSlots \ {n} : Live(t) => Live(t)'
      BY DEF Live
    <3> HIDE DEF Live
    <3> QED BY <3>2, <3>4, <3>5 DEF Cause
  <2> QED BY <1>2, <1>10, <2>1, FineHas, JoinersKept
<1> QED BY <1>1, <1>10, <1>14, <1>15, GoodIsEnough DEF Good

LEMMA MinimumThere ==
  ASSUME NEW m \in {t \in TSlots : thd[t].state = "UNUSED"}
  PROVE  /\ Min({t \in TSlots : thd[t].state = "UNUSED"}) \in TSlots
         /\ thd[Min({t \in TSlots : thd[t].state = "UNUSED"})].state = "UNUSED"
<1> DEFINE S == {t \in TSlots : thd[t].state = "UNUSED"}
<1>1. S \subseteq Nat /\ S # {}
  BY ThreadNumbers
<1>2. Min(S) \in S
  <2> HIDE DEF S
  <2> QED BY <1>1, MinIsLeast
<1> QED BY <1>2

LEMMA AllocStep ==
  ASSUME Fine, NEW s \in TSlots, NEW stack \in BOOLEAN, NEW next \in {"create", "fork"}, Alloc(s, stack, next)
  PROVE  ThreadsInv'
<1>0. \E m \in TSlots : thd[m].state = "UNUSED"
  BY DEF Alloc
<1>2. PICK n \in TSlots : thd[n].state = "UNUSED" /\ n = Min({m \in TSlots : thd[m].state = "UNUSED"})
  BY <1>0, MinimumThere
<1>1. /\ InUserCode(s) /\ taken < MaxTaken /\ taken' = IF stack THEN taken + 1 ELSE taken
      /\ thd' = [thd EXCEPT ![n] = [@ EXCEPT !.state = IF stack THEN "EMBRYO" ELSE "UNUSED",
                                         !.ours = FALSE, !.tid = 0, !.tmaker = n, !.limit = 0]]
      /\ spare' = [spare EXCEPT ![n] = <<>>]
      /\ tpc' = [tpc EXCEPT ![n] = "free", ![s] = IF stack THEN next ELSE "user"]
      /\ targ' = [targ EXCEPT ![s] = IF stack THEN n ELSE 0]
      /\ UNCHANGED <<mapped, nextTid, parentAsleep, nested, wreck>>
  BY <1>2 DEF Alloc
<1>3. /\ tpc[s] = "user" /\ thd[s].state = "RUNNABLE" /\ Active(s) /\ n # s
  BY <1>1, <1>2 DEF InUserCode, Runs, Active
<1>4. /\ tpc[n] = "free" /\ thd[n].parent \in {0, Outside} /\ ~Live(n)
  BY <1>2, FineHas DEF SlotInv, Live
<1>5. \A t \in TSlots : Making(t) => targ[t] # n
  BY <1>2, FineHas DEF MakingInv
<1>6. /\ \A t \in TSlots \ {n} : thd'[t] = thd[t]
      /\ thd' \in [TSlots -> SlotRecord] /\ thd'[n].tid = 0 /\ thd'[n].limit = 0
      /\ thd'[n].state = (IF stack THEN "EMBRYO" ELSE "UNUSED") /\ thd'[n].ours = FALSE
      /\ thd'[n].parent = thd[n].parent
  <2> DEFINE r == [thd[n] EXCEPT !.state = IF stack THEN "EMBRYO" ELSE "UNUSED",
                                 !.ours = FALSE, !.tid = 0, !.tmaker = n, !.limit = 0]
  <2>1. thd[n] \in SlotRecord /\ thd \in [TSlots -> SlotRecord] /\ n \in 0..NSLOTS
    BY <1>2, FineHas, ThreadNumbers
  <2>2. /\ r \in SlotRecord /\ r.tid = 0 /\ r.limit = 0 /\ r.ours = FALSE /\ r.parent = thd[n].parent
        /\ r.state = (IF stack THEN "EMBRYO" ELSE "UNUSED")
    BY <2>1 DEF SlotRecord, States
  <2>3. thd' = [thd EXCEPT ![n] = r]
    BY <1>1, <1>2, <2>1
  <2> HIDE DEF r
  <2> QED BY <1>2, <2>1, <2>2, <2>3
<1>7. /\ tpc'[n] = "free" /\ tpc'[s] = (IF stack THEN next ELSE "user")
      /\ targ'[s] = (IF stack THEN n ELSE 0)
      /\ \A t \in TSlots \ {s, n} : tpc'[t] = tpc[t] /\ targ'[t] = targ[t]
      /\ tpc' \in [TSlots -> ThreadPlaces] /\ targ' \in [TSlots -> Nat]
  <2>1. /\ tpc \in [TSlots -> ThreadPlaces] /\ targ \in [TSlots -> Nat] /\ n \in Nat
        /\ {"free", "create", "fork", "user"} \subseteq ThreadPlaces
    BY <1>2, FineHas, ThreadNumbers DEF ThreadPlaces
  <2> QED BY <1>1, <1>2, <1>3, <2>1
<1>8. SlotInv(n)'
  BY <1>4, <1>6, <1>7, ThreadNumbers DEF SlotInv, Active
<1>9. MakingInv(s)'
  BY <1>2, <1>3, <1>4, <1>6, <1>7 DEF MakingInv, Making
<1>10. taken' \in 0..MaxTaken
  BY <1>1, FineHas, ThreadsAssumption DEF ThreadTypes
<1>11. /\ mapped' = mapped /\ nextTid' = nextTid /\ nested' = nested /\ parentAsleep' = parentAsleep
       /\ wreck' = "none" /\ spare' = [spare EXCEPT ![n] = <<>>]
  BY <1>1, FineHas
<1>12. /\ n \in TSlots \ {s} /\ tpc[s] \in {"user", "create", "stack", "fork"} /\ tpc'[n] \in {"free", "other"}
       /\ tpc'[s] \in {"user", "create", "stack", "fork", "forked"} /\ tpc'[s] # "forked"
       /\ (tpc'[s] \in {"create", "stack", "fork"} => targ'[s] = n)
  BY <1>2, <1>3, <1>7
<1> QED BY <1>3, <1>4, <1>5, <1>6, <1>7, <1>8, <1>9, <1>10, <1>11, <1>12, TargetStep

\* What a slot that makes another knows of it.
LEMMA MakerKnows ==
  ASSUME Fine, NEW s \in TSlots, tpc[s] \in {"create", "stack", "fork"}
  PROVE  /\ targ[s] \in TSlots \ {s} /\ tpc[targ[s]] = "free" /\ thd[targ[s]].tid = 0
         /\ thd[targ[s]].state \in {"EMBRYO", "RUNNABLE"} /\ thd[targ[s]].ours = (tpc[s] = "stack")
         /\ thd[targ[s]].parent \in {0, Outside} /\ thd[targ[s]].limit = 0 /\ targ[s] # Main
         /\ \A t \in TSlots \ {s} : Making(t) => targ[t] # targ[s]
         /\ Active(s) /\ Active(Main) /\ thd[s].ours /\ thd[s].parent = Outside
<1>1. MakingInv(s) /\ Making(s) /\ Active(s) /\ SlotInv(s)
  BY FineHas DEF Making, Active
<1>2. Active(Main)
  BY <1>1, FineHas DEF SlotsInv, MainInv
<1>3. targ[s] \in TSlots \ {s} /\ targ[s] # Main
  BY <1>1, <1>2 DEF MakingInv, Active
<1>4. thd[Main].ours
  BY <1>2, FineHas, ThreadNumbers DEF SlotInv
<1>5. thd[targ[s]].limit = 0
  BY <1>3, <1>4, FineHas DEF SlotsInv, MainInv
<1>6. \A t \in TSlots \ {s} : Making(t) => targ[t] # targ[s]
  BY <1>1, FineHas DEF SlotsInv, PairInv
<1> QED BY <1>1, <1>2, <1>3, <1>5, <1>6 DEF MakingInv, SlotInv

LEMMA JoinFamilyStep ==
  ASSUME Fine, NEW s \in TSlots, CreateJoinFamily(s)
  PROVE  ThreadsInv'
<1>1. /\ tpc[s] = "create" /\ thd[s].state = "RUNNABLE"
      /\ thd' = [thd EXCEPT ![targ[s]].ours = thd[s].ours, ![targ[s]].parent = thd[s].parent]
      /\ GoTo(s, "stack", targ[s]) /\ UNCHANGED <<spare, mapped, nextTid>> /\ InKernel
  BY DEF CreateJoinFamily, Runs
<1>0. PICK n \in TSlots : n = targ[s]
  BY <1>1, MakerKnows
<1>2. /\ n \in TSlots \ {s} /\ tpc[n] = "free" /\ thd[n].tid = 0 /\ thd[n].state \in {"EMBRYO", "RUNNABLE"}
      /\ thd[n].parent \in {0, Outside} /\ thd[n].limit = 0 /\ n # Main
      /\ \A t \in TSlots \ {s} : Making(t) => targ[t] # n
      /\ Active(s) /\ thd[s].ours /\ thd[s].parent = Outside
  BY <1>0, <1>1, MakerKnows
<1>3. /\ \A t \in TSlots \ {n} : thd'[t] = thd[t]
      /\ thd' \in [TSlots -> SlotRecord] /\ thd'[n].tid = 0 /\ thd'[n].limit = 0
      /\ thd'[n].state = thd[n].state /\ thd'[n].ours = TRUE /\ thd'[n].parent = Outside
  <2> DEFINE r == [thd[n] EXCEPT !.ours = TRUE, !.parent = Outside]
  <2>0. thd[n] \in SlotRecord /\ thd[s] \in SlotRecord /\ thd \in [TSlots -> SlotRecord]
    BY <1>2, FineHas
  <2>1. Outside \in 0..Outside /\ thd[s].ours = TRUE
    <3>1. Outside \in 0..Outside
      BY ThreadNumbers
    <3>2. thd[s].ours \in BOOLEAN /\ thd[s].ours
      BY <1>2, <2>0 DEF SlotRecord
    <3> QED BY <3>1, <3>2
  <2>2. /\ r \in SlotRecord /\ r.tid = 0 /\ r.limit = 0 /\ r.ours = TRUE /\ r.parent = Outside
        /\ r.state = thd[n].state
    BY <1>2, <2>0, <2>1 DEF SlotRecord
  <2>3. thd' = [thd EXCEPT ![n] = r]
    <3>1. thd' = [[thd EXCEPT ![n].ours = TRUE] EXCEPT ![n].parent = Outside]
      BY <1>0, <1>1, <1>2, <2>0, <2>1
    <3>2. thd' = [thd EXCEPT ![n] = [[thd[n] EXCEPT !.ours = TRUE] EXCEPT !.parent = Outside]]
      BY <3>1, <1>2, <2>0
    <3> QED BY <3>2
  <2> HIDE DEF r
  <2> QED BY <1>2, <2>0, <2>2, <2>3
<1>4. /\ tpc'[s] = "stack" /\ targ'[s] = n
      /\ \A t \in TSlots \ {s} : tpc'[t] = tpc[t] /\ targ'[t] = targ[t]
      /\ tpc' \in [TSlots -> ThreadPlaces] /\ targ' \in [TSlots -> Nat]
  <2>1. "stack" \in ThreadPlaces /\ targ[s] \in Nat /\ ThreadTypes
    BY FineHas DEF ThreadPlaces
  <2> QED BY <1>0, <1>1, <2>1, GoToGives
<1>5. SlotInv(n)'
  BY <1>2, <1>3, <1>4, ThreadNumbers DEF SlotInv, Active
<1>6. MakingInv(s)'
  BY <1>2, <1>3, <1>4 DEF MakingInv, Making
<1>7. /\ mapped' = mapped /\ nextTid' = nextTid /\ nested' = nested /\ parentAsleep' = parentAsleep
      /\ wreck' = "none" /\ spare' = spare /\ taken' \in 0..MaxTaken
  BY <1>1, FineHas DEF InKernel, ThreadTypes
<1>8. /\ tpc[s] \in {"user", "create", "stack", "fork"} /\ tpc'[n] \in {"free", "other"}
      /\ tpc'[s] \in {"user", "create", "stack", "fork", "forked"} /\ tpc'[s] # "forked"
      /\ (~Live(n) \/ (thd[n].tid = 0 /\ thd[n].parent \in {0, Outside}))
      /\ \A t \in TSlots \ {s, n} : tpc'[t] = tpc[t] /\ targ'[t] = targ[t]
  BY <1>1, <1>2, <1>4
<1> QED BY <1>1, <1>2, <1>3, <1>4, <1>5, <1>6, <1>7, <1>8, TargetStep

\* thread_create() without memory, or without room for a stack.
LEMMA CreateFailsStep ==
  ASSUME Fine, NEW s \in TSlots, Runs(s, "stack"), thd' = [thd EXCEPT ![targ[s]].state = "UNUSED"],
         GoTo(s, "user", 0), UNCHANGED <<spare, mapped, nextTid>>, InKernel
  PROVE  ThreadsInv'
<1>1. tpc[s] = "stack" /\ thd[s].state = "RUNNABLE"
  BY DEF Runs
<1>0. PICK n \in TSlots : n = targ[s]
  BY <1>1, MakerKnows
<1>2. /\ n \in TSlots \ {s} /\ tpc[n] = "free" /\ thd[n].tid = 0 /\ thd[n].state \in {"EMBRYO", "RUNNABLE"}
      /\ thd[n].parent \in {0, Outside} /\ thd[n].limit = 0 /\ n # Main /\ thd[n].ours
      /\ \A t \in TSlots \ {s} : Making(t) => targ[t] # n
      /\ Active(s)
  BY <1>0, <1>1, MakerKnows
<1>3. /\ \A t \in TSlots \ {n} : thd'[t] = thd[t]
      /\ thd' \in [TSlots -> SlotRecord] /\ thd'[n].tid = 0 /\ thd'[n].limit = 0
      /\ thd'[n].state = "UNUSED" /\ thd'[n].ours = thd[n].ours /\ thd'[n].parent = thd[n].parent
  <2>1. "UNUSED" \in States /\ n \in TSlots
    BY <1>2 DEF States
  <2>2. /\ \A t \in TSlots \ {n} : thd'[t] = thd[t]
        /\ thd' \in [TSlots -> SlotRecord] /\ thd'[n].state = "UNUSED" /\ SameSlot(n)
    BY <1>0, <2>1, FineHas, StateSet
  <2> QED BY <1>2, <2>2 DEF SameSlot
<1>4. /\ tpc'[s] = "user" /\ targ'[s] = 0
      /\ \A t \in TSlots \ {s} : tpc'[t] = tpc[t] /\ targ'[t] = targ[t]
      /\ tpc' \in [TSlots -> ThreadPlaces] /\ targ' \in [TSlots -> Nat]
  <2>1. "user" \in ThreadPlaces /\ 0 \in Nat /\ ThreadTypes
    BY FineHas DEF ThreadPlaces
  <2> QED BY <2>1, GoToGives
<1>5. SlotInv(n)'
  <2>1. thd[n].ours => thd[n].parent = Outside
    BY <1>2, FineHas DEF SlotInv
  <2> QED BY <2>1, <1>2, <1>3, <1>4, ThreadNumbers DEF SlotInv, Active
<1>6. MakingInv(s)'
  BY <1>4 DEF MakingInv, Making
<1>7. /\ mapped' = mapped /\ nextTid' = nextTid /\ nested' = nested /\ parentAsleep' = parentAsleep
      /\ wreck' = "none" /\ spare' = spare /\ taken' \in 0..MaxTaken
  BY FineHas DEF InKernel, ThreadTypes
<1>8. /\ tpc[s] \in {"user", "create", "stack", "fork"} /\ tpc'[n] \in {"free", "other"}
      /\ tpc'[s] \in {"user", "create", "stack", "fork", "forked"} /\ tpc'[s] # "forked"
      /\ tpc'[s] \notin {"create", "stack", "fork"}
      /\ (~Live(n) \/ (thd[n].tid = 0 /\ thd[n].parent \in {0, Outside}))
      /\ \A t \in TSlots \ {s, n} : tpc'[t] = tpc[t] /\ targ'[t] = targ[t]
  BY <1>1, <1>2, <1>4
<1> QED BY <1>1, <1>2, <1>3, <1>4, <1>5, <1>6, <1>7, <1>8, TargetStep

\* fork() has copied the memory.
LEMMA ForkedStep ==
  ASSUME Fine, NEW s \in TSlots, Runs(s, "fork"),
         thd' = [thd EXCEPT ![targ[s]] = [@ EXCEPT !.parent = s, !.tmaker = targ[s], !.sz = 0]],
         tpc' = [tpc EXCEPT ![targ[s]] = "other", ![s] = "forked"],
         UNCHANGED <<spare, mapped, nextTid, targ>>, InKernel
  PROVE  ThreadsInv'
<1>1. tpc[s] = "fork" /\ thd[s].state = "RUNNABLE"
  BY DEF Runs
<1>0. PICK n \in TSlots : n = targ[s]
  BY <1>1, MakerKnows
<1>2. /\ n \in TSlots \ {s} /\ tpc[n] = "free" /\ thd[n].tid = 0 /\ thd[n].state \in {"EMBRYO", "RUNNABLE"}
      /\ thd[n].parent \in {0, Outside} /\ thd[n].limit = 0 /\ n # Main /\ thd[n].ours = FALSE
      /\ \A t \in TSlots \ {s} : Making(t) => targ[t] # n
      /\ Active(s)
  BY <1>0, <1>1, MakerKnows
<1>3. /\ \A t \in TSlots \ {n} : thd'[t] = thd[t]
      /\ thd' \in [TSlots -> SlotRecord] /\ thd'[n].tid = 0 /\ thd'[n].limit = 0
      /\ thd'[n].state = thd[n].state /\ thd'[n].ours = FALSE /\ thd'[n].parent = s
  <2> DEFINE r == [thd[n] EXCEPT !.parent = s, !.tmaker = n, !.sz = 0]
  <2>1. thd[n] \in SlotRecord /\ thd \in [TSlots -> SlotRecord] /\ s \in 0..Outside /\ n \in 0..NSLOTS
        /\ 0 \in 0..KERNBASE
    BY <1>2, FineHas, ThreadNumbers
  <2>2. /\ r \in SlotRecord /\ r.tid = 0 /\ r.limit = 0 /\ r.ours = FALSE /\ r.parent = s
        /\ r.state = thd[n].state
    BY <1>2, <2>1 DEF SlotRecord
  <2>3. thd' = [thd EXCEPT ![n] = r]
    BY <1>0
  <2> HIDE DEF r
  <2>4. thd' \in [TSlots -> SlotRecord] /\ thd'[n] = r /\ \A t \in TSlots \ {n} : thd'[t] = thd[t]
    <3>1. n \in TSlots /\ r \in SlotRecord
      BY <1>2, <2>2
    <3> QED BY ONLY <2>1, <2>3, <3>1
  <2>5. thd'[n].tid = 0 /\ thd'[n].limit = 0 /\ thd'[n].ours = FALSE /\ thd'[n].parent = s
    BY <2>2, <2>4
  <2>6. thd'[n].state = thd[n].state
    BY <2>2, <2>4
  <2> QED BY <2>4, <2>5, <2>6
<1>4. /\ tpc'[s] = "forked" /\ targ' = targ /\ tpc'[n] = "other"
      /\ \A t \in TSlots \ {s, n} : tpc'[t] = tpc[t]
      /\ tpc' \in [TSlots -> ThreadPlaces] /\ targ' \in [TSlots -> Nat]
  <2>1. {"forked", "other"} \subseteq ThreadPlaces /\ tpc \in [TSlots -> ThreadPlaces] /\ targ \in [TSlots -> Nat]
    BY FineHas DEF ThreadPlaces
  <2> QED BY <1>0, <1>2, <2>1
<1>5. SlotInv(n)'
  BY <1>2, <1>3, <1>4, ThreadNumbers DEF SlotInv, Active
<1>6. MakingInv(s)'
  BY <1>4 DEF MakingInv, Making
<1>7. /\ mapped' = mapped /\ nextTid' = nextTid /\ nested' = nested /\ parentAsleep' = parentAsleep
      /\ wreck' = "none" /\ spare' = spare /\ taken' \in 0..MaxTaken
  BY FineHas DEF InKernel, ThreadTypes
<1>8. /\ tpc[s] \in {"user", "create", "stack", "fork"} /\ tpc'[n] \in {"free", "other"}
      /\ tpc'[s] \in {"user", "create", "stack", "fork", "forked"} /\ tpc'[s] = "forked"
      /\ tpc'[s] \notin {"create", "stack", "fork"} /\ targ'[s] \in TSlots
      /\ (~Live(n) \/ (thd[n].tid = 0 /\ thd[n].parent \in {0, Outside}))
      /\ \A t \in TSlots \ {s, n} : tpc'[t] = tpc[t] /\ targ'[t] = targ[t]
  BY <1>0, <1>1, <1>2, <1>4
<1> QED BY <1>1, <1>2, <1>3, <1>4, <1>5, <1>6, <1>7, <1>8, TargetStep

\* exec() fails after the cleaning.
LEMMA ExecBadStep ==
  ASSUME Fine, NEW s \in TSlots, Runs(s, "exec") \/ Runs(s, "exec2"), ExecBad, GoTo(s, "user", 0),
         UNCHANGED nextTid, InKernel
  PROVE  ThreadsInv'
<1>1. thd[s].state = "RUNNABLE" /\ tpc[s] \in {"exec", "exec2"} /\ Active(s)
  BY DEF Runs, Active
<1>2. /\ thd' = thd /\ mapped' = mapped /\ spare' = spare /\ nested' = nested /\ wreck' = "none"
      /\ nextTid' = nextTid /\ taken' = taken /\ parentAsleep' = parentAsleep
  BY FineHas DEF ExecBad, InKernel
<1>3. /\ tpc'[s] = "user" /\ targ'[s] = 0
      /\ \A t \in TSlots \ {s} : tpc'[t] = tpc[t] /\ targ'[t] = targ[t]
      /\ tpc' \in [TSlots -> ThreadPlaces] /\ targ' \in [TSlots -> Nat]
  <2>1. "user" \in ThreadPlaces /\ 0 \in Nat /\ ThreadTypes
    BY FineHas DEF ThreadPlaces
  <2> QED BY <2>1, GoToGives
<1>4. ThreadTypes'
  <2>1. /\ thd' \in [TSlots -> SlotRecord] /\ \A t \in TSlots : thd'[t].tid = thd[t].tid
        /\ mapped' \subseteq mapped /\ parentAsleep' \in BOOLEAN /\ ThreadTypes
    BY <1>2, FineHas
  <2> QED BY <1>2, <1>3, <2>1, TypesMove
<1>5. Walks(s) /\ \A t \in TSlots \ {s} : Steady(t)
  BY <1>1, <1>2, <1>3 DEF Walks, Steady
<1>6. SizesStay
  BY <1>1, <1>2, <1>3 DEF SizesStay, Active
<1>7. /\ tpc[s] # "exit" /\ thd'[s].state # "SLEEPING"
      /\ \A t \in TSlots : /\ thd'[t].thdva = thd[t].thdva /\ thd'[t].parent = thd[t].parent
                           /\ thd'[t].limit = thd[t].limit
  BY <1>1, <1>2
<1> QED BY <1>1, <1>2, <1>4, <1>5, <1>6, <1>7, SimpleStep

\* exec() commits the new image: the slot is alone.
LEMMA CommitStep ==
  ASSUME Fine, NEW s \in TSlots, Runs(s, "exec") \/ Runs(s, "exec2"), NEW pages \in 0..KERNBASE,
         Commit(s, pages), GoTo(s, "user", 0), UNCHANGED nextTid, InKernel
  PROVE  ThreadsInv'
<1>1. thd[s].state = "RUNNABLE" /\ tpc[s] \in {"exec", "exec2"} /\ Active(s)
  BY DEF Runs, Active
<1>2. s = Main /\ thd[Main].ours /\ \A t \in TSlots \ {s} : ~thd[t].ours /\ ~Active(t)
  <2>1. \A t \in TSlots \ {s} : ~thd[t].ours
    BY <1>1, FineHas DEF SlotsInv, MainInv, Execs
  <2>2. \A t \in TSlots : Active(t) => thd[t].ours
    BY FineHas DEF SlotInv
  <2>3. Active(Main)
    BY <1>1, FineHas DEF SlotsInv, MainInv
  <2> QED BY <2>1, <2>2, <2>3, ThreadNumbers
<1>3. /\ \A t \in TSlots \ {s} : thd'[t] = thd[t]
      /\ thd' \in [TSlots -> SlotRecord] /\ thd'[s].tid = 0 /\ thd'[s].tmaker = s /\ thd'[s].sz = pages
      /\ thd'[s].state = "RUNNABLE" /\ thd'[s].ours = thd[s].ours /\ thd'[s].parent = thd[s].parent
  <2> DEFINE r == [thd[s] EXCEPT !.sz = pages, !.limit = 0, !.thdva = 0, !.tid = 0, !.tmaker = s]
  <2>1. thd[s] \in SlotRecord /\ thd \in [TSlots -> SlotRecord] /\ s \in 0..NSLOTS /\ 0 \in Pages
    BY FineHas, ThreadNumbers DEF Pages
  <2>2. /\ r \in SlotRecord /\ r.tid = 0 /\ r.tmaker = s /\ r.sz = pages
        /\ r.state = thd[s].state /\ r.ours = thd[s].ours /\ r.parent = thd[s].parent
    BY <2>1 DEF SlotRecord
  <2>3. thd' = [thd EXCEPT ![s] = r]
    BY <2>1 DEF Commit
  <2> HIDE DEF r
  <2> QED BY <1>1, <2>1, <2>2, <2>3
<1>4. /\ tpc'[s] = "user" /\ targ'[s] = 0
      /\ \A t \in TSlots \ {s} : tpc'[t] = tpc[t] /\ targ'[t] = targ[t]
      /\ tpc' \in [TSlots -> ThreadPlaces] /\ targ' \in [TSlots -> Nat]
  <2>1. "user" \in ThreadPlaces /\ 0 \in Nat /\ ThreadTypes
    BY FineHas DEF ThreadPlaces
  <2> QED BY <2>1, GoToGives
<1>5. /\ mapped' = 0..(pages - 1) /\ spare' = [spare EXCEPT ![s] = <<>>] /\ nested' = nested /\ wreck' = "none"
      /\ nextTid' = nextTid /\ taken' = taken /\ parentAsleep' = parentAsleep
  BY FineHas DEF Commit, InKernel
<1>6. thd[Main].tid = 0 /\ thd[Main].tmaker = Main
  BY <1>2, FineHas DEF SlotsInv, MainInv
<1>7. ThreadTypes'
  <2>1. /\ \A t \in TSlots : thd'[t].tid = thd[t].tid
        /\ parentAsleep' \in BOOLEAN /\ nested' \in BOOLEAN /\ ThreadTypes /\ taken' \in 0..MaxTaken
    BY <1>2, <1>3, <1>5, <1>6, FineHas DEF ThreadTypes
  <2>2. spare' \in [TSlots -> Seq(Pages)] /\ \A t \in TSlots : Len(spare'[t]) < NTHREAD
    BY <1>5, <2>1, RingsTyped
  <2>3. mapped' \subseteq Pages
    BY <1>5, ThreadNumbers DEF Pages
  <2> QED BY <1>3, <1>4, <1>5, <2>1, <2>2, <2>3, TypesStep
<1>8. \A t \in TSlots : Active(t)' => t = Main
  BY <1>2, <1>4 DEF Active
<1>9. SlotsInv'
  <2>1. Walks(s) /\ \A t \in TSlots \ {s} : Steady(t)
    BY <1>1, <1>2, <1>3, <1>4, <1>6 DEF Walks, Steady
  <2>2. \A t \in TSlots : ~Making(t)'
    <3>1. \A t \in TSlots : Making(t)' => Active(t)'
      BY DEF Making, Active
    <3> QED BY <1>2, <1>4, <1>8, <3>1 DEF Making
  <2> QED BY <1>8, <2>1, <2>2, FineHas, MoveKeepsSlots
<1>10. \A t \in TSlots : ~HasStack(t)'
  BY <1>2, <1>3 DEF HasStack
<1>11. spare'[Main] = <<>>
  BY <1>2, <1>5, FineHas
<1>12. StacksApart' /\ MadeByMain'
  BY <1>10, <1>11 DEF StacksApart, MadeByMain
<1>13. MemoryInv'
  <2>1. CoveredBy(pages, mapped', spare'[Main])
    BY <1>5 DEF CoveredBy
  <2>2. SizesCovered'
    BY <1>2, <1>3, <1>4, <1>8, <2>1 DEF SizesCovered
  <2> DEFINE B == {t \in TSlots : HasStack(t)'}
  <2>3. B = {}
    BY <1>10
  <2>5. Cardinality({}) = 0 /\ Len(<<>>) = 0
    BY FS_EmptySet
  <2> HIDE DEF B
  <2>6. Len(spare'[Main]) + Cardinality(B) <= NSLOTS - 1
    BY <1>11, <2>3, <2>5, ThreadNumbers
  <2>4. SpareFits'
    BY <2>6 DEF B, SpareFits
  <2> QED BY <2>2, <2>4 DEF MemoryInv
<1>14. JoinersWait'
  <2>1. \A u \in TSlots : thd'[u].state # "SLEEPING"
    <3>1. \A u \in TSlots : SlotInv(u)'
      BY <1>9 DEF SlotsInv
    <3>2. \A u \in TSlots : thd'[u].state = "SLEEPING" => Active(u)'
      BY <3>1 DEF SlotInv, Active
    <3> QED BY <1>2, <1>3, <1>8, <3>2
  <2>2. Active(Main)'
    BY <1>2, <1>4 DEF Active
  <2> QED BY <1>9, <2>1, <2>2, FineHas, ThreadNumbers, JoinersKept
<1> QED BY <1>5, <1>7, <1>9, <1>12, <1>13, <1>14, GoodIsEnough DEF Good

LEMMA ExecDoneStep ==
  ASSUME Fine, NEW s \in TSlots, NEW good \in BOOLEAN, ExecDone(s, good)
  PROVE  ThreadsInv'
<1>1. Runs(s, "exec") /\ GoTo(s, "user", 0) /\ UNCHANGED nextTid /\ InKernel
  BY DEF ExecDone
<1>2. IMAGE \in 0..KERNBASE
  BY ThreadNumbers
<1>3. Commit(s, IMAGE) \/ ExecBad
  BY DEF ExecDone
<1> QED BY <1>1, <1>2, <1>3, CommitStep, ExecBadStep

LEMMA Exec2DoneStep ==
  ASSUME Fine, NEW s \in TSlots, NEW good \in BOOLEAN, Exec2Done(s, good)
  PROVE  ThreadsInv'
<1>1. Runs(s, "exec2") /\ GoTo(s, "user", 0) /\ UNCHANGED nextTid /\ InKernel
  BY DEF Exec2Done
<1>2. CASE targ[s] > 0 /\ IMAGE - 1 + targ[s] < KERNBASE /\ Commit(s, IMAGE - 1 + targ[s])
  <2>1. targ[s] \in Nat
    BY FineHas
  <2>2. IMAGE - 1 + targ[s] \in 0..KERNBASE
    BY <1>2, <2>1, ThreadNumbers
  <2>3. PICK pages \in 0..KERNBASE : pages = IMAGE - 1 + targ[s]
    BY <2>2
  <2>4. Commit(s, pages)
    BY <1>2, <2>3
  <2> QED BY <1>1, <2>4, CommitStep
<1>3. CASE ExecBad
  BY <1>1, <1>3, ExecBadStep
<1> QED BY <1>2, <1>3 DEF Exec2Done

\* thread_cleaner(): the other slots of the process are gone.
LEMMA CleanStep ==
  ASSUME Fine, NEW s \in TSlots, Runs(s, "user"), NEW next \in Execs, NEW arg \in 0..100,
         next # "exit" => thd[s].tid = 0, Clean(s, next, arg)
  PROVE  ThreadsInv'
<1>0. CASE CleanerPanics(s)
  <2>1. Panic("kfree") /\ ThreadsInv
    BY <1>0 DEF Clean, Fine, Good, ThreadsInv
  <2> QED BY <2>1, PanicKeeps
<1>1. SUFFICES ASSUME ~CleanerPanics(s) PROVE ThreadsInv'
  BY <1>0
<1>2. /\ thd[s].state = "RUNNABLE" /\ tpc[s] = "user" /\ Active(s) /\ thd[s].ours
      /\ s # Main => thd[s].tid # 0
  BY FineHas DEF Runs, Active, SlotInv
<1>3. /\ thd' = Cleaned(s)
      /\ tpc' = [t \in TSlots |-> IF t = s THEN next ELSE IF thd[t].ours THEN "free" ELSE tpc[t]]
      /\ targ' = [targ EXCEPT ![s] = arg]
      /\ UNCHANGED <<spare, mapped, nextTid>> /\ InKernel
  BY <1>1 DEF Clean
<1>4. /\ mapped' = mapped /\ spare' = spare /\ nested' = nested /\ wreck' = "none"
      /\ nextTid' = nextTid /\ taken' = taken /\ parentAsleep' = parentAsleep /\ parentAsleep' \in BOOLEAN
  BY <1>3, FineHas DEF InKernel
<1>5. ASSUME NEW t \in TSlots
      PROVE  /\ thd'[t] \in SlotRecord /\ thd'[t].tid = thd[t].tid /\ thd'[t].tmaker = thd[t].tmaker
             /\ (t # s /\ thd[t].ours) => /\ thd'[t].state = "UNUSED" /\ ~thd'[t].ours /\ thd'[t].parent = 0
                                          /\ thd'[t].limit = 0 /\ thd'[t].sz = 0
             /\ (t = s \/ ~thd[t].ours) => /\ SameSlot(t) /\ thd'[t].sz = thd[t].sz
                                           /\ thd'[t].state = thd[t].state \/ thd'[t].state = "RUNNABLE"
  <2>1. thd[t] \in SlotRecord
    BY FineHas
  <2>2. CASE t # s /\ thd[t].ours
    <3>1. thd'[t] = [Reaped(thd[t]) EXCEPT !.sz = 0]
      BY <1>3, <2>2 DEF Cleaned, Family
    <3>2. 0 \in 0..Outside /\ 0 \in 0..KERNBASE /\ 0 \in Pages
      BY ThreadNumbers DEF Pages
    <3> DEFINE r == [Reaped(thd[t]) EXCEPT !.sz = 0]
    <3>3. /\ r \in SlotRecord /\ r.tid = thd[t].tid /\ r.tmaker = thd[t].tmaker
          /\ r.state = "UNUSED" /\ ~r.ours /\ r.parent = 0 /\ r.limit = 0 /\ r.sz = 0
      BY <2>1, <3>2 DEF SlotRecord, States, Reaped
    <3> HIDE DEF r
    <3>4. thd'[t] = r
      BY <3>1 DEF r
    <3> QED BY <2>2, <3>3, <3>4
  <2>3. CASE t = s \/ ~thd[t].ours
    <3> DEFINE r == [thd[t] EXCEPT !.state = "RUNNABLE"]
    <3>1. thd'[t] = thd[t] \/ thd'[t] = r
      BY <1>3, <2>3 DEF Cleaned, Family
    <3>2. /\ r \in SlotRecord /\ r.ours = thd[t].ours /\ r.tid = thd[t].tid /\ r.tmaker = thd[t].tmaker
          /\ r.limit = thd[t].limit /\ r.parent = thd[t].parent /\ r.thdva = thd[t].thdva
          /\ r.sz = thd[t].sz /\ r.state = "RUNNABLE"
      BY <2>1 DEF SlotRecord, States
    <3> HIDE DEF r
    <3> QED BY <2>1, <2>3, <3>1, <3>2 DEF SameSlot
  <2> QED BY <2>2, <2>3
<1>6. thd' \in [TSlots -> SlotRecord]
  <2>1. thd' = [t \in TSlots |-> thd'[t]]
    BY <1>3 DEF Cleaned
  <2> QED BY <1>5, <2>1
<1>7. /\ tpc'[s] = next /\ targ'[s] = arg /\ \A t \in TSlots \ {s} : targ'[t] = targ[t]
      /\ \A t \in TSlots \ {s} : tpc'[t] = IF thd[t].ours THEN "free" ELSE tpc[t]
      /\ tpc' \in [TSlots -> ThreadPlaces] /\ targ' \in [TSlots -> Nat]
  <2>1. /\ tpc \in [TSlots -> ThreadPlaces] /\ targ \in [TSlots -> Nat] /\ arg \in Nat
        /\ next \in ThreadPlaces /\ "free" \in ThreadPlaces
    BY FineHas DEF ThreadPlaces, Execs
  <2> QED BY <1>3, <2>1
<1>8. ThreadTypes'
  <2>1. mapped' \subseteq mapped /\ ThreadTypes /\ \A t \in TSlots : thd'[t].tid = thd[t].tid
    BY <1>4, <1>5, FineHas
  <2> QED BY <1>4, <1>6, <1>7, <2>1, TypesMove
<1>9. \A t \in TSlots : Active(t) => thd[t].ours
  BY FineHas DEF SlotInv
<1>10. \A t \in TSlots : Active(t)' => t = s
  BY <1>7, <1>9 DEF Active
<1>11. Active(s)' /\ thd'[s].state = "RUNNABLE"
  BY <1>2, <1>5, <1>7 DEF Active, Execs
<1>12. \A t \in TSlots : SlotInv(t)'
  <2> TAKE t \in TSlots
  <2>1. CASE t = s
    <3>1. SlotInv(s) /\ SameSlot(s)
      BY <1>2, <1>5, FineHas
    <3> QED BY <1>2, <1>7, <1>11, <2>1, <3>1, ThreadNumbers DEF SlotInv, Active, Execs, SameSlot
  <2>2. CASE t # s /\ thd[t].ours
    <3>1. Leaves(t)
      BY <1>5, <1>7, <2>2 DEF Leaves
    <3> QED BY <3>1, LeavingSlot
  <2>3. CASE t # s /\ ~thd[t].ours
    <3>1. Steady(t)
      BY <1>5, <1>7, <2>3 DEF Steady, SameSlot
    <3> QED BY <3>1, FineHas, SteadySlot
  <2> QED BY <2>1, <2>2, <2>3
<1>13. \A t \in TSlots : ~Making(t)'
  <2>1. \A t \in TSlots : Making(t)' => t = s
    BY <1>10 DEF Active, Making
  <2> QED BY <1>7, <2>1 DEF Making, Execs
<1>14. \A t \in TSlots : thd'[t].ours => t = s
  BY <1>5 DEF SameSlot
<1>15. MainInv'
  <2>1. thd'[Main].ours => /\ thd'[Main].tid = 0 /\ thd'[Main].tmaker = Main /\ thd'[Main].state # "UNUSED"
                           /\ \A t \in TSlots \ {Main} : thd'[t].limit = 0
    <3> HAVE thd'[Main].ours
    <3>1. s = Main /\ thd[Main].ours
      BY <1>2, <1>14, ThreadNumbers
    <3>2. thd[Main].tid = 0 /\ thd[Main].tmaker = Main /\ \A t \in TSlots \ {Main} : thd[t].limit = 0
      BY <3>1, FineHas DEF SlotsInv, MainInv
    <3>3. \A t \in TSlots \ {Main} : thd'[t].limit = 0
      BY <3>2, <1>5 DEF SameSlot
    <3> QED BY <1>5, <1>11, <3>1, <3>2, <3>3
  <2>2. \A t \in TSlots : Active(t)' /\ tpc'[t] # "exit" => Active(Main)'
    BY <1>2, <1>7, <1>10, <1>11
  <2>3. \A t \in TSlots : tpc'[t] \in Execs => \A u \in TSlots \ {t} : ~thd'[u].ours
    <3>1. \A t \in TSlots : tpc'[t] \in Execs => t = s
      BY <1>10 DEF Execs, Active
    <3> QED BY <1>14, <3>1
  <2> QED BY <2>1, <2>2, <2>3 DEF MainInv
<1>16. SlotsInv'
  <2>1. \A t \in TSlots : MakingInv(t)'
    BY <1>13 DEF MakingInv
  <2>2. PairInv'
    <3>1. \A t, u \in TSlots : thd[t].tid = thd[u].tid /\ thd[t].tid # 0 => t = u
      BY FineHas DEF PairInv, SlotsInv
    <3>2. \A t \in TSlots : thd'[t].tid = thd[t].tid
      BY <1>5
    <3>3. \A t, u \in TSlots : thd'[t].tid = thd'[u].tid /\ thd'[t].tid # 0 => t = u
      BY <3>1, <3>2
    <3>4. \A t, u \in TSlots : Making(t)' /\ Making(u)' /\ t # u => targ'[t] # targ'[u]
      BY <1>13
    <3> QED BY <3>3, <3>4 DEF PairInv
  <2> QED BY <1>12, <1>15, <2>1, <2>2 DEF SlotsInv
<1>17. StacksStay
  <2>1. \A t \in TSlots : HasStack(t)' => t = s /\ HasStack(s)
    BY <1>2, <1>5, <1>14 DEF HasStack
  <2>2. Unlimited' => Unlimited
    BY <1>5, <1>14, ThreadNumbers DEF Unlimited, SameSlot
  <2> HIDE DEF HasStack
  <2> QED BY <1>4, <1>5, <2>1, <2>2 DEF StacksStay, SameSlot
<1>18. Unlimited /\ ~nested => SizesStay
  <2> HAVE Unlimited /\ ~nested
  <2>1. ASSUME NEW t \in TSlots, Active(t)' \/ t = Main
        PROVE  /\ \/ CoveredBy(thd'[t].sz, mapped, spare[Main])
                  \/ /\ thd'[t].sz = thd[t].sz /\ (Active(t) \/ t = Main)
                     /\ tpc[t] = "grown" => tpc'[t] = "grown"
               /\ tpc'[t] \in {"grown", "set"} => tpc[t] \in {"grown", "set"} /\ targ'[t] = targ[t]
               /\ t # Main => Active(t)
    <3>1. CASE t = s
      BY <1>2, <1>5, <1>7, <3>1 DEF Execs
    <3>2. CASE t # s
      <4>1. t = Main /\ thd[t].ours
        BY <1>10, <2>1, <3>2 DEF Unlimited
      <4>2. thd'[t].sz = 0 /\ tpc'[t] = "free"
        BY <1>5, <1>7, <3>2, <4>1
      <4>3. CoveredBy(0, mapped, spare[Main])
        BY DEF CoveredBy
      <4> QED BY <4>1, <4>2, <4>3
    <3> QED BY <3>1, <3>2
  <2> QED BY <2>1 DEF SizesStay
<1>19. StacksApart' /\ MadeByMain' /\ MemoryInv'
  BY <1>4, <1>17, <1>18, FineHas, StacksKept, MemoryKept
<1>20. JoinersWait'
  <2>1. \A u \in TSlots : thd'[u].state # "SLEEPING"
    <3>1. \A u \in TSlots : thd'[u].state = "SLEEPING" => Active(u)'
      BY <1>12 DEF SlotInv, Active
    <3> QED BY <1>10, <1>11, <3>1
  <2> QED BY <1>11, <1>16, <2>1, FineHas, JoinersKept
<1> QED BY <1>4, <1>8, <1>16, <1>19, <1>20, GoodIsEnough DEF Good

LEMMA ExecStep ==
  ASSUME Fine, NEW s \in TSlots, Exec(s) \/ Exit(s) \/ \E stacksize \in StackSizes : Exec2(s, stacksize)
  PROVE  ThreadsInv'
<1>1. CASE Exec(s)
  <2>1. Runs(s, "user") /\ thd[s].tid = 0 /\ Clean(s, "exec", 0) /\ "exec" \in Execs /\ 0 \in 0..100
    BY <1>1 DEF Exec, InUserCode, Execs
  <2> QED BY <2>1, CleanStep
<1>2. CASE Exit(s)
  <2>1. Runs(s, "user") /\ Clean(s, "exit", 0) /\ "exit" \in Execs /\ 0 \in 0..100
    BY <1>2 DEF Exit, Execs
  <2> QED BY <2>1, CleanStep
<1>3. ASSUME NEW stacksize \in StackSizes, Exec2(s, stacksize) PROVE ThreadsInv'
  <2>1. /\ Runs(s, "user") /\ thd[s].tid = 0 /\ Clean(s, "exec2", stacksize) /\ "exec2" \in Execs
        /\ stacksize \in 0..100
    BY <1>3, ThreadsAssumption DEF Exec2, InUserCode, Execs
  <2> QED BY <2>1, CleanStep
<1> QED BY <1>1, <1>2, <1>3

LEMMA PushGives ==
  ASSUME NEW ring \in Seq(Pages), Len(ring) < NTHREAD, NEW va \in Pages
  PROVE  /\ Push(ring, va) \in Seq(Pages) /\ Len(Push(ring, va)) < NTHREAD
         /\ \/ Push(ring, va) = <<>>
            \/ /\ DOMAIN Push(ring, va) = 1..(Len(ring) + 1) /\ Push(ring, va)[Len(ring) + 1] = va
               /\ \A i \in 1..Len(ring) : Push(ring, va)[i] = ring[i]
         /\ Len(ring) < NTHREAD - 1 => Push(ring, va) = Append(ring, va)
<1>1. Len(ring) \in Nat /\ NTHREAD \in Nat /\ 0 < NTHREAD
  BY ThreadNumbers
<1>2. CASE Len(ring) = NTHREAD - 1
  <2>1. Push(ring, va) = <<>> /\ <<>> \in Seq(Pages) /\ Len(<<>>) = 0
    BY <1>2 DEF Push
  <2> QED BY <1>1, <1>2, <2>1
<1>3. CASE Len(ring) # NTHREAD - 1
  <2>1. Push(ring, va) = Append(ring, va)
    BY <1>3 DEF Push
  <2>2. /\ Append(ring, va) \in Seq(Pages) /\ Len(Append(ring, va)) = Len(ring) + 1
        /\ DOMAIN Append(ring, va) = 1..(Len(ring) + 1) /\ Append(ring, va)[Len(ring) + 1] = va
        /\ \A i \in 1..Len(ring) : Append(ring, va)[i] = ring[i]
    OBVIOUS
  <2>3. Len(ring) + 1 < NTHREAD
    BY <1>1, <1>3
  <2> QED BY <2>1, <2>2, <2>3
<1> QED BY <1>2, <1>3

\* thread_join() reaps the thread t.
LEMMA JoinReapStep ==
  ASSUME Fine, NEW s \in TSlots, NEW t \in TSlots, thd[s].state = "RUNNABLE", tpc[s] \in {"user", "join"},
         thd[t].state = "ZOMBIE", thd[t].tid # 0, JoinReap(s, t), UNCHANGED nextTid, InKernel
  PROVE  ThreadsInv'
<1> DEFINE va == thd[t].thdva
<1>1. /\ Active(s) /\ thd[s].ours /\ (s # Main => thd[s].tid # 0)
      /\ tpc[t] = "dead" /\ thd[t].ours /\ t # s
  BY FineHas DEF Active, SlotInv
<1>2. t # Main
  BY <1>1, FineHas, ThreadNumbers DEF SlotsInv, MainInv
<1>3. HasStack(t) /\ va \in Pages
  BY <1>1, FineHas DEF HasStack, SlotRecord
<1>4. /\ \A u \in TSlots \ {t} : thd'[u] = thd[u]
      /\ thd'[t] \in SlotRecord /\ thd'[t].state = "UNUSED" /\ ~thd'[t].ours /\ thd'[t].parent = 0
      /\ thd'[t].tid = thd[t].tid /\ thd'[t].limit = 0 /\ thd' \in [TSlots -> SlotRecord]
  <2>1. thd[t] \in SlotRecord /\ thd \in [TSlots -> SlotRecord]
    BY FineHas
  <2> DEFINE r == Reaped(thd[t])
  <2>2. thd' = [thd EXCEPT ![t] = r]
    BY <2>1 DEF JoinReap
  <2>3. /\ r \in SlotRecord /\ r.state = "UNUSED" /\ ~r.ours /\ r.parent = 0
        /\ r.tid = thd[t].tid /\ r.limit = 0
    <3>1. 0 \in 0..Outside /\ 0 \in Pages
      BY ThreadNumbers DEF Pages
    <3> QED BY <2>1, <3>1 DEF SlotRecord, States, Reaped
  <2> HIDE DEF r
  <2> QED BY <2>1, <2>2, <2>3
<1>5. /\ tpc' \in [TSlots -> ThreadPlaces] /\ targ' \in [TSlots -> Nat]
      /\ tpc'[s] = "user" /\ tpc'[t] = "free" /\ \A u \in TSlots \ {s, t} : tpc'[u] = tpc[u]
      /\ targ'[s] = 0 /\ \A u \in TSlots \ {s} : targ'[u] = targ[u]
  <2>1. /\ tpc \in [TSlots -> ThreadPlaces] /\ targ \in [TSlots -> Nat] /\ "free" \in ThreadPlaces
        /\ "user" \in ThreadPlaces
    BY FineHas DEF ThreadPlaces
  <2> QED BY <1>1, <2>1 DEF JoinReap
<1>6. /\ mapped' = mapped \ StackAt(va) /\ nested' = nested /\ wreck' = "none"
      /\ nextTid' = nextTid /\ taken' = taken /\ parentAsleep' = parentAsleep
  BY FineHas DEF JoinReap, InKernel
<1>7. /\ spare' \in [TSlots -> Seq(Pages)] /\ \A u \in TSlots : Len(spare'[u]) < NTHREAD
      /\ RingOf(s) = Main => spare'[Main] = Push(spare[Main], va)
  <2>1. spare \in [TSlots -> Seq(Pages)] /\ \A u \in TSlots : Len(spare[u]) < NTHREAD
    BY FineHas DEF ThreadTypes
  <2>2. \A u \in TSlots : Push(spare[u], va) \in Seq(Pages) /\ Len(Push(spare[u], va)) < NTHREAD
    <3> TAKE u \in TSlots
    <3>1. spare[u] \in Seq(Pages) /\ Len(spare[u]) < NTHREAD
      BY <2>1
    <3> HIDE DEF va
    <3> QED BY <1>3, <3>1, PushGives
  <2>3. spare' = [spare EXCEPT ![RingOf(s)] = Push(spare[RingOf(s)], va)]
    BY DEF JoinReap
  <2>4. \A u \in TSlots : spare'[u] = IF u = RingOf(s) THEN Push(spare[u], va) ELSE spare[u]
    BY <2>1, <2>3
  <2>5. spare' = [u \in TSlots |-> spare'[u]]
    BY <2>1, <2>3
  <2> HIDE DEF va
  <2>6. \A u \in TSlots : spare'[u] \in Seq(Pages) /\ Len(spare'[u]) < NTHREAD
    <3> TAKE u \in TSlots
    <3>1. CASE u = RingOf(s)
      <4>1. spare'[u] = Push(spare[u], va)
        BY <2>4, <3>1
      <4> QED BY <2>2, <4>1
    <3>2. CASE u # RingOf(s)
      <4>1. spare'[u] = spare[u]
        BY <2>4, <3>2
      <4> QED BY <2>1, <4>1
    <3> QED BY <3>1, <3>2
  <2>7. spare' \in [TSlots -> Seq(Pages)]
    BY <2>5, <2>6
  <2>8. RingOf(s) = Main => spare'[Main] = Push(spare[Main], va)
    BY <2>4, ThreadNumbers
  <2> QED BY <2>6, <2>7, <2>8
<1>8. ThreadTypes'
  <2>1. /\ ThreadTypes /\ mapped' \subseteq Pages /\ taken' \in 0..MaxTaken
        /\ parentAsleep' \in BOOLEAN /\ nested' \in BOOLEAN
    BY <1>6, FineHas DEF ThreadTypes
  <2>2. \A u \in TSlots : thd'[u].tid = thd[u].tid
    BY <1>4
  <2> QED BY <1>4, <1>5, <1>6, <1>7, <2>1, <2>2, TypesStep
<1>9. Leaves(t) /\ Walks(s) /\ \A u \in TSlots \ {s, t} : Steady(u)
  <2>1. Leaves(t)
    BY <1>4, <1>5 DEF Leaves
  <2>2. Walks(s)
    BY <1>1, <1>4, <1>5 DEF Walks
  <2>3. \A u \in TSlots \ {s, t} : Steady(u)
    BY <1>4, <1>5 DEF Steady
  <2> QED BY <2>1, <2>2, <2>3
<1>10. Active(s)' /\ \A u \in TSlots : Active(u)' => Active(u) /\ u # t
  BY <1>1, <1>5 DEF Active
<1>11. Active(Main) /\ Active(Main)'
  <2>1. Active(Main)
    BY <1>1, FineHas DEF SlotsInv, MainInv
  <2>2. Main # s => Active(Main)'
    BY <1>2, <1>5, <2>1, ThreadNumbers DEF Active
  <2> QED BY <1>10, <2>1, <2>2
<1>12. SlotsInv'
  <2>1. \A u \in TSlots : Making(u)' => Making(u) /\ u # s
    BY <1>5 DEF Making
  <2>2. \A u \in TSlots : Making(u)' => targ[u] \in TSlots \ {s, t}
    <3>1. \A u \in TSlots : Making(u) => targ[u] \in TSlots /\ tpc[targ[u]] = "free"
      BY FineHas DEF MakingInv
    <3>2. tpc[s] # "free" /\ tpc[t] # "free"
      BY <1>1
    <3> QED BY <2>1, <3>1, <3>2
  <2>3. \A u \in TSlots : Making(u)' => Steady(targ[u])
    BY <1>9, <2>2
  <2>4. \A u \in TSlots : Steady(u) \/ Walks(u) \/ Dies(u) \/ Leaves(u)
    BY <1>9
  <2> QED BY <1>11, <2>3, <2>4, FineHas, MoveKeepsSlots
<1>13. \A u \in TSlots : HasStack(u)' <=> HasStack(u) /\ u # t
  BY <1>4 DEF HasStack
<1>14. MadeByMain'
  <2> HIDE DEF HasStack
  <2> QED BY <1>4, <1>6, <1>13, FineHas DEF MadeByMain
<1>15. Unlimited' => Unlimited
  BY <1>2, <1>4, ThreadNumbers DEF Unlimited
<1>16. ~nested => spare'[Main] = Push(spare[Main], va)
  <2> HAVE ~nested
  <2>1. CASE s = Main
    <3>1. thd[s].tmaker = Main
      BY <1>1, <2>1, FineHas DEF SlotsInv, MainInv
    <3> QED BY <1>7, <3>1 DEF RingOf
  <2>2. CASE s # Main
    <3>1. HasStack(s)
      BY <1>1, <2>2 DEF HasStack
    <3>2. thd[s].tmaker = Main
      BY <3>1, FineHas DEF MadeByMain
    <3> QED BY <1>7, <3>2 DEF RingOf
  <2> QED BY <2>1, <2>2
<1>17. /\ spare[Main] \in Seq(Pages) /\ Len(spare[Main]) < NTHREAD /\ Len(spare[Main]) \in Nat
       /\ DOMAIN spare[Main] = 1..Len(spare[Main])
  <2>1. spare[Main] \in Seq(Pages) /\ Len(spare[Main]) < NTHREAD
    BY FineHas, ThreadNumbers DEF ThreadTypes
  <2> QED BY <2>1
<1>18. ASSUME ~nested
       PROVE  \A i \in DOMAIN spare'[Main] :
                \/ i \in DOMAIN spare[Main] /\ spare'[Main][i] = spare[Main][i]
                \/ i = Len(spare[Main]) + 1 /\ spare'[Main][i] = va
  <2> DEFINE ring == spare[Main]  ring1 == spare'[Main]
  <2>1. ring1 = Push(ring, va)
    BY <1>16, <1>18
  <2>2. \/ ring1 = <<>>
        \/ /\ DOMAIN ring1 = 1..(Len(ring) + 1) /\ ring1[Len(ring) + 1] = va
           /\ \A i \in 1..Len(ring) : ring1[i] = ring[i]
    <3> HIDE DEF va, ring1
    <3> QED BY <1>3, <1>17, <2>1, PushGives
  <2>3. Len(ring) \in Nat /\ DOMAIN ring = 1..Len(ring)
    BY <1>17
  <2> HIDE DEF ring, ring1, va
  <2>4. \A i \in DOMAIN ring1 : (i \in DOMAIN ring /\ ring1[i] = ring[i]) \/ (i = Len(ring) + 1 /\ ring1[i] = va)
    BY <2>2, <2>3
  <2> QED BY <2>4 DEF ring, ring1
<1>19. StacksApart'
  <2>1. SUFFICES ASSUME Unlimited' PROVE StacksApart'
    BY DEF StacksApart
  <2>2. /\ \A u \in TSlots : HasStack(u) =>
             /\ StackAt(thd[u].thdva) \subseteq mapped
             /\ \A w \in TSlots \ {u} : HasStack(w) => StackAt(thd[u].thdva) \cap StackAt(thd[w].thdva) = {}
             /\ \A i \in DOMAIN spare[Main] : nested \/
                  StackAt(thd[u].thdva) \cap StackAt(spare[Main][i]) = {}
        /\ \A i, j \in DOMAIN spare[Main] :
             (i # j /\ ~nested) => StackAt(spare[Main][i]) \cap StackAt(spare[Main][j]) = {}
    BY <1>15, <2>1, FineHas DEF StacksApart
  <2>3. ASSUME NEW u \in TSlots, HasStack(u)'
        PROVE  /\ StackAt(thd'[u].thdva) \subseteq mapped'
               /\ \A w \in TSlots \ {u} : HasStack(w)' => StackAt(thd'[u].thdva) \cap StackAt(thd'[w].thdva) = {}
               /\ \A i \in DOMAIN spare'[Main] : nested' \/
                    StackAt(thd'[u].thdva) \cap StackAt(spare'[Main][i]) = {}
    <3>1. HasStack(u) /\ u # t /\ thd'[u] = thd[u]
      BY <1>4, <1>13, <2>3
    <3>2. StackAt(thd[u].thdva) \cap StackAt(va) = {}
      <4> HIDE DEF StackAt, HasStack
      <4> QED BY <1>3, <2>2, <3>1
    <3>3. StackAt(thd'[u].thdva) \subseteq mapped'
      <4> HIDE DEF StackAt
      <4> QED BY <1>6, <2>2, <3>1, <3>2
    <3>4. \A w \in TSlots \ {u} : HasStack(w)' => StackAt(thd'[u].thdva) \cap StackAt(thd'[w].thdva) = {}
      <4> HIDE DEF StackAt, HasStack
      <4> QED BY <1>4, <1>13, <2>2, <3>1
    <3>5. \A i \in DOMAIN spare'[Main] : nested' \/
                    StackAt(thd'[u].thdva) \cap StackAt(spare'[Main][i]) = {}
      <4> HIDE DEF StackAt, HasStack, va
      <4> QED BY <1>6, <1>18, <2>2, <3>1, <3>2
    <3> QED BY <3>3, <3>4, <3>5
  <2>4. ASSUME NEW i \in DOMAIN spare'[Main], NEW j \in DOMAIN spare'[Main], i # j, ~nested'
        PROVE  StackAt(spare'[Main][i]) \cap StackAt(spare'[Main][j]) = {}
    <3>1. ~nested
      BY <1>6, <2>4
    <3>2. \A k \in DOMAIN spare[Main] : StackAt(va) \cap StackAt(spare[Main][k]) = {}
      <4> HIDE DEF StackAt, HasStack
      <4> QED BY <1>3, <2>2, <3>1
    <3> HIDE DEF StackAt, va
    <3> QED BY <1>18, <2>2, <2>4, <3>1, <3>2
  <2> QED BY <2>3, <2>4 DEF StacksApart
<1>20. MemoryInv'
  <2> SUFFICES ASSUME Unlimited', ~nested' PROVE SizesCovered' /\ SpareFits'
    BY DEF MemoryInv
  <2>1. Unlimited /\ ~nested /\ SizesCovered /\ SpareFits
    BY <1>6, <1>15, FineHas DEF MemoryInv
  <2> DEFINE A == {u \in TSlots : HasStack(u)}  B == {u \in TSlots : HasStack(u)'}
             ring == spare[Main]  ring1 == spare'[Main]
  <2>2. IsFiniteSet(A) /\ t \in A /\ B = A \ {t}
    BY <1>3, <1>13, StacksFinite
  <2>3. /\ Cardinality(A) \in Nat /\ Cardinality(B) = Cardinality(A) - 1 /\ Cardinality(B) \in Nat
    <3> HIDE DEF A, B
    <3> QED BY <2>2, FS_RemoveElement, FS_CardinalityType, FS_Subset
  <2>4. Len(ring) + Cardinality(A) <= NSLOTS - 1
    BY <2>1 DEF SpareFits
  <2>5. Len(ring) < NTHREAD - 1
    <3> HIDE DEF A, B, ring
    <3>1. Len(ring) \in Nat
      BY <1>17 DEF ring
    <3> QED BY <2>3, <2>4, <3>1, ThreadNumbers
  <2>6. ring1 = Append(ring, va)
    <3>1. ring1 = Push(ring, va)
      BY <1>16, <2>1
    <3> HIDE DEF va
    <3> QED BY <1>3, <1>17, <2>5, <3>1, PushGives
  <2>7. /\ Len(ring1) = Len(ring) + 1 /\ DOMAIN ring1 = 1..(Len(ring) + 1) /\ ring1[Len(ring) + 1] = va
        /\ \A i \in 1..Len(ring) : ring1[i] = ring[i]
    <3>1. ring \in Seq(Pages)
      BY <1>17
    <3> HIDE DEF va, ring, ring1
    <3> QED BY <1>3, <2>6, <3>1
  <2>8. SpareFits'
    <3>1. Len(ring1) + Cardinality(B) <= NSLOTS - 1
      <4>1. Len(ring) \in Nat
        BY <1>17
      <4> HIDE DEF A, B, ring, ring1
      <4> QED BY <2>3, <2>4, <2>7, <4>1, ThreadNumbers
    <3> QED BY <3>1 DEF B, SpareFits
  <2>9. \A n : CoveredBy(n, mapped, spare[Main]) => CoveredBy(n, mapped', spare'[Main])
    <3> TAKE n
    <3> HAVE CoveredBy(n, mapped, spare[Main])
    <3> SUFFICES ASSUME NEW page \in 0..(n - 1)
                 PROVE  page \in mapped' \/ \E i \in DOMAIN ring1 : page \in StackAt(ring1[i])
      BY DEF CoveredBy
    <3>1. page \in mapped \/ \E i \in DOMAIN ring : page \in StackAt(ring[i])
      BY DEF CoveredBy
    <3>2. Len(ring) \in Nat /\ DOMAIN ring = 1..Len(ring)
      BY <1>17
    <3> HIDE DEF ring, ring1, StackAt, va
    <3>3. Len(ring) + 1 \in DOMAIN ring1 /\ \A i \in DOMAIN ring : i \in DOMAIN ring1 /\ ring1[i] = ring[i]
      BY <2>7, <3>2
    <3> QED BY <1>6, <2>7, <3>1, <3>3
  <2>10. SizesCovered'
    <3>1. ASSUME NEW u \in TSlots, Active(u)' \/ u = Main
          PROVE  /\ CoveredBy(thd'[u].sz, mapped', spare'[Main])
                 /\ tpc'[u] \in {"grown", "set"} => CoveredBy(targ'[u], mapped', spare'[Main])
      <4>1. (Active(u) \/ u = Main) /\ u # t /\ thd'[u] = thd[u]
        BY <1>2, <1>4, <1>10, <3>1
      <4>2. /\ CoveredBy(thd[u].sz, mapped, spare[Main])
            /\ tpc[u] \in {"grown", "set"} => CoveredBy(targ[u], mapped, spare[Main])
        <5>1. tpc[Main] = "grown" => ~\A w \in TSlots \ {Main} : ~Active(w)
          BY <1>1
        <5> HIDE DEF Active
        <5> QED BY <2>1, <4>1, <5>1 DEF SizesCovered
      <4>3. tpc'[u] \in {"grown", "set"} => tpc'[u] = tpc[u] /\ targ'[u] = targ[u]
        BY <1>5, <4>1
      <4> QED BY <2>9, <4>1, <4>2, <4>3
    <3> QED BY <3>1 DEF SizesCovered
  <2> QED BY <2>8, <2>10
<1>21. JoinersWait'
  <2>1. ASSUME NEW u \in TSlots, thd'[u].state = "SLEEPING"
        PROVE  thd[u].state = "SLEEPING" /\ \A w \in TSlots : Cause(u, w) => Cause(u, w)'
    <3>1. u # t /\ u # s /\ thd[u].state = "SLEEPING" /\ tpc'[u] = tpc[u] /\ targ'[u] = targ[u]
      BY <1>4, <1>5, <1>1, <2>1
    <3>2. \A w \in TSlots : Live(w) => w # t /\ Live(w)'
      BY <1>4 DEF Live
    <3> HIDE DEF Live
    <3> QED BY <1>4, <3>1, <3>2 DEF Cause
  <2> QED BY <1>10, <1>12, <2>1, FineHas, JoinersKept
<1> QED BY <1>6, <1>8, <1>12, <1>14, <1>19, <1>20, <1>21, GoodIsEnough DEF Good

LEMMA ThreadJoinStep ==
  ASSUME Fine, NEW s \in TSlots, NEW tid \in 1..(nextTid - 1), ThreadJoin(s, tid)
  PROVE  ThreadsInv'
<1>1. tid \in Nat \ {0}
  BY FineHas DEF ThreadTypes
<1>2. /\ thd[s].state = "RUNNABLE" /\ tpc[s] \in {"user", "join"} /\ UNCHANGED nextTid /\ InKernel
  BY DEF ThreadJoin, InUserCode, Runs
<1>3. \/ JoinReturn(s)
      \/ \E t \in TSlots : thd[t].tid = tid /\ \/ thd[t].state = "ZOMBIE" /\ JoinReap(s, t)
                                               \/ Live(t) /\ JoinSleep(s, tid)
  BY DEF ThreadJoin
<1>4. CASE JoinReturn(s)
  BY <1>1, <1>2, <1>4, JoinSimpleStep
<1>5. ASSUME NEW t \in TSlots, thd[t].tid = tid, thd[t].state = "ZOMBIE", JoinReap(s, t)
      PROVE  ThreadsInv'
  BY <1>1, <1>2, <1>5, JoinReapStep
<1>6. ASSUME NEW t \in TSlots, thd[t].tid = tid, Live(t), JoinSleep(s, tid)
      PROVE  ThreadsInv'
  BY <1>1, <1>2, <1>6, JoinSimpleStep
<1> QED BY <1>3, <1>4, <1>5, <1>6

\* growproc() under the lock: no slot changes; what it does to the memory is left open.
LEMMA GrowFrame ==
  ASSUME Fine, NEW s \in TSlots, InUserCode(s), NEW sz \in 0..KERNBASE, GoTo(s, "grown", sz),
         UNCHANGED <<thd, spare, nextTid>>, InKernel, mapped' \subseteq Pages, StacksApart', MemoryInv'
  PROVE  ThreadsInv'
<1>1. thd[s].state = "RUNNABLE" /\ tpc[s] = "user" /\ Active(s)
  BY DEF InUserCode, Runs, Active
<1>2. /\ thd' = thd /\ spare' = spare /\ nested' = nested /\ wreck' = "none"
      /\ nextTid' = nextTid /\ taken' = taken /\ parentAsleep' = parentAsleep
  BY FineHas DEF InKernel
<1>3. /\ tpc'[s] = "grown" /\ targ'[s] = sz
      /\ \A t \in TSlots \ {s} : tpc'[t] = tpc[t] /\ targ'[t] = targ[t]
      /\ tpc' \in [TSlots -> ThreadPlaces] /\ targ' \in [TSlots -> Nat]
  <2>1. "grown" \in ThreadPlaces /\ sz \in Nat /\ ThreadTypes
    BY FineHas, ThreadNumbers DEF ThreadPlaces
  <2> QED BY <2>1, GoToGives
<1>4. ThreadTypes'
  <2>1. /\ ThreadTypes /\ taken' \in 0..MaxTaken /\ parentAsleep' \in BOOLEAN /\ nested' \in BOOLEAN
        /\ thd' \in [TSlots -> SlotRecord] /\ spare' \in [TSlots -> Seq(Pages)]
        /\ \A t \in TSlots : Len(spare'[t]) < NTHREAD
    BY <1>2, FineHas DEF ThreadTypes
  <2>2. \A t \in TSlots : thd'[t].tid = thd[t].tid
    BY <1>2
  <2> QED BY <1>2, <1>3, <2>1, <2>2, TypesStep
<1>5. Walks(s) /\ \A t \in TSlots \ {s} : Steady(t)
  BY <1>1, <1>2, <1>3 DEF Walks, Steady
<1>6. Active(s)' /\ Active(Main)'
  <2>1. Active(Main) /\ Active(s)'
    BY <1>1, <1>3, FineHas DEF SlotsInv, MainInv, Active
  <2> QED BY <1>3, <2>1, ThreadNumbers DEF Active
<1>7. SlotsInv'
  <2>1. \A t \in TSlots : Making(t)' => t # s /\ Making(t)
    BY <1>3 DEF Making
  <2>2. \A t \in TSlots : Making(t)' => targ[t] \in TSlots \ {s}
    BY <1>1, <2>1, FineHas DEF MakingInv
  <2>3. \A t \in TSlots : Making(t)' => Steady(targ[t])
    BY <1>5, <2>2
  <2> QED BY <1>5, <1>6, <2>3, FineHas, MoveKeepsSlots
<1>8. MadeByMain'
  BY <1>2, FineHas DEF MadeByMain, HasStack
<1>9. JoinersWait'
  <2>1. ASSUME NEW u \in TSlots, thd'[u].state = "SLEEPING"
        PROVE  thd[u].state = "SLEEPING" /\ \A t \in TSlots : Cause(u, t) => Cause(u, t)'
    <3>1. thd[u].state = "SLEEPING" /\ tpc'[u] = tpc[u] /\ targ'[u] = targ[u]
      BY <1>1, <1>2, <1>3, <2>1
    <3> QED BY <1>2, <3>1 DEF Cause, Live
  <2> QED BY <1>6, <1>7, <2>1, FineHas, JoinersKept
<1> QED BY <1>2, <1>4, <1>7, <1>8, <1>9, GoodIsEnough DEF Good

LEMMA NoLimit ==
  ASSUME Fine, Unlimited, NEW s \in TSlots PROVE thd[s].limit = 0
BY FineHas DEF Unlimited, SlotsInv, MainInv

\* Whoever makes its process larger finds all sizes covered.
LEMMA SizesAre ==
  ASSUME Fine, Unlimited, ~nested, NEW s \in TSlots, Active(s), tpc[s] # "grown"
  PROVE  \A u \in TSlots : Active(u) \/ u = Main =>
           /\ CoveredBy(thd[u].sz, mapped, spare[Main])
           /\ tpc[u] \in {"grown", "set"} => CoveredBy(targ[u], mapped, spare[Main])
<1>1. SizesCovered
  BY FineHas DEF MemoryInv
<1>2. tpc[Main] = "grown" => ~\A w \in TSlots \ {Main} : ~Active(w)
  OBVIOUS
<1> HIDE DEF Active
<1> QED BY <1>1, <1>2 DEF SizesCovered

LEMMA GrowStep ==
  ASSUME Fine, NEW s \in TSlots, NEW n \in Amounts, Grow(s, n)
  PROVE  ThreadsInv'
<1> DEFINE old == thd[s].sz
           new == old + n
           limit == thd[s].limit
           more == old..(new - 1)
<1>1. /\ n \in Int /\ old \in 0..KERNBASE /\ limit \in Nat /\ KERNBASE \in Nat
      /\ Active(s) /\ tpc[s] = "user" /\ InUserCode(s) /\ thd[s].ours
  BY ThreadsAssumption, FineHas DEF SlotRecord, Grow, InUserCode, Runs, Active, SlotInv
<1>2. n < 0 => (new > 0 /\ \A t \in Family \ {s} : thd[t].state = "UNUSED")
  BY DEF Grow
<1>3. CASE Panic("remap")
  BY <1>3, PanicKeeps DEF Fine, Good, ThreadsInv
<1>4. ASSUME thd' = thd PROVE Unlimited' <=> Unlimited
  BY <1>4 DEF Unlimited
<1>5. CASE /\ limit > 0 /\ old >= limit /\ mapped' = mapped
           /\ GoTo(s, "grown", old) /\ UNCHANGED <<thd, spare, nextTid>> /\ InKernel
  <2>1. ~Unlimited'
    BY <1>4, <1>5, NoLimit
  <2>2. StacksApart' /\ MemoryInv'
    BY <2>1 DEF StacksApart, MemoryInv
  <2>3. mapped' \subseteq Pages
    BY <1>5, FineHas
  <2> HIDE DEF old
  <2> QED BY <1>1, <1>5, <2>2, <2>3, GrowFrame
<1>6. CASE /\ n > 0 /\ new < KERNBASE
           /\ GoTo(s, "grown", new) /\ UNCHANGED <<thd, spare, nextTid>> /\ InKernel
           /\ mapped' = IF limit > 0 /\ new > limit
                        THEN (mapped \cup more) \ (new..(new + n - 1)) ELSE mapped \cup more
  <2>1. new \in 0..KERNBASE /\ more \subseteq Pages
    BY <1>1, <1>6 DEF Pages
  <2>2. mapped' \subseteq Pages
    <3> HIDE DEF new, more, limit
    <3> QED BY <1>6, <2>1, FineHas
  <2>3. Unlimited => mapped' = mapped \cup more
    <3>1. Unlimited => limit = 0
      BY NoLimit
    <3> HIDE DEF new, more, limit
    <3> QED BY <1>6, <3>1
  <2>4. StacksStay
    <3>1. nested' = nested /\ (Unlimited' => Unlimited /\ mapped \subseteq mapped' /\ spare' = spare)
      BY <1>4, <1>6, <2>3 DEF InKernel
    <3> QED BY <1>6, <3>1 DEF StacksStay, HasStack
  <2>5. StacksApart'
    <3>1. wreck' = "none"
      BY <1>6, FineHas DEF InKernel
    <3> QED BY <2>4, <3>1, FineHas, StacksKept
  <2>6. MemoryInv'
    <3> SUFFICES ASSUME Unlimited', ~nested' PROVE SizesCovered' /\ SpareFits'
      BY DEF MemoryInv
    <3>1. Unlimited /\ ~nested /\ SpareFits /\ ThreadTypes /\ thd' = thd /\ spare' = spare
      BY <1>4, <1>6, FineHas DEF MemoryInv, InKernel
    <3>2. SpareFits'
      BY <2>4, <3>1, FitsKept
    <3>3. \A u \in TSlots : Active(u) \/ u = Main =>
           /\ CoveredBy(thd[u].sz, mapped, spare[Main])
           /\ tpc[u] \in {"grown", "set"} => CoveredBy(targ[u], mapped, spare[Main])
      BY <1>1, <3>1, SizesAre
    <3>4. mapped' = mapped \cup more
      BY <2>3, <3>1
    <3>5. \A k : CoveredBy(k, mapped, spare[Main]) => CoveredBy(k, mapped', spare'[Main])
      BY <3>1, <3>4, CoveredMore
    <3>6. CoveredBy(new, mapped', spare'[Main])
      <4> SUFFICES ASSUME NEW page \in 0..(new - 1)
                   PROVE  page \in mapped' \/ \E i \in DOMAIN spare'[Main] : page \in StackAt(spare'[Main][i])
        BY DEF CoveredBy
      <4>1. page \in 0..(old - 1) \/ page \in more
        BY <1>1, <1>6
      <4>2. CoveredBy(old, mapped', spare'[Main])
        BY <1>1, <3>3, <3>5
      <4> HIDE DEF more, StackAt, old
      <4> QED BY <3>4, <4>1, <4>2 DEF CoveredBy
    <3>7. /\ tpc'[s] = "grown" /\ targ'[s] = new
          /\ \A t \in TSlots \ {s} : tpc'[t] = tpc[t] /\ targ'[t] = targ[t]
      <4> HIDE DEF new
      <4> QED BY <1>6, <3>1, GoToGives
    <3>8. \A u \in TSlots : Active(u)' => Active(u)
      BY <1>1, <3>7 DEF Active
    <3>9. SizesCovered'
      <4> HIDE DEF new, Active
      <4> QED BY <3>1, <3>3, <3>5, <3>6, <3>7, <3>8 DEF SizesCovered
    <3> QED BY <3>2, <3>9
  <2> HIDE DEF new, more, limit
  <2> QED BY <1>1, <1>6, <2>1, <2>2, <2>5, <2>6, GrowFrame
<1>7. CASE /\ n < 0 /\ mapped' = mapped \ (new..(old - 1))
           /\ GoTo(s, "grown", new) /\ UNCHANGED <<thd, spare, nextTid>> /\ InKernel
  <2>1. new \in 0..KERNBASE /\ new > 0
    BY <1>1, <1>2, <1>7
  <2>2. mapped' \subseteq Pages
    BY <1>7, FineHas
  <2>3. \A t \in TSlots \ {s} : thd[t].ours => thd[t].state = "UNUSED"
    BY <1>2, <1>7 DEF Family
  <2>4. \A t \in TSlots \ {s} : ~Active(t)
    BY <2>3, FineHas DEF SlotInv
  <2>5. s = Main
    <3>1. Active(Main)
      BY <1>1, FineHas DEF SlotsInv, MainInv
    <3> QED BY <2>4, <3>1, ThreadNumbers
  <2>6. \A t \in TSlots : ~HasStack(t)
    <3>1. thd[Main].tid = 0
      BY <1>1, <2>5, FineHas DEF SlotsInv, MainInv
    <3> QED BY <2>3, <2>5, <3>1 DEF HasStack
  <2>7. thd' = thd /\ spare' = spare /\ nested' = nested
    BY <1>7 DEF InKernel
  <2>8. \A t \in TSlots : ~HasStack(t)'
    BY <2>6, <2>7 DEF HasStack
  <2>9. StacksApart'
    <3>1. ASSUME Unlimited'
          PROVE  \A i, j \in DOMAIN spare[Main] :
                   (i # j /\ ~nested) => StackAt(spare[Main][i]) \cap StackAt(spare[Main][j]) = {}
      BY <1>4, <2>7, <3>1, FineHas DEF StacksApart
    <3> HIDE DEF HasStack, StackAt
    <3> QED BY <2>7, <2>8, <3>1 DEF StacksApart
  <2>10. MemoryInv'
    <3> SUFFICES ASSUME Unlimited', ~nested' PROVE SizesCovered' /\ SpareFits'
      BY DEF MemoryInv
    <3>1. Unlimited /\ ~nested /\ SpareFits
      BY <1>4, <2>7, FineHas DEF MemoryInv
    <3>2. SpareFits'
      <4> DEFINE A == {t \in TSlots : HasStack(t)}  B == {t \in TSlots : HasStack(t)'}
      <4>1. A = B
        BY <2>6, <2>8
      <4>2. Len(spare[Main]) + Cardinality(A) <= NSLOTS - 1
        BY <3>1 DEF SpareFits
      <4> HIDE DEF A, B
      <4>3. Len(spare'[Main]) + Cardinality(B) <= NSLOTS - 1
        BY <2>7, <4>1, <4>2
      <4> QED BY <4>3 DEF B, SpareFits
    <3>3. /\ tpc'[s] = "grown" /\ targ'[s] = new
          /\ \A t \in TSlots \ {s} : tpc'[t] = tpc[t] /\ targ'[t] = targ[t]
      <4>1. ThreadTypes
        BY FineHas
      <4> HIDE DEF new
      <4> QED BY <1>7, <4>1, GoToGives
    <3>4. \A t \in TSlots \ {s} : ~Active(t)'
      BY <2>4, <3>3 DEF Active
    <3>5. CoveredBy(new, mapped', spare'[Main])
      <4> SUFFICES ASSUME NEW page \in 0..(new - 1)
                   PROVE  page \in mapped' \/ \E i \in DOMAIN spare'[Main] : page \in StackAt(spare'[Main][i])
        BY DEF CoveredBy
      <4>1. page \in 0..(old - 1) /\ page \notin new..(old - 1)
        BY <1>1, <1>7, <2>1
      <4>2. CoveredBy(old, mapped, spare[Main])
        BY <1>1, <3>1, SizesAre
      <4> HIDE DEF StackAt, old, new
      <4> QED BY <1>7, <2>7, <4>1, <4>2 DEF CoveredBy
    <3>6. SizesCovered'
      <4> HIDE DEF Active, new
      <4> QED BY <2>5, <3>3, <3>4, <3>5 DEF SizesCovered
    <3> QED BY <3>2, <3>6
  <2> HIDE DEF new
  <2> QED BY <1>1, <1>7, <2>1, <2>2, <2>9, <2>10, GrowFrame
<1> QED BY <1>3, <1>5, <1>6, <1>7 DEF Grow

LEMMA TailGives ==
  ASSUME NEW ring \in Seq(Pages), ring # <<>>
  PROVE  /\ Head(ring) \in Pages /\ Head(ring) = ring[1] /\ 1 \in DOMAIN ring
         /\ Tail(ring) \in Seq(Pages) /\ Len(Tail(ring)) = Len(ring) - 1 /\ Len(ring) \in Nat \ {0}
         /\ DOMAIN ring = 1..Len(ring) /\ DOMAIN Tail(ring) = 1..(Len(ring) - 1)
         /\ \A i \in 1..(Len(ring) - 1) : Tail(ring)[i] = ring[i + 1]
OBVIOUS

\* thread_create() has the stack: the slot n is a thread.
LEMMA CreatedStep ==
  ASSUME Fine, NEW s \in TSlots, NEW n \in TSlots, n = targ[s], Runs(s, "stack"),
         NEW va \in Pages, va = StackPlace(s), va + 1 \in Pages,
         NEW sz \in 0..KERNBASE, sz = (IF spare[s] # <<>> THEN thd[s].sz ELSE va + 2),
         StackAt(va) \cap mapped = {},
         mapped' = mapped \cup StackAt(va), spare' = TakeSpare(s),
         thd' = [thd EXCEPT ![s].sz = sz,
                            ![n] = [@ EXCEPT !.state = "RUNNABLE", !.sz = sz, !.thdva = va,
                                             !.tid = nextTid, !.tmaker = s]],
         nextTid' = nextTid + 1, tpc' = [tpc EXCEPT ![n] = "user", ![s] = "publish"], targ' = targ,
         nested' = (nested \/ thd[s].tid # 0), UNCHANGED <<taken, parentAsleep, wreck>>
  PROVE  ThreadsInv'
<1>1. thd[s].state = "RUNNABLE" /\ tpc[s] = "stack" /\ Active(s)
  BY DEF Runs, Active
<1>2. /\ n # s /\ tpc[n] = "free" /\ thd[n].tid = 0 /\ thd[n].state \in {"EMBRYO", "RUNNABLE"}
      /\ thd[n].parent = Outside /\ thd[n].limit = 0 /\ n # Main /\ thd[n].ours
      /\ \A t \in TSlots \ {s} : Making(t) => targ[t] # n
      /\ Active(Main) /\ thd[s].ours
  <2>1. /\ n # s /\ tpc[n] = "free" /\ thd[n].tid = 0 /\ thd[n].state \in {"EMBRYO", "RUNNABLE"}
        /\ thd[n].limit = 0 /\ n # Main /\ thd[n].ours
        /\ \A t \in TSlots \ {s} : Making(t) => targ[t] # n
        /\ Active(Main) /\ thd[s].ours
    BY <1>1, MakerKnows
  <2>2. thd[n].parent = Outside
    BY <2>1, FineHas DEF SlotInv
  <2> QED BY <2>1, <2>2
<1>3. /\ nextTid \in Nat \ {0} /\ nextTid' = nextTid + 1 /\ nextTid' \in Nat
      /\ wreck' = "none" /\ taken' = taken /\ parentAsleep' = parentAsleep
  BY FineHas DEF ThreadTypes
<1>4. /\ \A t \in TSlots \ {s, n} : thd'[t] = thd[t]
      /\ SameSlot(s) /\ thd'[s].state = "RUNNABLE" /\ thd'[s].sz = sz
      /\ thd'[n].state = "RUNNABLE" /\ thd'[n].ours /\ thd'[n].parent = Outside /\ thd'[n].limit = 0
      /\ thd'[n].sz = sz /\ thd'[n].thdva = va /\ thd'[n].tid = nextTid /\ thd'[n].tmaker = s
      /\ thd' \in [TSlots -> SlotRecord]
  <2> DEFINE r == [thd[n] EXCEPT !.state = "RUNNABLE", !.sz = sz, !.thdva = va,
                                 !.tid = nextTid, !.tmaker = s]
             q == [thd[s] EXCEPT !.sz = sz]
  <2>1. thd[n] \in SlotRecord /\ thd[s] \in SlotRecord /\ thd \in [TSlots -> SlotRecord] /\ s \in 0..NSLOTS
    BY FineHas, ThreadNumbers
  <2>2. /\ r \in SlotRecord /\ r.state = "RUNNABLE" /\ r.ours /\ r.parent = Outside /\ r.limit = 0
        /\ r.sz = sz /\ r.thdva = va /\ r.tid = nextTid /\ r.tmaker = s
    BY <1>2, <1>3, <2>1 DEF SlotRecord, States
  <2>3. /\ q \in SlotRecord /\ q.state = "RUNNABLE" /\ q.ours = thd[s].ours /\ q.tid = thd[s].tid
        /\ q.tmaker = thd[s].tmaker /\ q.limit = thd[s].limit /\ q.parent = thd[s].parent
        /\ q.thdva = thd[s].thdva /\ q.sz = sz
    BY <1>1, <2>1 DEF SlotRecord
  <2>4. thd' = [[thd EXCEPT ![s] = q] EXCEPT ![n] = r]
    BY <1>2, <2>1
  <2> HIDE DEF r, q
  <2>5. thd'[s] = q /\ thd'[n] = r /\ \A t \in TSlots \ {s, n} : thd'[t] = thd[t]
    BY <1>2, <2>1, <2>4
  <2>6. thd' \in [TSlots -> SlotRecord]
    BY <2>1, <2>2, <2>3, <2>4
  <2> QED BY <2>2, <2>3, <2>5, <2>6 DEF SameSlot
<1>5. /\ tpc' \in [TSlots -> ThreadPlaces] /\ tpc'[s] = "publish" /\ tpc'[n] = "user"
      /\ \A t \in TSlots \ {s, n} : tpc'[t] = tpc[t]
  <2>1. tpc \in [TSlots -> ThreadPlaces] /\ "user" \in ThreadPlaces /\ "publish" \in ThreadPlaces
    BY FineHas DEF ThreadPlaces
  <2> QED BY <1>2, <2>1
<1>6. /\ spare[s] \in Seq(Pages) /\ Len(spare[s]) < NTHREAD
      /\ spare \in [TSlots -> Seq(Pages)] /\ \A t \in TSlots : Len(spare[t]) < NTHREAD
  BY FineHas DEF ThreadTypes
<1>7. /\ spare' \in [TSlots -> Seq(Pages)] /\ \A t \in TSlots : Len(spare'[t]) < NTHREAD
      /\ spare[s] # <<>> => spare'[s] = Tail(spare[s]) /\ va = spare[s][1]
      /\ spare[s] = <<>> => spare' = spare /\ va = thd[s].sz
  <2>1. CASE spare[s] = <<>>
    BY <1>6, <2>1 DEF TakeSpare, StackPlace
  <2>2. CASE spare[s] # <<>>
    <3>1. spare' = [spare EXCEPT ![s] = Tail(spare[s])] /\ va = Head(spare[s])
      BY <2>2 DEF TakeSpare, StackPlace
    <3>2. /\ Tail(spare[s]) \in Seq(Pages) /\ Len(Tail(spare[s])) = Len(spare[s]) - 1
          /\ Head(spare[s]) = spare[s][1]
      BY <1>6, <2>2, TailGives
    <3>3. Len(Tail(spare[s])) < NTHREAD
      BY <1>6, <3>2, ThreadNumbers
    <3> QED BY <1>6, <2>2, <3>1, <3>2, <3>3
  <2> QED BY <2>1, <2>2
<1>8. ThreadTypes'
  <2>1. StackAt(va) \subseteq Pages
    BY DEF StackAt
  <2>2. /\ ThreadTypes /\ mapped' \subseteq Pages /\ taken' \in 0..MaxTaken /\ parentAsleep' \in BOOLEAN
        /\ nested' \in BOOLEAN /\ targ' \in [TSlots -> Nat] /\ nextTid' \in {nextTid, nextTid + 1}
    BY <1>3, <2>1, FineHas DEF ThreadTypes
  <2>3. \A t \in TSlots : thd'[t].tid = thd[t].tid \/ thd'[t].tid < nextTid'
    <3>1. nextTid < nextTid'
      BY <1>3
    <3> QED BY <1>4, <3>1 DEF SameSlot
  <2> QED BY <1>3, <1>4, <1>5, <1>7, <2>2, <2>3, TypesStep
<1>9. Walks(s) /\ \A t \in TSlots \ {s, n} : Steady(t)
  <2>1. Walks(s)
    BY <1>1, <1>4, <1>5 DEF Walks, SameSlot
  <2>2. \A t \in TSlots \ {s, n} : Steady(t)
    BY <1>4, <1>5 DEF Steady
  <2> QED BY <2>1, <2>2
<1>10. \A t \in TSlots : SlotInv(t)'
  <2>1. SlotInv(n)'
    BY <1>3, <1>4, <1>5, ThreadNumbers DEF SlotInv, Active
  <2> QED BY <1>9, <2>1, FineHas, WalkingSlot, SteadySlot
<1>11. \A t \in TSlots : Making(t)' => t \notin {s, n} /\ Making(t) /\ targ[t] \in TSlots \ {s, n}
  <2> TAKE t \in TSlots
  <2> HAVE Making(t)'
  <2>1. t \notin {s, n} /\ Making(t)
    BY <1>5 DEF Making
  <2>2. targ[t] \in TSlots /\ tpc[targ[t]] = "free" /\ targ[t] # n
    BY <1>2, <2>1, FineHas DEF MakingInv
  <2> QED BY <1>1, <2>1, <2>2
<1>12. \A t \in TSlots : MakingInv(t)'
  <2> TAKE t \in TSlots
  <2>1. CASE Making(t)'
    <3>1. t \notin {s, n} /\ Steady(targ[t]) /\ tpc'[t] = tpc[t]
      BY <1>5, <1>9, <1>11, <2>1
    <3>2. MakingInv(t)
      BY FineHas
    <3> QED BY <3>1, <3>2, MakingKept
  <2>2. CASE ~Making(t)'
    BY <2>2 DEF MakingInv
  <2> QED BY <2>1, <2>2
<1>13. PairInv'
  <2>1. \A t \in TSlots : thd[t].tid < nextTid /\ thd[t].tid \in Nat
    BY FineHas DEF ThreadTypes, SlotRecord
  <2>2. \A t \in TSlots \ {n} : thd'[t].tid = thd[t].tid /\ thd'[t].tid # nextTid
    <3>1. \A t \in TSlots : thd[t].tid # nextTid
      BY <1>3, <2>1
    <3> QED BY <1>4, <3>1 DEF SameSlot
  <2>3. \A t, u \in TSlots : thd'[t].tid = thd'[u].tid /\ thd'[t].tid # 0 => t = u
    <3>1. \A t, u \in TSlots : thd[t].tid = thd[u].tid /\ thd[t].tid # 0 => t = u
      BY FineHas DEF SlotsInv, PairInv
    <3>2. thd'[n].tid = nextTid
      BY <1>4
    <3> TAKE t \in TSlots, u \in TSlots
    <3> HAVE thd'[t].tid = thd'[u].tid /\ thd'[t].tid # 0
    <3>3. CASE t = n
      BY <2>2, <3>2, <3>3
    <3>4. CASE t # n
      <4>1. u # n
        BY <2>2, <3>2, <3>4
      <4>2. thd'[t].tid = thd[t].tid /\ thd'[u].tid = thd[u].tid
        BY <2>2, <3>4, <4>1
      <4> QED BY <3>1, <4>2
    <3> QED BY <3>3, <3>4
  <2>4. \A t, u \in TSlots : Making(t)' /\ Making(u)' /\ t # u => targ'[t] # targ'[u]
    <3>1. PairInv
      BY FineHas DEF SlotsInv
    <3> HIDE DEF Making
    <3> QED BY <1>11, <3>1 DEF PairInv
  <2> QED BY <2>3, <2>4 DEF PairInv
<1>14. Active(Main)' /\ Active(s)'
  <2>1. Active(s)' /\ (Main # s => Active(Main)')
    BY <1>2, <1>5, ThreadNumbers DEF Active
  <2> QED BY <2>1
<1>15. \A t \in TSlots \ {n} : SameSlot(t) /\ thd'[t].state = thd[t].state /\ (t # s => thd'[t].sz = thd[t].sz)
  BY <1>1, <1>4 DEF SameSlot
<1>27. Main \in TSlots \ {n} /\ SameSlot(Main) /\ thd'[Main].state = thd[Main].state
  <2>1. Main \in TSlots \ {n}
    BY <1>2, ThreadNumbers
  <2> QED BY <1>15, <2>1
<1>16. thd[Main].ours /\ thd[Main].tid = 0 /\ thd'[Main].tid = 0
  <2>1. thd[Main].ours
    BY <1>2, FineHas, ThreadNumbers DEF SlotInv
  <2>2. thd[Main].tid = 0
    BY <2>1, FineHas DEF SlotsInv, MainInv
  <2> QED BY <1>27, <2>1, <2>2 DEF SameSlot
<1>17. MainInv'
  <2>1. MainInv
    BY FineHas DEF SlotsInv
  <2>2. /\ thd'[Main].tid = 0 /\ thd'[Main].tmaker = Main /\ thd'[Main].state # "UNUSED"
        /\ \A t \in TSlots \ {Main} : thd'[t].limit = 0
    <3>1. thd[Main].tmaker = Main /\ thd[Main].state # "UNUSED" /\ \A t \in TSlots \ {Main} : thd[t].limit = 0
      BY <1>16, <2>1 DEF MainInv
    <3>2. \A t \in TSlots \ {Main} : thd'[t].limit = 0
      <4>1. \A t \in TSlots \ {n} : thd'[t].limit = thd[t].limit
        BY <1>15 DEF SameSlot
      <4>2. thd'[n].limit = 0
        BY <1>4
      <4> QED BY <3>1, <4>1, <4>2
    <3> QED BY <1>16, <1>27, <3>1, <3>2 DEF SameSlot
  <2>3. \A t \in TSlots : tpc'[t] \notin Execs
    <3>1. \A t \in TSlots \ {s} : tpc[t] \notin Execs
      BY <1>2, <2>1 DEF MainInv
    <3> QED BY <1>5, <3>1 DEF Execs
  <2> QED BY <1>14, <2>2, <2>3 DEF MainInv
<1>18. SlotsInv'
  BY <1>10, <1>12, <1>13, <1>17 DEF SlotsInv
<1>19. HasStack(n)' /\ ~HasStack(n) /\ \A t \in TSlots \ {n} : (HasStack(t)' <=> HasStack(t)) /\ thd'[t].thdva = thd[t].thdva
  <2>1. HasStack(n)' /\ ~HasStack(n)
    BY <1>2, <1>3, <1>4 DEF HasStack
  <2>2. ASSUME NEW t \in TSlots \ {n}
        PROVE  (HasStack(t)' <=> HasStack(t)) /\ thd'[t].thdva = thd[t].thdva
    <3>1. SameSlot(t) /\ thd'[t].state = thd[t].state
      BY <1>15
    <3> QED BY <3>1 DEF HasStack, SameSlot
  <2> QED BY <2>1, <2>2
<1>20. ~nested' => ~nested /\ s = Main
  <2> HAVE ~nested'
  <2>1. ~nested /\ thd[s].tid = 0
    OBVIOUS
  <2>2. s = Main
    BY <1>1, <2>1, FineHas DEF SlotInv
  <2> QED BY <2>1, <2>2
<1>21. Unlimited' => Unlimited
  BY <1>2, <1>15, ThreadNumbers DEF Unlimited, SameSlot
<1>22. MadeByMain'
  <2> SUFFICES ASSUME ~nested', NEW t \in TSlots, HasStack(t)' PROVE thd'[t].tmaker = Main
    BY DEF MadeByMain
  <2>1. CASE t = n
    BY <1>4, <1>20, <2>1
  <2>2. CASE t # n
    <3>1. ~nested /\ HasStack(t) /\ SameSlot(t)
      BY <1>15, <1>19, <1>20, <2>2
    <3>2. thd[t].tmaker = Main
      BY <3>1, FineHas DEF MadeByMain
    <3> QED BY <3>1, <3>2 DEF SameSlot
  <2> QED BY <2>1, <2>2
<1>23. ASSUME ~nested'
       PROVE  \A i \in DOMAIN spare'[Main] : /\ i + 1 \in DOMAIN spare[Main] /\ i + 1 # 1 /\ spare[Main] # <<>>
                                             /\ spare'[Main][i] = spare[Main][i + 1]
  <2>1. s = Main
    BY <1>20, <1>23
  <2> DEFINE ring == spare[Main]  ring1 == spare'[Main]
  <2>2. CASE ring = <<>>
    <3>1. ring1 = <<>>
      BY <1>7, <2>1, <2>2
    <3> QED BY <3>1
  <2>3. CASE ring # <<>>
    <3>1. ring1 = Tail(ring) /\ ring \in Seq(Pages)
      BY <1>6, <1>7, <2>1, <2>3
    <3> HIDE DEF ring, ring1
    <3>2. /\ Len(ring) \in Nat \ {0}
          /\ DOMAIN ring = 1..Len(ring) /\ DOMAIN ring1 = 1..(Len(ring) - 1)
          /\ \A i \in 1..(Len(ring) - 1) : ring1[i] = ring[i + 1]
      BY <2>3, <3>1, TailGives
    <3>3. \A i \in DOMAIN ring1 : i + 1 \in DOMAIN ring /\ i + 1 # 1 /\ ring # <<>> /\ ring1[i] = ring[i + 1]
      BY <2>3, <3>2
    <3> QED BY <3>3 DEF ring, ring1
  <2> QED BY <2>2, <2>3
<1>24. StacksApart'
  <2>1. SUFFICES ASSUME Unlimited' PROVE StacksApart'
    BY DEF StacksApart
  <2>2. /\ \A u \in TSlots : HasStack(u) =>
             /\ StackAt(thd[u].thdva) \subseteq mapped
             /\ \A w \in TSlots \ {u} : HasStack(w) => StackAt(thd[u].thdva) \cap StackAt(thd[w].thdva) = {}
             /\ \A i \in DOMAIN spare[Main] : nested \/
                  StackAt(thd[u].thdva) \cap StackAt(spare[Main][i]) = {}
        /\ \A i, j \in DOMAIN spare[Main] :
             (i # j /\ ~nested) => StackAt(spare[Main][i]) \cap StackAt(spare[Main][j]) = {}
    BY <1>21, <2>1, FineHas DEF StacksApart
  <2>3. \A u \in TSlots : HasStack(u) => StackAt(thd[u].thdva) \cap StackAt(va) = {}
    <3> HIDE DEF StackAt, HasStack
    <3> QED BY <2>2
  <2>4. \A u \in TSlots : HasStack(u)' => StackAt(thd'[u].thdva) \subseteq mapped'
    <3> HIDE DEF StackAt, HasStack
    <3> QED BY <1>4, <1>19, <2>2
  <2>5. \A u \in TSlots : HasStack(u)' =>
          \A w \in TSlots \ {u} : HasStack(w)' => StackAt(thd'[u].thdva) \cap StackAt(thd'[w].thdva) = {}
    <3> HIDE DEF StackAt, HasStack
    <3>1. /\ \A u \in TSlots \ {n} : HasStack(u)' => HasStack(u) /\ thd'[u].thdva = thd[u].thdva
          /\ thd'[n].thdva = va
      BY <1>4, <1>19
    <3> TAKE u \in TSlots
    <3> HAVE HasStack(u)'
    <3> TAKE w \in TSlots \ {u}
    <3> HAVE HasStack(w)'
    <3>2. CASE u = n
      <4>1. HasStack(w) /\ thd'[w].thdva = thd[w].thdva /\ thd'[u].thdva = va
        BY <3>1, <3>2
      <4>2. StackAt(thd[w].thdva) \cap StackAt(va) = {}
        BY <2>3, <4>1
      <4> QED BY <4>1, <4>2
    <3>3. CASE w = n
      <4>1. u # n
        BY <3>3
      <4>2. HasStack(u) /\ thd'[u].thdva = thd[u].thdva /\ thd'[w].thdva = va
        BY <3>1, <3>3, <4>1
      <4>3. StackAt(thd[u].thdva) \cap StackAt(va) = {}
        BY <2>3, <4>2
      <4> QED BY <4>2, <4>3
    <3>4. CASE u # n /\ w # n
      <4>1. /\ HasStack(u) /\ thd'[u].thdva = thd[u].thdva
            /\ HasStack(w) /\ thd'[w].thdva = thd[w].thdva
        BY <3>1, <3>4
      <4>2. StackAt(thd[u].thdva) \cap StackAt(thd[w].thdva) = {}
        BY <2>2, <4>1
      <4> QED BY <4>1, <4>2
    <3> QED BY <3>2, <3>3, <3>4
  <2>6. ASSUME ~nested'
        PROVE  /\ \A u \in TSlots : HasStack(u)' =>
                    \A i \in DOMAIN spare'[Main] : StackAt(thd'[u].thdva) \cap StackAt(spare'[Main][i]) = {}
               /\ \A i, j \in DOMAIN spare'[Main] : i # j => StackAt(spare'[Main][i]) \cap StackAt(spare'[Main][j]) = {}
    <3>1. ~nested /\ s = Main
      BY <1>20, <2>6
    <3>2. \A i \in DOMAIN spare'[Main] : /\ i + 1 \in DOMAIN spare[Main] /\ i + 1 # 1 /\ spare[Main] # <<>>
                                         /\ spare'[Main][i] = spare[Main][i + 1]
      BY <1>23, <2>6
    <3>3. spare[Main] # <<>> => va = spare[Main][1] /\ 1 \in DOMAIN spare[Main]
      BY <1>6, <1>7, <3>1, TailGives
    <3>4. ASSUME NEW u \in TSlots, HasStack(u)', NEW i \in DOMAIN spare'[Main]
          PROVE  StackAt(thd'[u].thdva) \cap StackAt(spare'[Main][i]) = {}
      <4> HIDE DEF StackAt, HasStack
      <4>1. CASE u = n
        <5>1. i + 1 \in DOMAIN spare[Main] /\ i + 1 # 1 /\ spare'[Main][i] = spare[Main][i + 1]
              /\ va = spare[Main][1] /\ 1 \in DOMAIN spare[Main]
          BY <3>2, <3>3
        <5>2. StackAt(spare[Main][1]) \cap StackAt(spare[Main][i + 1]) = {}
          BY <2>2, <3>1, <5>1
        <5>3. thd'[u].thdva = va
          BY <1>4, <4>1
        <5> QED BY <5>1, <5>2, <5>3
      <4>2. CASE u # n
        <5>1. HasStack(u) /\ thd'[u].thdva = thd[u].thdva
          BY <1>19, <3>4, <4>2
        <5>2. \A j \in DOMAIN spare[Main] : StackAt(thd[u].thdva) \cap StackAt(spare[Main][j]) = {}
          BY <2>2, <3>1, <5>1
        <5>3. i + 1 \in DOMAIN spare[Main] /\ spare'[Main][i] = spare[Main][i + 1]
          BY <3>2
        <5> QED BY <5>1, <5>2, <5>3
      <4> QED BY <4>1, <4>2
    <3>5. ASSUME NEW i \in DOMAIN spare'[Main], NEW j \in DOMAIN spare'[Main], i # j
          PROVE  StackAt(spare'[Main][i]) \cap StackAt(spare'[Main][j]) = {}
      <4>1. i \in Int /\ j \in Int
        <5>1. spare'[Main] \in Seq(Pages)
          BY <1>7, ThreadNumbers
        <5> QED BY <5>1
      <4>2. i + 1 # j + 1
        BY <3>5, <4>1
      <4>3. /\ i + 1 \in DOMAIN spare[Main] /\ spare'[Main][i] = spare[Main][i + 1]
            /\ j + 1 \in DOMAIN spare[Main] /\ spare'[Main][j] = spare[Main][j + 1]
        BY <3>2
      <4>4. StackAt(spare[Main][i + 1]) \cap StackAt(spare[Main][j + 1]) = {}
        BY <2>2, <3>1, <4>2, <4>3
      <4> HIDE DEF StackAt
      <4> QED BY <4>3, <4>4
    <3> QED BY <3>4, <3>5
  <2> HIDE DEF StackAt, HasStack
  <2> QED BY <2>4, <2>5, <2>6 DEF StacksApart
<1>25. MemoryInv'
  <2> SUFFICES ASSUME Unlimited', ~nested' PROVE SizesCovered' /\ SpareFits'
    BY DEF MemoryInv
  <2>1. Unlimited /\ ~nested /\ s = Main /\ SpareFits
    BY <1>20, <1>21, FineHas DEF MemoryInv
  <2> DEFINE ring == spare[Main]  ring1 == spare'[Main]
             A == {u \in TSlots : HasStack(u)}  B == {u \in TSlots : HasStack(u)'}
  <2>2. ring \in Seq(Pages) /\ Len(ring) \in Nat
    BY <1>6, <2>1
  <2>3. \A u \in TSlots : Active(u) \/ u = Main =>
           /\ CoveredBy(thd[u].sz, mapped, ring)
           /\ tpc[u] \in {"grown", "set"} => CoveredBy(targ[u], mapped, ring)
    BY <1>1, <2>1, SizesAre
  <2>4. /\ ring # <<>> => /\ ring1 = Tail(ring) /\ va = ring[1] /\ sz = thd[s].sz
        /\ ring = <<>> => /\ ring1 = ring /\ va = thd[s].sz /\ sz = va + 2
    BY <1>7, <2>1
  <2>5. ASSUME NEW k, CoveredBy(k, mapped, ring) PROVE CoveredBy(k, mapped', ring1)
    <3> SUFFICES ASSUME NEW page \in 0..(k - 1)
                 PROVE  page \in mapped' \/ \E i \in DOMAIN ring1 : page \in StackAt(ring1[i])
      BY DEF CoveredBy
    <3>1. page \in mapped \/ \E i \in DOMAIN ring : page \in StackAt(ring[i])
      BY <2>5 DEF CoveredBy
    <3>2. ASSUME NEW i \in DOMAIN ring, page \in StackAt(ring[i])
          PROVE  page \in mapped' \/ \E j \in DOMAIN ring1 : page \in StackAt(ring1[j])
      <4>1. ring # <<>>
        BY <3>2
      <4> HIDE DEF ring, ring1, StackAt
      <4>2. /\ Len(ring) \in Nat \ {0} /\ DOMAIN ring = 1..Len(ring) /\ DOMAIN ring1 = 1..(Len(ring) - 1)
            /\ \A j \in 1..(Len(ring) - 1) : ring1[j] = ring[j + 1]
        BY <2>2, <2>4, <4>1, TailGives
      <4>3. CASE i = 1
        BY <2>4, <3>2, <4>1, <4>3
      <4>4. CASE i # 1
        <5>1. i - 1 \in DOMAIN ring1 /\ ring1[i - 1] = ring[i]
          BY <4>2, <4>4
        <5> QED BY <3>2, <5>1
      <4> QED BY <4>3, <4>4
    <3> HIDE DEF ring, ring1, StackAt
    <3> QED BY <3>1, <3>2
  <2>6. CoveredBy(sz, mapped', ring1)
    <3>1. CoveredBy(thd[s].sz, mapped', ring1)
      BY <2>1, <2>3, <2>5
    <3>2. CASE ring # <<>>
      BY <2>4, <3>1, <3>2
    <3>3. CASE ring = <<>>
      <4> SUFFICES ASSUME NEW page \in 0..(sz - 1)
                   PROVE  page \in mapped' \/ \E i \in DOMAIN ring1 : page \in StackAt(ring1[i])
        BY DEF CoveredBy
      <4>1. sz = va + 2 /\ thd[s].sz = va /\ va \in Nat
        BY <2>4, <3>3, ThreadNumbers DEF Pages
      <4>2. page \in 0..(thd[s].sz - 1) \/ page \in {va, va + 1}
        BY <4>1
      <4>3. page \in 0..(thd[s].sz - 1) => page \in mapped' \/ \E i \in DOMAIN ring1 : page \in StackAt(ring1[i])
        BY <3>1 DEF CoveredBy
      <4>4. {va, va + 1} \subseteq mapped'
        BY DEF StackAt
      <4> HIDE DEF ring1, StackAt
      <4> QED BY <4>2, <4>3, <4>4
    <3> QED BY <3>2, <3>3
  <2>7. SizesCovered'
    <3>1. ASSUME NEW u \in TSlots, Active(u)' \/ u = Main
          PROVE  CoveredBy(thd'[u].sz, mapped', ring1)
      <4>1. CASE u \in {s, n}
        BY <1>4, <2>6, <4>1
      <4>2. CASE u \notin {s, n}
        <5>1. thd'[u].sz = thd[u].sz /\ (Active(u) \/ u = Main)
          BY <1>4, <1>5, <3>1, <4>2 DEF Active
        <5> HIDE DEF ring, ring1
        <5> QED BY <2>3, <2>5, <5>1
      <4> QED BY <4>1, <4>2
    <3>2. ASSUME NEW u \in TSlots, Active(u)' \/ u = Main, tpc'[u] \in {"grown", "set"}
          PROVE  CoveredBy(targ'[u], mapped', ring1)
      <4>1. u \notin {s, n} /\ tpc[u] \in {"grown", "set"} /\ targ'[u] = targ[u] /\ (Active(u) \/ u = Main)
        BY <1>5, <3>2 DEF Active
      <4> HIDE DEF ring, ring1
      <4> QED BY <2>3, <2>5, <4>1
    <3> QED BY <3>1, <3>2 DEF SizesCovered
  <2>8. IsFiniteSet(A) /\ n \notin A /\ B = A \cup {n}
    BY <1>19, StacksFinite
  <2>9. Cardinality(A) \in Nat /\ Cardinality(B) = Cardinality(A) + 1 /\ IsFiniteSet(B)
    <3> HIDE DEF A, B
    <3> QED BY <2>8, FS_AddElement, FS_CardinalityType
  <2>10. Cardinality(B) <= NSLOTS - 1
    <3>1. B \subseteq TSlots \ {Main}
      BY <1>16 DEF HasStack
    <3>2. Cardinality(TSlots \ {Main}) = NSLOTS - 1 /\ IsFiniteSet(TSlots \ {Main})
      <4>1. IsFiniteSet(1..NSLOTS) /\ Cardinality(1..NSLOTS) = NSLOTS
        <5>1. NSLOTS \in Int /\ 1 \in Int /\ ~(1 > NSLOTS) /\ NSLOTS - 1 + 1 = NSLOTS
          BY ThreadNumbers
        <5>2. Cardinality(1..NSLOTS) = IF 1 > NSLOTS THEN 0 ELSE NSLOTS - 1 + 1
          BY <5>1, FS_Interval
        <5>3. IsFiniteSet(1..NSLOTS)
          BY <5>1, FS_Interval
        <5> QED BY <5>1, <5>2, <5>3
      <4>2. IsFiniteSet(TSlots) /\ Cardinality(TSlots) = NSLOTS
        BY <4>1, ThreadNumbers
      <4> QED BY <4>2, FS_RemoveElement, ThreadNumbers
    <3> HIDE DEF B
    <3>3. Cardinality(B) <= Cardinality(TSlots \ {Main})
      BY <3>1, <3>2, FS_Subset
    <3> QED BY <3>2, <3>3
  <2>11. Len(ring) + Cardinality(A) <= NSLOTS - 1
    BY <2>1 DEF SpareFits
  <2>12. Len(ring1) + Cardinality(B) <= NSLOTS - 1
    <3>1. CASE ring = <<>>
      <4>1. Len(ring1) = 0
        BY <2>4, <3>1
      <4> HIDE DEF ring1, B
      <4> QED BY <2>9, <2>10, <4>1, ThreadNumbers
    <3>2. CASE ring # <<>>
      <4> HIDE DEF ring, ring1, A, B
      <4>1. Len(ring1) = Len(ring) - 1
        BY <2>2, <2>4, <3>2, TailGives
      <4> QED BY <2>2, <2>9, <2>11, <4>1, ThreadNumbers
    <3> QED BY <3>1, <3>2
  <2>13. SpareFits'
    BY <2>12 DEF B, SpareFits
  <2> QED BY <2>7, <2>13
<1>26. JoinersWait'
  <2>1. ASSUME NEW u \in TSlots, thd'[u].state = "SLEEPING"
        PROVE  thd[u].state = "SLEEPING" /\ \A t \in TSlots : Cause(u, t) => Cause(u, t)'
    <3>1. u \notin {s, n} /\ thd[u].state = "SLEEPING" /\ tpc'[u] = tpc[u] /\ targ'[u] = targ[u]
      BY <1>4, <1>5, <2>1
    <3>2. tpc[u] \in {"join", "wait"} /\ (tpc[u] = "join" => targ[u] # 0)
      BY <3>1, FineHas DEF SlotInv
    <3>3. ~Cause(u, n)
      BY <1>2, <3>2, ThreadNumbers DEF Cause
    <3>4. \A t \in TSlots \ {n} : Live(t) => Live(t)'
      BY <1>15 DEF Live
    <3> HIDE DEF Live
    <3> QED BY <1>15, <3>1, <3>3, <3>4 DEF Cause, SameSlot
  <2> QED BY <1>14, <1>18, <2>1, FineHas, JoinersKept
<1> QED BY <1>3, <1>8, <1>18, <1>22, <1>24, <1>25, <1>26, GoodIsEnough DEF Good

LEMMA CreateStackStep ==
  ASSUME Fine, NEW s \in TSlots, NEW enough \in BOOLEAN, CreateStack(s, enough)
  PROVE  ThreadsInv'
<1>1. Runs(s, "stack") /\ tpc[s] = "stack"
  BY DEF CreateStack, Runs
<1>2. PICK n \in TSlots : n = targ[s]
  BY <1>1, MakerKnows
<1>3. spare[s] \in Seq(Pages) /\ thd[s].sz \in 0..KERNBASE
  BY FineHas DEF SlotRecord
<1>4. StackPlace(s) \in Nat
  <2>1. spare[s] # <<>> => Head(spare[s]) \in Nat
    BY <1>3, TailGives DEF Pages
  <2> QED BY <1>3, <2>1 DEF StackPlace
<1>5. PICK va \in Nat : va = StackPlace(s)
  BY <1>4
<1>6. CASE ~enough \/ va + 2 >= KERNBASE
  <2>1. /\ thd' = [thd EXCEPT ![targ[s]].state = "UNUSED"] /\ GoTo(s, "user", 0)
        /\ UNCHANGED <<spare, mapped, nextTid>> /\ InKernel
    BY <1>5, <1>6 DEF CreateStack
  <2> QED BY <1>1, <2>1, CreateFailsStep
<1>7. CASE enough /\ ~(va + 2 >= KERNBASE) /\ StackAt(va) \cap mapped # {}
  <2>1. Panic("remap") /\ ThreadsInv
    BY <1>5, <1>7 DEF CreateStack, Fine, Good, ThreadsInv
  <2> QED BY <2>1, PanicKeeps
<1>8. CASE enough /\ ~(va + 2 >= KERNBASE) /\ StackAt(va) \cap mapped = {}
  <2>1. va \in Pages /\ va + 1 \in Pages
    BY <1>8, ThreadNumbers DEF Pages
  <2>2. (IF spare[s] # <<>> THEN thd[s].sz ELSE va + 2) \in 0..KERNBASE
    BY <1>3, <1>8, ThreadNumbers
  <2>3. PICK sz \in 0..KERNBASE : sz = (IF spare[s] # <<>> THEN thd[s].sz ELSE va + 2)
    BY <2>2
  <2>4. /\ mapped' = mapped \cup StackAt(va) /\ spare' = TakeSpare(s)
        /\ thd' = [thd EXCEPT ![s].sz = sz,
                              ![n] = [@ EXCEPT !.state = "RUNNABLE", !.sz = sz, !.thdva = va,
                                               !.tid = nextTid, !.tmaker = s]]
        /\ nextTid' = nextTid + 1 /\ tpc' = [tpc EXCEPT ![n] = "user", ![s] = "publish"] /\ targ' = targ
        /\ nested' = (nested \/ thd[s].tid # 0) /\ UNCHANGED <<taken, parentAsleep, wreck>>
    BY <1>2, <1>5, <1>8, <2>3 DEF CreateStack
  <2> QED BY <1>1, <1>2, <1>5, <1>8, <2>1, <2>3, <2>4, CreatedStep
<1> QED BY <1>6, <1>7, <1>8

\* fork() panics on a hole: the ring of the process has a spare stack.
LEMMA HoleStep ==
  ASSUME Fine, NEW s \in TSlots, Runs(s, "fork"), Foreign(thd[s].tmaker) \/ CopyHoles(thd[s].tmaker) # {},
         Panic("hole")
  PROVE  ThreadsInv'
<1>1. /\ UNCHANGED <<thd, spare, mapped, nextTid, taken, tpc, targ, parentAsleep, nested>> /\ wreck' = "hole"
  BY DEF Panic
<1>2. ThreadTypes'
  BY <1>1, FineHas DEF ThreadTypes
<1>3. ASSUME Unlimited', ~nested' PROVE spare'[Main] # <<>>
  <2>1. Unlimited /\ ~nested /\ spare' = spare
    BY <1>1, <1>3 DEF Unlimited
  <2>2. tpc[s] = "fork" /\ Active(s) /\ thd[s].ours /\ thd[s].state # "UNUSED" /\ (s # Main => thd[s].tid # 0)
    BY FineHas DEF Runs, Active, SlotInv
  <2>3. thd[s].tmaker = Main
    <3>1. CASE s = Main
      BY <2>2, <3>1, FineHas DEF SlotsInv, MainInv
    <3>2. CASE s # Main
      BY <2>1, <2>2, <3>2, FineHas DEF MadeByMain, HasStack
    <3> QED BY <3>1, <3>2
  <2>4. CopyHoles(Main) # {}
    <3>1. ~Foreign(Main)
      BY <2>1 DEF Foreign, Unlimited
    <3> QED BY <2>3, <3>1
  <2>5. PICK page \in 0..(thd[Main].sz - 1) : page \notin mapped
    BY <2>4 DEF CopyHoles
  <2>6. CoveredBy(thd[Main].sz, mapped, spare[Main])
    BY <2>1, <2>2, SizesAre, ThreadNumbers
  <2>7. \E i \in DOMAIN spare[Main] : page \in StackAt(spare[Main][i])
    BY <2>5, <2>6 DEF CoveredBy
  <2> QED BY <2>1, <2>7
<1>4. HolesSpare'
  BY <1>1, <1>3 DEF HolesSpare
<1> QED BY <1>1, <1>2, <1>4 DEF ThreadsInv

LEMMA ForkCopyStep ==
  ASSUME Fine, NEW s \in TSlots, NEW enough \in BOOLEAN, ForkCopy(s, enough)
  PROVE  ThreadsInv'
<1>1. Runs(s, "fork")
  BY DEF ForkCopy
<1>2. CASE Panic("lock held")
  BY <1>2, PanicKeeps DEF Fine, Good, ThreadsInv
<1>3. CASE (Foreign(thd[s].tmaker) \/ CopyHoles(thd[s].tmaker) # {}) /\ Panic("hole")
  BY <1>1, <1>3, HoleStep
<1>4. CASE /\ thd' = [thd EXCEPT ![targ[s]] = [@ EXCEPT !.parent = s, !.tmaker = targ[s], !.sz = 0]]
           /\ tpc' = [tpc EXCEPT ![targ[s]] = "other", ![s] = "forked"]
           /\ UNCHANGED <<spare, mapped, nextTid, targ>> /\ InKernel
  BY <1>1, <1>4, ForkedStep
<1> QED BY <1>2, <1>3, <1>4 DEF ForkCopy

\* The kernel is alive before every step.
LEMMA NextAlive == ThreadsNext => wreck = "none"
<1>1. \A s \in TSlots : InUserCode(s) \/ (\E pc \in ThreadPlaces : Runs(s, pc)) => wreck = "none"
  BY DEF InUserCode, Runs
<1>2. ASSUME NEW s \in TSlots, NEW yes \in BOOLEAN,
             \/ CreateAlloc(s, yes) \/ CreateStack(s, yes) \/ ExecDone(s, yes)
             \/ ForkAlloc(s, yes) \/ ForkCopy(s, yes) \/ Exec2Done(s, yes)
      PROVE  wreck = "none"
  <2>1. Runs(s, "stack") \/ Runs(s, "exec") \/ Runs(s, "fork") \/ Runs(s, "exec2") \/ InUserCode(s)
    BY <1>2, Zenon DEF CreateAlloc, ForkAlloc, Alloc, CreateStack, ExecDone, ForkCopy, Exec2Done
  <2> QED BY <1>1, <2>1 DEF ThreadPlaces
<1>3. ASSUME NEW s \in TSlots,
             \/ CreateJoinFamily(s) \/ CreatePublish(s) \/ CreateAgain(s) \/ RunDead(s)
             \/ ForkReady(s) \/ ChildExits(s) \/ WaitChild(s) \/ WaitElsewhere(s) \/ ThreadExit(s)
             \/ GrowPublish(s) \/ GrowSet(s) \/ Exec(s) \/ Exit(s) \/ ExitZombie(s)
      PROVE  wreck = "none"
  <2>1. wreck = "none" \/ InUserCode(s) \/ \E pc : Runs(s, pc)
    BY <1>3, Zenon DEF CreateJoinFamily, CreatePublish, CreateAgain, RunDead, ForkReady, ChildExits,
       WaitChild, WaitElsewhere, ThreadExit, GrowPublish, GrowSet, Exec, Exit, ExitZombie
  <2> QED BY <2>1 DEF InUserCode, Runs
<1>4. ASSUME NEW s \in TSlots,
             \/ \E tid \in 1..(nextTid - 1) : ThreadJoin(s, tid)
             \/ \E n \in Amounts : Grow(s, n)
             \/ \E stacksize \in StackSizes : Exec2(s, stacksize)
      PROVE  wreck = "none"
  <2>1. InUserCode(s) \/ Runs(s, "join")
    BY <1>4, Zenon DEF ThreadJoin, Grow, Exec2
  <2> QED BY <1>1, <2>1 DEF ThreadPlaces
<1>5. Wait \/ Kill \/ (\E limit \in Limits : SetMemoryLimit(limit)) => wreck = "none"
  BY Zenon DEF Wait, Kill, SetMemoryLimit
<1> QED BY <1>2, <1>3, <1>4, <1>5, Zenon DEF ThreadsNext

LEMMA SlotStep ==
  ASSUME Fine, NEW s \in TSlots,
         \/ \E yes \in BOOLEAN : CreateAlloc(s, yes) \/ CreateStack(s, yes) \/ ExecDone(s, yes)
         \/ \E yes \in BOOLEAN : ForkAlloc(s, yes) \/ ForkCopy(s, yes) \/ Exec2Done(s, yes)
         \/ CreateJoinFamily(s) \/ CreatePublish(s) \/ CreateAgain(s) \/ RunDead(s)
         \/ ForkReady(s) \/ ChildExits(s) \/ WaitChild(s) \/ WaitElsewhere(s)
         \/ ThreadExit(s)
         \/ \E tid \in 1..(nextTid - 1) : ThreadJoin(s, tid)
         \/ \E n \in Amounts : Grow(s, n)
         \/ \E stacksize \in StackSizes : Exec2(s, stacksize)
         \/ GrowPublish(s) \/ GrowSet(s)
         \/ Exec(s) \/ Exit(s) \/ ExitZombie(s)
  PROVE  ThreadsInv'
<1>1. CASE \E yes \in BOOLEAN : CreateAlloc(s, yes) \/ CreateStack(s, yes) \/ ExecDone(s, yes)
  <2>1. ASSUME NEW yes \in BOOLEAN, CreateAlloc(s, yes) PROVE ThreadsInv'
    <3>1. Alloc(s, yes, "create")
      BY <2>1 DEF CreateAlloc
    <3> QED BY <3>1, AllocStep
  <2> QED BY <1>1, <2>1, CreateStackStep, ExecDoneStep
<1>2. CASE \E yes \in BOOLEAN : ForkAlloc(s, yes) \/ ForkCopy(s, yes) \/ Exec2Done(s, yes)
  <2>1. ASSUME NEW yes \in BOOLEAN, ForkAlloc(s, yes) PROVE ThreadsInv'
    <3>1. Alloc(s, yes, "fork")
      BY <2>1 DEF ForkAlloc
    <3> QED BY <3>1, AllocStep
  <2> QED BY <1>2, <2>1, ForkCopyStep, Exec2DoneStep
<1>3. CASE CreateJoinFamily(s) \/ CreatePublish(s)
  BY <1>3, JoinFamilyStep, PublishStep
<1>4. CASE CreateAgain(s)
  <2>1. /\ Runs(s, "again") /\ thd' = [thd EXCEPT ![targ[s]].state = "RUNNABLE"] /\ GoTo(s, "user", 0)
        /\ UNCHANGED <<spare, mapped, nextTid>> /\ InKernel
    BY <1>4 DEF CreateAgain
  <2> QED BY <2>1, RevivedStep
<1>5. CASE ForkReady(s)
  <2>1. /\ Runs(s, "forked") /\ thd' = [thd EXCEPT ![targ[s]].state = "RUNNABLE"] /\ GoTo(s, "user", 0)
        /\ UNCHANGED <<spare, mapped, nextTid>> /\ InKernel
    BY <1>5 DEF ForkReady
  <2> QED BY <2>1, RevivedStep
<1>6. CASE RunDead(s)
  <2>1. ThreadsInv /\ (Panic("zombie exit") \/ Panic("freed stack"))
    BY <1>6 DEF RunDead, Fine, Good, ThreadsInv
  <2> QED BY <2>1, PanicKeeps
<1>7. CASE ChildExits(s) \/ WaitChild(s) \/ WaitElsewhere(s) \/ ThreadExit(s)
  BY <1>7, ChildExitsStep, WaitChildStep, WaitElsewhereStep, ThreadExitStep
<1>8. CASE \E tid \in 1..(nextTid - 1) : ThreadJoin(s, tid)
  BY <1>8, ThreadJoinStep
<1>9. CASE \E n \in Amounts : Grow(s, n)
  BY <1>9, GrowStep
<1>10. CASE (\E stacksize \in StackSizes : Exec2(s, stacksize)) \/ Exec(s) \/ Exit(s)
  BY <1>10, ExecStep
<1>11. CASE GrowPublish(s) \/ GrowSet(s) \/ ExitZombie(s)
  BY <1>11, GrowPublishStep, GrowSetStep, ExitZombieStep
<1> QED BY <1>1, <1>2, <1>3, <1>4, <1>5, <1>6, <1>7, <1>8, <1>9, <1>10, <1>11

LEMMA ThreadsStep == ThreadsInv /\ ThreadsNext => ThreadsInv'
<1> SUFFICES ASSUME ThreadsInv, ThreadsNext PROVE ThreadsInv'
  OBVIOUS
<1>1. Fine
  BY NextAlive DEF Fine, Good, ThreadsInv
<1>2. CASE \E limit \in Limits : SetMemoryLimit(limit)
  BY <1>1, <1>2, SetMemoryLimitStep
<1>3. CASE Wait \/ Kill
  BY <1>1, <1>3, WaitStep, KillStep
<1> QED BY <1>1, <1>2, <1>3, SlotStep DEF ThreadsNext

LEMMA ThreadsStutter == ThreadsInv /\ UNCHANGED threadsVars => ThreadsInv'
<1> SUFFICES ASSUME ThreadsInv, UNCHANGED threadsVars PROVE ThreadsInv'
  OBVIOUS
<1>1. /\ thd' = thd /\ spare' = spare /\ mapped' = mapped /\ nextTid' = nextTid /\ taken' = taken /\ tpc' = tpc
      /\ targ' = targ /\ parentAsleep' = parentAsleep /\ nested' = nested /\ wreck' = wreck
  BY DEF threadsVars
<1>2. ThreadTypes'
  BY <1>1 DEF ThreadsInv, ThreadTypes
<1>3. HolesSpare => HolesSpare'
  BY <1>1 DEF HolesSpare, Unlimited
<1>4. ASSUME wreck = "none" PROVE SlotsInv' /\ StacksApart' /\ JoinersWait' /\ MadeByMain' /\ MemoryInv'
  <2>1. Fine
    BY <1>4 DEF Fine, Good, ThreadsInv
  <2>2. SlotsInv'
    <3>1. \A t \in TSlots : SlotInv(t)' /\ MakingInv(t)'
      BY <1>1, <2>1, FineHas DEF SlotInv, MakingInv, Making, Active
    <3>2. MainInv'
      BY <1>1, <2>1, FineHas DEF SlotsInv, MainInv, Active
    <3>3. PairInv'
      BY <1>1, <2>1, FineHas DEF SlotsInv, PairInv, Making
    <3> QED BY <3>1, <3>2, <3>3 DEF SlotsInv
  <2>3. StacksStay
    BY <1>1 DEF StacksStay, HasStack, Unlimited
  <2>4. SizesStay
    BY <1>1 DEF SizesStay, Active
  <2>5. wreck' = "none"
    BY <1>1, <1>4
  <2>6. StacksApart' /\ MadeByMain' /\ MemoryInv'
    BY <2>1, <2>3, <2>4, <2>5, FineHas, StacksKept, MemoryKept
  <2>7. JoinersWait'
    BY <1>1, <2>1, FineHas DEF JoinersWait, Live
  <2> QED BY <2>2, <2>6, <2>7
<1> QED BY <1>1, <1>2, <1>3, <1>4 DEF ThreadsInv

LEMMA ThreadsStart == ThreadsInit => ThreadsInv
<1> SUFFICES ASSUME ThreadsInit PROVE ThreadsInv
  OBVIOUS
<1>1. /\ spare = [s \in TSlots |-> <<>>] /\ mapped = 0..(IMAGE - 1) /\ nextTid = 1 /\ taken = 0
      /\ tpc = [s \in TSlots |-> IF s = Main THEN "user" ELSE "free"] /\ targ = [s \in TSlots |-> 0]
      /\ parentAsleep = FALSE /\ nested = FALSE /\ wreck = "none"
  BY DEF ThreadsInit
<1>2. /\ thd \in [TSlots -> SlotRecord]
      /\ thd[Main].state = "RUNNABLE" /\ thd[Main].ours /\ thd[Main].parent = Outside /\ thd[Main].tmaker = Main
      /\ thd[Main].sz = IMAGE /\ thd[Main].tid = 0
      /\ \A s \in TSlots \ {Main} : /\ thd[s].state = "UNUSED" /\ ~thd[s].ours /\ thd[s].parent = 0
                                    /\ thd[s].tid = 0 /\ thd[s].limit = 0
  <2> DEFINE r == [FreeSlot EXCEPT !.state = "RUNNABLE", !.ours = TRUE, !.parent = Outside,
                                   !.tmaker = Main, !.sz = IMAGE]
  <2>1. thd = [s \in TSlots |-> IF s # Main THEN FreeSlot ELSE r]
    BY DEF ThreadsInit
  <2>2. /\ 0 \in 0..Outside /\ Outside \in 0..Outside /\ 0 \in 0..NSLOTS /\ Main \in 0..NSLOTS
        /\ 0 \in 0..KERNBASE /\ IMAGE \in 0..KERNBASE /\ 0 \in Pages
    BY ThreadNumbers DEF Pages
  <2>3. /\ FreeSlot \in SlotRecord /\ FreeSlot.state = "UNUSED" /\ ~FreeSlot.ours /\ FreeSlot.parent = 0
        /\ FreeSlot.tid = 0 /\ FreeSlot.limit = 0
    BY <2>2 DEF FreeSlot, SlotRecord, States
  <2>4. /\ r \in SlotRecord /\ r.state = "RUNNABLE" /\ r.ours /\ r.parent = Outside /\ r.tmaker = Main
        /\ r.sz = IMAGE /\ r.tid = 0
    BY <2>2 DEF FreeSlot, SlotRecord, States
  <2> HIDE DEF r
  <2> QED BY <2>1, <2>3, <2>4, ThreadNumbers
<1>3. ThreadTypes
  <2>1. \A s \in TSlots : thd[s].tid = 0
    BY <1>2
  <2>2. spare \in [TSlots -> Seq(Pages)] /\ \A s \in TSlots : Len(spare[s]) < NTHREAD
    <3>1. <<>> \in Seq(Pages) /\ Len(<<>>) = 0 /\ 0 < NTHREAD
      BY ThreadNumbers
    <3> QED BY <1>1, <3>1
  <2>3. mapped \subseteq Pages
    BY <1>1, ThreadNumbers DEF Pages
  <2>4. taken \in 0..MaxTaken
    BY <1>1, ThreadsAssumption
  <2>5. tpc \in [TSlots -> ThreadPlaces]
    BY <1>1 DEF ThreadPlaces
  <2>6. targ \in [TSlots -> Nat]
    BY <1>1
  <2>7. \A s \in TSlots : thd[s].tid < nextTid
    BY <1>1, <2>1
  <2>8. nextTid \in Nat \ {0}
    BY <1>1
  <2>9. parentAsleep \in BOOLEAN /\ nested \in BOOLEAN
    BY <1>1, Zenon
  <2> QED BY <1>1, <1>2, <2>2, <2>3, <2>4, <2>5, <2>6, <2>7, <2>8, <2>9 DEF ThreadTypes
<1>4. SlotsInv
  <2>1. \A s \in TSlots : SlotInv(s)
    <3> TAKE s \in TSlots
    <3>1. CASE s = Main
      BY <1>1, <1>2, <3>1, ThreadNumbers DEF SlotInv, Active
    <3>2. CASE s # Main
      BY <1>1, <1>2, <3>2, ThreadNumbers DEF SlotInv, Active
    <3> QED BY <3>1, <3>2
  <2>2. \A s \in TSlots : ~Making(s)
    BY <1>1 DEF Making
  <2>3. MainInv
    <3>1. \A s \in TSlots : tpc[s] \notin Execs
      BY <1>1 DEF Execs
    <3>2. Active(Main)
      BY <1>1, ThreadNumbers DEF Active
    <3> QED BY <1>2, <3>1, <3>2 DEF MainInv
  <2>4. PairInv
    <3>1. \A s \in TSlots : thd[s].tid = 0
      BY <1>2
    <3> QED BY <2>2, <3>1 DEF PairInv
  <2> QED BY <2>1, <2>2, <2>3, <2>4 DEF SlotsInv, MakingInv
<1>5. \A s \in TSlots : ~HasStack(s) /\ thd[s].state # "SLEEPING"
  BY <1>2 DEF HasStack
<1>6. spare[Main] = <<>>
  BY <1>1, ThreadNumbers
<1>7. StacksApart /\ MadeByMain
  <2> HIDE DEF HasStack
  <2> QED BY <1>5, <1>6 DEF StacksApart, MadeByMain
<1>8. JoinersWait
  BY <1>1, <1>5 DEF JoinersWait
<1>9. MemoryInv
  <2>1. \A s \in TSlots : Active(s) => s = Main
    BY <1>1 DEF Active
  <2>2. CoveredBy(IMAGE, mapped, spare[Main])
    BY <1>1 DEF CoveredBy
  <2>3. tpc[Main] = "user"
    BY <1>1, ThreadNumbers
  <2>4. SizesCovered
    BY <1>2, <2>1, <2>2, <2>3 DEF SizesCovered
  <2> DEFINE A == {s \in TSlots : HasStack(s)}
  <2>5. A = {}
    BY <1>5
  <2>6. Cardinality({}) = 0 /\ Len(<<>>) = 0
    BY FS_EmptySet
  <2> HIDE DEF A
  <2>7. Len(spare[Main]) + Cardinality(A) <= NSLOTS - 1
    BY <1>6, <2>5, <2>6, ThreadNumbers
  <2>8. SpareFits
    BY <2>7 DEF A, SpareFits
  <2> QED BY <2>4, <2>8 DEF MemoryInv
<1> QED BY <1>1, <1>3, <1>4, <1>7, <1>8, <1>9 DEF ThreadsInv

LEMMA ThreadsInvHolds == ThreadsSpec => []ThreadsInv
<1>1. ThreadsInv /\ [ThreadsNext]_threadsVars => ThreadsInv'
  BY ThreadsStep, ThreadsStutter
<1> QED BY <1>1, ThreadsStart, PTL DEF ThreadsSpec

-----------------------------------------------------------------------------
\* proc.c:689-944 of assignment02/project02.  The types of the slots, for any number
\* of them.
THEOREM ThreadsTyped == ThreadsSpec => []ThreadsTypeOK
<1>1. ThreadsInv => ThreadsTypeOK
  BY TypesGive DEF ThreadsInv
<1> QED BY <1>1, ThreadsInvHolds, PTL

\* proc.c:733-760, 878-886.  No two threads share a stack page and no spare stack is
\* in use, for any number of slots, any image and any amounts of sbrk(), as long as
\* the process has no memory limit.
THEOREM StacksStayApart == ThreadsSpec => []StacksApart
<1>1. ThreadsInv => StacksApart
  BY DEF ThreadsInv, StacksApart
<1> QED BY <1>1, ThreadsInvHolds, PTL

\* proc.c:278-292, vm.c:426-456.  A page below the size that is not mapped is one of a
\* spare stack, and that alone makes fork() panic.
THEOREM HolesAreSpare == ThreadsSpec => []HolesSpare
<1>1. ThreadsInv => HolesSpare
  <2> SUFFICES ASSUME ThreadsInv PROVE HolesSpare
    OBVIOUS
  <2>1. CASE wreck = "hole"
    BY <2>1 DEF ThreadsInv
  <2>2. CASE wreck = "none"
    <3>1. (Unlimited /\ ~nested) => CoveredBy(thd[Main].sz, mapped, spare[Main]) \/ tpc[Main] = "grown"
      BY <2>2, ThreadNumbers DEF ThreadsInv, MemoryInv, SizesCovered
    <3> QED BY <2>2, <3>1 DEF HolesSpare, CoveredBy
  <2>3. CASE wreck \notin {"none", "hole"}
    BY <2>3 DEF HolesSpare
  <2> QED BY <2>1, <2>2, <2>3
<1> QED BY <1>1, ThreadsInvHolds, PTL

\* proc.c:400-457, 800-900.  Whoever sleeps in thread_join() or in wait() has a thread
\* or a child that will wake it.
THEOREM JoinersHaveCause == ThreadsSpec => []JoinersWait
<1>1. ThreadsInv => JoinersWait
  BY DEF ThreadsInv, JoinersWait
<1> QED BY <1>1, ThreadsInvHolds, PTL

-----------------------------------------------------------------------------
\* The composition: a behaviour of all is one of each part.
LEMMA UserCallsParts == UserCallsSpec => FilesSpec /\ ThreadsSpec /\ ConsoleSpec /\ SpinSpec
<1> DEFINE vars == <<part, filesVars, threadsVars, consoleVars, spinVars>>
<1>1. UserCallsInit => FilesInit /\ ThreadsInit /\ ConsoleInit /\ SpinInit
  BY DEF UserCallsInit
<1>2. [UserCallsNext]_vars => /\ [FilesNext]_filesVars /\ [ThreadsNext]_threadsVars
                              /\ [ConsoleNext]_consoleVars /\ [SpinNext]_spinVars
  <2>1. UserCallsNext => /\ [FilesNext]_filesVars /\ [ThreadsNext]_threadsVars
                         /\ [ConsoleNext]_consoleVars /\ [SpinNext]_spinVars
    BY DEF UserCallsNext
  <2>2. UNCHANGED vars => UNCHANGED filesVars /\ UNCHANGED threadsVars /\ UNCHANGED consoleVars /\ UNCHANGED spinVars
    OBVIOUS
  <2> QED BY <2>1, <2>2
<1> QED BY <1>1, <1>2, PTL DEF UserCallsSpec, FilesSpec, ThreadsSpec, ConsoleSpec, SpinSpec

\* The types of everything that MCUserCalls composes, for every value of its constants.
THEOREM UserCallsTyped == UserCallsSpec => []UserCallsTypeOK
<1>1. FilesTypeOK /\ ThreadsTypeOK /\ ConsoleTypeOK /\ SpinTypeOK => UserCallsTypeOK
  BY DEF UserCallsTypeOK
<1> QED BY <1>1, UserCallsParts, FilesTyped, ThreadsTyped, ConsoleTyped, SpinTypesHold, PTL
=============================================================================
