------------------------------ MODULE MlfqProofs ------------------------------
(***************************************************************************)
(* Proofs about Mlfq.tla: with any number of processes and CPUs, whatever  *)
(* system calls they make, no process ever runs on two CPUs, although a    *)
(* queue may hold a process several times.                                 *)
(*                                                                         *)
(* OneCpu is not inductive alone: a step must know that the fields of the  *)
(* table are there and that lockedProc is a slot of it.  The queues need   *)
(* no types, for scheduler() tests the state of whatever it takes out.     *)
(***************************************************************************)
EXTENDS Mlfq, TLAPS

Fields == {"state", "qLevel", "priority", "runTime", "l2Time", "isSchedLocked", "killed"}

Parts == {"proc", "mlfq", "lockedProc"}

Table(P) == DOMAIN P = Procs /\ \A p \in Procs : DOMAIN P[p] = Fields

Slots == Procs \cup {NoProc}

TurnInv ==
  /\ Table(proc)
  /\ lockedProc \in Slots
  /\ running \in [CPUs -> Slots]
  /\ OneCpu

\* What scheduler(), a boost, a quantum and an unlock do to the table leaves the
\* states of the processes alone.
StatesKept(s) ==
  /\ DOMAIN s = Parts
  /\ Table(s.proc)
  /\ \A q \in Procs : s.proc[q].state = proc[q].state
  /\ s.lockedProc \in Slots

-----------------------------------------------------------------------------
LEMMA SystemKept == ASSUME TurnInv PROVE StatesKept(System)
BY DEF TurnInv, StatesKept, System, Parts

LEMMA RenewedKept ==
  ASSUME NEW P, NEW S, Table(P)
  PROVE  /\ Table(RenewAll(P, S))
         /\ \A q \in Procs : RenewAll(P, S)[q].state = P[q].state
BY DEF Table, RenewAll, Renewed, Fields

LEMMA UnlockedKept ==
  ASSUME TurnInv, NEW p \in Procs
  PROVE  StatesKept(Unlocked(System, p))
<1> DEFINE q == IF lockedProc # NoProc THEN lockedProc ELSE p
<1>1. q \in Procs
  BY DEF TurnInv, Slots
<1>2. CASE ~proc[q].isSchedLocked
  BY <1>2, SystemKept DEF Unlocked, System
<1>3. CASE proc[q].isSchedLocked
  <2> DEFINE P == [proc EXCEPT ![q].runTime = 0, ![q].priority = TopPriority,
                               ![q].isSchedLocked = FALSE]
  <2>1. /\ Unlocked(System, p).proc = P
        /\ Unlocked(System, p).lockedProc = NoProc
        /\ DOMAIN Unlocked(System, p) = Parts
    BY <1>3 DEF Unlocked, System, Parts
  <2>2. Table(P) /\ \A r \in Procs : P[r].state = proc[r].state
    BY <1>1 DEF TurnInv, Table, Fields
  <2> QED BY <2>1, <2>2 DEF StatesKept, Slots
<1> QED BY <1>2, <1>3

LEMMA BoostedKept ==
  ASSUME TurnInv, NEW p \in Procs
  PROVE  StatesKept(Boosted(System, p))
<1> DEFINE u == IF proc[p].isSchedLocked THEN Unlocked(System, p) ELSE System
           l0 == EnQueue(u.mlfq.L0, p)
           P == RenewAll(u.proc, {p} \cup Members(l0) \cup Members(u.mlfq.L1))
           m == [u.mlfq EXCEPT !.gTicks = 0, !.L0 = MoveAll(u.mlfq.L1, l0), !.L1 = <<>>]
<1>1. StatesKept(u)
  BY UnlockedKept, SystemKept
<1>2. Table(P) /\ \A q \in Procs : P[q].state = u.proc[q].state
  BY <1>1, RenewedKept DEF StatesKept
<1>3. /\ Table(RenewAll(P, Members(m.L2)))
      /\ \A q \in Procs : RenewAll(P, Members(m.L2))[q].state = P[q].state
  BY <1>2, RenewedKept
<1>4. /\ Boosted(System, p).proc = RenewAll(P, Members(m.L2))
      /\ Boosted(System, p).lockedProc = u.lockedProc
      /\ DOMAIN Boosted(System, p) = Parts
  <2> DEFINE P2 == RenewAll(P, Members(m.L2))
  <2> DEFINE M2 == PqMoveAll(m, P, p)
  <2>1. Boosted(System, p) = [proc |-> P2, mlfq |-> M2, lockedProc |-> u.lockedProc]
    <3>1. System.proc = proc
      BY DEF System
    <3> QED BY <3>1, Zenon DEF Boosted
  <2> HIDE DEF P2, M2, u
  <2>2. /\ Boosted(System, p).proc = P2 /\ Boosted(System, p).lockedProc = u.lockedProc
        /\ DOMAIN Boosted(System, p) = Parts
    BY <2>1 DEF Parts
  <2> QED BY <2>2 DEF P2
<1> HIDE DEF u, P, m, l0
<1> QED BY <1>1, <1>2, <1>3, <1>4 DEF StatesKept

LEMMA TickedKept ==
  ASSUME NEW r, NEW now, DOMAIN r = Fields
  PROVE  DOMAIN Ticked(r, now) = Fields /\ Ticked(r, now).state = r.state
BY DEF Ticked, Fields

LEMMA ChargedKept ==
  ASSUME TurnInv, NEW p \in Procs, NEW m
  PROVE  StatesKept(Charged([proc |-> proc, mlfq |-> m, lockedProc |-> lockedProc], p))
<1> DEFINE s == [proc |-> proc, mlfq |-> m, lockedProc |-> lockedProc]
           P == [proc EXCEPT ![p] = Ticked(proc[p], m.gTicks)]
<1>1. CASE proc[p].isSchedLocked
  BY <1>1 DEF Charged, StatesKept, TurnInv, Parts
<1>2. CASE ~proc[p].isSchedLocked
  <2>1. /\ Charged(s, p).proc = P /\ Charged(s, p).lockedProc = lockedProc
        /\ DOMAIN Charged(s, p) = Parts
    BY <1>2 DEF Charged, Parts
  <2>2. Table(P) /\ \A q \in Procs : P[q].state = proc[q].state
    BY TickedKept DEF TurnInv, Table
  <2> QED BY <2>1, <2>2 DEF StatesKept, TurnInv
<1> QED BY <1>1, <1>2

\* Putting a process back changes no process.
LEMMA PutBackKept ==
  ASSUME NEW s, NEW p \in Procs, NEW l,
         DOMAIN s = Parts, s.lockedProc \in Slots
  PROVE  PutBack(s, p, l).proc = s.proc /\ PutBack(s, p, l).lockedProc \in Slots
BY DEF PutBack, Slots, Parts

-----------------------------------------------------------------------------
\* The actions, by what they do to the states and to the CPUs.

\* A CPU takes a process that can run.
LEMMA StartKeeps ==
  ASSUME TurnInv, NEW c \in CPUs, NEW p \in Procs, NEW l,
         running[c] = NoProc, proc[p].state = "RUNNABLE", Start(c, p, l)
  PROVE  TurnInv'
<1>1. Table(proc') /\ lockedProc' \in Slots /\ running' \in [CPUs -> Slots]
  BY DEF Start, TurnInv, Table, Slots, Fields
<1>2. /\ proc'[p].state = "RUNNING"
      /\ \A q \in Procs \ {p} : proc'[q].state = proc[q].state
  BY DEF Start, TurnInv, Table, Fields
<1>3. /\ running'[c] = p
      /\ \A d \in CPUs \ {c} : running'[d] = running[d] /\ running[d] # p
  BY DEF Start, TurnInv, OneCpu
<1>4. OneCpu'
  BY <1>2, <1>3, ProcsAssumption DEF TurnInv, OneCpu
<1> QED BY <1>1, <1>4 DEF TurnInv

\* A CPU gives its process up.
LEMMA EndTurnKeeps ==
  ASSUME TurnInv, NEW c \in CPUs, running[c] # NoProc, NEW s, StatesKept(s),
         NEW state, state # "RUNNING", EndTurn(c, s, state)
  PROVE  TurnInv'
<1> DEFINE p == running[c]
           t == [s EXCEPT !.proc[p].state = state]
<1>1. p \in Procs
  BY DEF TurnInv, Slots
<1>2. /\ DOMAIN t = Parts
      /\ Table(t.proc) /\ t.lockedProc \in Slots
      /\ t.proc[p].state = state
      /\ \A q \in Procs \ {p} : t.proc[q].state = proc[q].state
  BY <1>1 DEF StatesKept, Table, Fields, Parts
<1>3. /\ proc' = t.proc /\ lockedProc' \in Slots
      /\ running' = [running EXCEPT ![c] = NoProc]
  <2>1. /\ proc' = PutBack(t, p, from[c]).proc
        /\ lockedProc' = PutBack(t, p, from[c]).lockedProc
        /\ running' = [running EXCEPT ![c] = NoProc]
    BY DEF EndTurn, Become
  <2> QED BY <2>1, <1>1, <1>2, PutBackKept
<1>4. Table(proc') /\ running' \in [CPUs -> Slots]
  BY <1>2, <1>3 DEF TurnInv, Slots
<1> HIDE DEF t
<1>5. OneCpu'
  BY <1>1, <1>2, <1>3, ProcsAssumption DEF TurnInv, OneCpu
<1> QED BY <1>3, <1>4, <1>5 DEF TurnInv

\* No CPU changes, and no process starts or stops RUNNING.
LEMMA OthersKeep ==
  ASSUME TurnInv, Table(proc'), lockedProc' \in Slots, UNCHANGED running,
         \A q \in Procs : proc'[q].state = "RUNNING" <=> proc[q].state = "RUNNING"
  PROVE  TurnInv'
BY DEF TurnInv, OneCpu

LEMMA BecomeKeeps ==
  ASSUME TurnInv, NEW s, StatesKept(s), Become(s), UNCHANGED running
  PROVE  TurnInv'
BY OthersKeep DEF Become, StatesKept

LEMMA TakeKeeps ==
  ASSUME TurnInv, NEW c \in CPUs, NEW p \in Procs, NEW l, NEW m,
         running[c] = NoProc, Take(c, p, l, m)
  PROVE  TurnInv'
<1> DEFINE s == [System EXCEPT !.mlfq = m]
<1>1. CASE proc[p].state = "RUNNABLE" /\ Start(c, p, l)
  BY <1>1, StartKeeps
<1>2. CASE Become(PutBack(s, p, l)) /\ UNCHANGED running
  <2>1. /\ DOMAIN s = Parts
        /\ s.proc = proc /\ s.lockedProc \in Slots
    BY DEF System, TurnInv, Parts
  <2>2. proc' = proc /\ lockedProc' \in Slots
    BY <1>2, <2>1, PutBackKept DEF Become
  <2> QED BY <1>2, <2>2, OthersKeep DEF TurnInv
<1> QED BY <1>1, <1>2 DEF Take

-----------------------------------------------------------------------------
LEMMA InitTurn == Init => TurnInv
<1> SUFFICES ASSUME Init PROVE TurnInv
  OBVIOUS
<1>1. Table(proc)
  BY DEF Init, NewProc, Table, Fields
<1>2. \A p \in Procs : proc[p].state # "RUNNING"
  BY DEF Init, NewProc
<1>3. lockedProc \in Slots /\ running \in [CPUs -> Slots]
  BY DEF Init, Slots
<1>4. OneCpu
  BY <1>2, ProcsAssumption DEF Init, OneCpu
<1> QED BY <1>1, <1>3, <1>4 DEF TurnInv

LEMMA ScheduleKeeps ==
  ASSUME TurnInv, NEW c \in CPUs, Schedule(c)
  PROVE  TurnInv'
<1>1. ASSUME RunLocked(c) PROVE TurnInv'
  <2>1. lockedProc \in Procs
    BY <1>1 DEF RunLocked, TurnInv, Slots
  <2> QED BY <1>1, <2>1, StartKeeps DEF RunLocked, Free
<1>2. ASSUME UnlockZombie(c) PROVE TurnInv'
  <2>1. lockedProc \in Procs
    BY <1>2 DEF UnlockZombie, TurnInv, Slots
  <2> QED BY <1>2, <2>1, UnlockedKept, BecomeKeeps DEF UnlockZombie
<1>3. ASSUME RunL0(c) PROVE TurnInv'
  BY <1>3, TakeKeeps DEF RunL0, Free
<1>4. ASSUME RunL1(c) PROVE TurnInv'
  BY <1>4, TakeKeeps DEF RunL1, Free
<1>5. ASSUME RunL2(c) PROVE TurnInv'
  BY <1>5, TakeKeeps DEF RunL2, Free
<1> QED BY <1>1, <1>2, <1>3, <1>4, <1>5 DEF Schedule

LEMMA YieldKeeps ==
  ASSUME TurnInv, NEW c \in CPUs, Yield(c)
  PROVE  TurnInv'
<1>1. running[c] # NoProc /\ running[c] \in Procs
  BY DEF Yield, TurnInv, Slots
<1>2. ASSUME EndTurn(c, [Boosted(System, running[c]) EXCEPT !.mlfq.gTicks = @ + 1],
                     "RUNNABLE")
      PROVE  TurnInv'
  <2>1. StatesKept([Boosted(System, running[c]) EXCEPT !.mlfq.gTicks = @ + 1])
    BY <1>1, BoostedKept DEF StatesKept, Parts
  <2> QED BY <1>1, <1>2, <2>1, EndTurnKeeps
<1>3. ASSUME EndTurn(c, Charged([System EXCEPT !.mlfq.gTicks = @ + 1], running[c]),
                     "RUNNABLE")
      PROVE  TurnInv'
  <2> DEFINE m == [mlfq EXCEPT !.gTicks = @ + 1]
  <2>1. [System EXCEPT !.mlfq.gTicks = @ + 1]
          = [proc |-> proc, mlfq |-> m, lockedProc |-> lockedProc]
    BY DEF System
  <2>2. StatesKept(Charged([System EXCEPT !.mlfq.gTicks = @ + 1], running[c]))
    BY <1>1, <2>1, ChargedKept
  <2> QED BY <1>1, <1>3, <2>2, EndTurnKeeps
<1> QED BY <1>2, <1>3 DEF Yield

\* sleep() and exit().
LEMMA StopKeeps ==
  ASSUME TurnInv, NEW c \in CPUs, Sleep(c) \/ Exit(c)
  PROVE  TurnInv'
BY EndTurnKeeps, SystemKept DEF Sleep, Exit

\* A system call writes fields of one process and does not run or stop it.
LEMMA FieldsKeep ==
  ASSUME TurnInv, NEW p \in Procs, NEW r, proc' = [proc EXCEPT ![p] = r],
         DOMAIN r = Fields, r.state = "RUNNING" <=> proc[p].state = "RUNNING",
         lockedProc' \in Slots, UNCHANGED running
  PROVE  TurnInv'
<1>1. Table(proc')
  BY DEF TurnInv, Table
<1>2. \A q \in Procs : proc'[q].state = "RUNNING" <=> proc[q].state = "RUNNING"
  BY DEF TurnInv, Table
<1> QED BY <1>1, <1>2, OthersKeep

LEMMA SyscallKeeps ==
  ASSUME TurnInv, NEW c \in CPUs, Syscall(c)
  PROVE  TurnInv'
<1>0. /\ \A p \in Procs : DOMAIN proc[p] = Fields
      /\ lockedProc \in Slots /\ running[c] \in Slots
      /\ DOMAIN proc = Procs
  BY DEF TurnInv, Table
<1>1. ASSUME NEW p \in Procs, Fork(c, p) PROVE TurnInv'
  <2> DEFINE r == [NewProc("EMBRYO") EXCEPT !.killed = proc[p].killed]
  <2>1. DOMAIN r = Fields /\ r.state = "EMBRYO"
    BY DEF NewProc, Fields
  <2> QED BY <1>0, <1>1, <2>1, FieldsKeep DEF Fork
<1>2. ASSUME NEW p \in Procs, Reap(c, p) PROVE TurnInv'
  <2> DEFINE r == [proc[p] EXCEPT !.state = "UNUSED", !.killed = FALSE]
  <2>1. DOMAIN r = Fields /\ r.state = "UNUSED"
    BY <1>0 DEF Fields
  <2>2. proc' = [proc EXCEPT ![p] = r]
    BY <1>0, <1>2 DEF Reap
  <2> QED BY <1>0, <1>2, <2>1, <2>2, FieldsKeep DEF Reap
<1>3. ASSUME NEW p \in Procs, Kill(c, p) PROVE TurnInv'
  <2>1. /\ DOMAIN Killed(proc[p]) = Fields
        /\ Killed(proc[p]).state = "RUNNING" <=> proc[p].state = "RUNNING"
    BY <1>0 DEF Killed, Fields
  <2>2. proc' = [proc EXCEPT ![p] = Killed(proc[p])]
    BY <1>3 DEF Kill
  <2> QED BY <1>0, <1>3, <2>1, <2>2, FieldsKeep DEF Kill
<1>4. ASSUME NEW p \in Procs, WrongPassword(c, p) PROVE TurnInv'
  <2> DEFINE r == [proc[p] EXCEPT !.isSchedLocked = FALSE]
  <2>1. DOMAIN r = Fields /\ r.state = proc[p].state
    BY <1>0 DEF Fields
  <2>2. /\ DOMAIN Killed(r) = Fields
        /\ Killed(r).state = "RUNNING" <=> proc[p].state = "RUNNING"
    BY <2>1 DEF Killed, Fields
  <2>3. proc' = [proc EXCEPT ![p] = Killed(r)]
    BY <1>4 DEF WrongPassword
  <2> QED BY <1>0, <1>4, <2>2, <2>3, FieldsKeep DEF WrongPassword
<1>5. ASSUME NEW p \in Procs, NEW n \in Priorities, SetPriority(c, p, n)
      PROVE  TurnInv'
  <2> DEFINE r == [proc[p] EXCEPT !.priority = n]
  <2>1. DOMAIN r = Fields /\ r.state = proc[p].state
    BY <1>0 DEF Fields
  <2>2. proc' = [proc EXCEPT ![p] = r]
    BY <1>0, <1>5 DEF SetPriority
  <2> QED BY <1>0, <1>5, <2>1, <2>2, FieldsKeep DEF SetPriority
<1>6. ASSUME SchedulerLock(c) PROVE TurnInv'
  <2> DEFINE p == running[c]
             r == [proc[p] EXCEPT !.isSchedLocked = TRUE]
  <2>1. p \in Procs
    BY <1>0, <1>6 DEF SchedulerLock, Slots
  <2>2. DOMAIN r = Fields /\ r.state = proc[p].state
    BY <1>0, <2>1 DEF Fields
  <2>3. proc' = [proc EXCEPT ![p] = r] /\ lockedProc' = p /\ UNCHANGED running
    BY <1>0, <1>6, <2>1 DEF SchedulerLock
  <2> QED BY <1>0, <2>1, <2>2, <2>3, FieldsKeep DEF Slots
<1>7. ASSUME SchedulerUnlock(c) PROVE TurnInv'
  <2>1. running[c] \in Procs
    BY <1>0, <1>7 DEF SchedulerUnlock, Slots
  <2> QED BY <1>7, <2>1, UnlockedKept, BecomeKeeps DEF SchedulerUnlock
<1> QED BY <1>1, <1>2, <1>3, <1>4, <1>5, <1>6, <1>7 DEF Syscall

LEMMA WakeupKeeps ==
  ASSUME TurnInv, NEW p \in Procs,
         Wakeup(p) \/ \E s \in {"RUNNABLE", "UNUSED"} : ForkEnd(p, s)
  PROVE  TurnInv'
<1>1. PICK s \in {"RUNNABLE", "UNUSED"} :
        /\ proc' = [proc EXCEPT ![p].state = s] /\ proc[p].state # "RUNNING"
        /\ UNCHANGED <<lockedProc, running>>
  BY DEF Wakeup, ForkEnd
<1> DEFINE r == [proc[p] EXCEPT !.state = s]
<1>2. DOMAIN r = Fields /\ r.state = s /\ proc' = [proc EXCEPT ![p] = r]
  BY <1>1 DEF TurnInv, Table, Fields
<1> QED BY <1>1, <1>2, FieldsKeep DEF TurnInv

LEMMA NextKeeps == TurnInv /\ [Next]_vars => TurnInv'
<1> SUFFICES ASSUME TurnInv, [Next]_vars PROVE TurnInv'
  OBVIOUS
<1>1. CASE UNCHANGED vars
  BY <1>1 DEF vars, TurnInv, OneCpu, Table
<1>2. CASE Next
  BY <1>2, ScheduleKeeps, YieldKeeps, StopKeeps, SyscallKeeps, WakeupKeeps DEF Next
<1> QED BY <1>1, <1>2

\* scheduler() never gives a process to a CPU while another one runs it, however
\* often boosts, unlocks and forks have put it into the queues: proc.c:371-469
\* starts only what is RUNNABLE, and holds ptable.lock.
THEOREM RunsOnOneCpu == Spec => []OneCpu
<1>1. Init => TurnInv
  BY InitTurn
<1>2. TurnInv /\ [Next]_vars => TurnInv'
  BY NextKeeps
<1>3. TurnInv => OneCpu
  BY DEF TurnInv
<1> QED BY <1>1, <1>2, <1>3, PTL DEF Spec
===============================================================================
