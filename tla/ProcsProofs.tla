------------------------------ MODULE ProcsProofs -----------------------------
(***************************************************************************)
(* Proofs about Procs.tla and Memory.tla: with any number of slots and     *)
(* CPUs, no process sleeps without a cause, and a process is RUNNING       *)
(* exactly when a CPU has it; and the pages of memory are conserved.       *)
(*                                                                         *)
(* NoSleepWithoutCause is not inductive alone.  exit() must know that the  *)
(* process whose children it gives away is not its own parent and that     *)
(* init never becomes a zombie; fork() that the slot it fills is still its *)
(* own (Forking), and that linking it to its parent takes no child from    *)
(* anyone (Fresh).                                                         *)
(***************************************************************************)
EXTENDS Procs, Memory, Induction, FiniteSetTheorems, TLAPS, WellFoundedInduction

States == {"UNUSED", "EMBRYO", "SLEEPING", "RUNNABLE", "RUNNING", "ZOMBIE"}
Places == {"user", "fork", "wait", "waitlk", "testing", "wakelk"}

Slot == [state : States, parent : ProcSlots \cup {NoOne}, killed : BOOLEAN,
         chan : ProcSlots \cup {NoChan, Chan}]

Types ==
  /\ proc \in [ProcSlots -> Slot]
  /\ cpu \in [CPUs -> ProcSlots \cup {NoOne}]
  /\ ppc \in [ProcSlots -> Places]
  /\ np \in [ProcSlots -> ProcSlots \cup {NoOne}]
  /\ lk \in ProcSlots \cup {NoOne}
  /\ ready \in BOOLEAN

\* A process that a CPU has is RUNNING, and no other is.
OnCpu == \A p \in ProcSlots : (proc[p].state = "RUNNING") <=> (\E c \in CPUs : cpu[c] = p)

\* A slot that is not a process yet has no parent; what is not alive is nowhere
\* in the kernel.
Fresh ==
  \A p \in ProcSlots :
    /\ proc[p].state \in {"UNUSED", "EMBRYO"} => proc[p].parent = NoOne
    /\ proc[p].state \in {"UNUSED", "EMBRYO", "ZOMBIE"} => ppc[p] = "user"

\* The slot between allocproc() and the end of fork() belongs to one process.
Forking ==
  \A p \in ProcSlots : ppc[p] = "fork" =>
    /\ np[p] \in ProcSlots /\ proc[np[p]].state = "EMBRYO"
    /\ \A q \in ProcSlots : (ppc[q] = "fork" /\ np[q] = np[p]) => q = p

InitLives ==
  /\ proc[initproc].state \notin {"UNUSED", "EMBRYO", "ZOMBIE"}
  /\ proc[initproc].parent = NoOne

NotOwnParent == \A p \in ProcSlots : proc[p].parent # p

ProcsInv == Types /\ OnCpu /\ Fresh /\ Forking /\ InitLives /\ NotOwnParent /\ NoSleepWithoutCause

-----------------------------------------------------------------------------
\* A set of slots that is not empty has a least one: Min, in allocproc() and wait().
LEMMA LeastSlot ==
  ASSUME NEW S, S \subseteq ProcSlots, S # {}
  PROVE  Min(S) \in S
<1> DEFINE R == OpToRel(<, Nat)
<1>1. IsWellFoundedOn(R, Nat)
  BY NatLessThanWellFounded
<1>2. S \subseteq Nat
  BY ProcsAssumption DEF ProcSlots
<1>3. \A x \in S, y \in S : y < x => <<y, x>> \in R
  <2>1. TAKE x \in S, y \in S
  <2>2. x \in Nat /\ y \in Nat
    BY <1>2
  <2>3. HAVE y < x
  <2> QED BY <2>2, <2>3 DEF OpToRel
<1> HIDE DEF R
<1>4. \E x \in S : \A y \in S : ~ (<<y, x>> \in R)
  BY <1>1, <1>2, WFMin
<1>5. \E x \in S : \A y \in S : ~(y < x)
  BY <1>3, <1>4, Zenon
<1>6. \E x \in S : \A y \in S : x <= y
  BY <1>2, <1>5
<1> QED BY <1>6, Zenon DEF Min

LEMMA SlotsAreNumbers ==
  /\ ProcSlots \subseteq Nat \ {0} /\ initproc \in ProcSlots
  /\ Chan \notin ProcSlots /\ NoOne \notin ProcSlots /\ NoChan \notin ProcSlots /\ Chan # NoChan
BY ProcsAssumption DEF ProcSlots, initproc, Chan, NoOne, NoChan

LEMMA InitHolds == ProcsInit => ProcsInv
<1> SUFFICES ASSUME ProcsInit PROVE ProcsInv
  OBVIOUS
<1> USE SlotsAreNumbers
<1>1. Types
  BY DEF ProcsInit, Types, Unused, Slot, States, Places
<1>2. \A p \in ProcSlots : /\ proc[p].state = IF p = initproc THEN "RUNNABLE" ELSE "UNUSED"
                           /\ proc[p].parent = NoOne /\ ppc[p] = "user"
  BY DEF ProcsInit, Unused
<1>3. OnCpu
  BY <1>2 DEF OnCpu, ProcsInit
<1>4. Fresh /\ Forking /\ InitLives /\ NotOwnParent /\ NoSleepWithoutCause
  BY <1>2 DEF Fresh, Forking, InitLives, NotOwnParent, NoSleepWithoutCause
<1> QED BY <1>1, <1>3, <1>4 DEF ProcsInv

-----------------------------------------------------------------------------
\* The actions.  Those that move one RUNNING process and leave the table, the
\* CPUs and the forks alone.
LEMMA MoveKeeps ==
  ASSUME ProcsInv, NEW p \in ProcSlots, AcquireLk(p) \/ Proceed(p) \/ Produce(p)
  PROVE  ProcsInv'
<1> USE SlotsAreNumbers
<1>1. /\ UNCHANGED <<proc, cpu, np>> /\ proc[p].state = "RUNNING"
      /\ ppc[p] \in {"user", "waitlk", "testing"}
      /\ lk' \in {lk, p, NoOne}
  BY DEF AcquireLk, Proceed, Produce, On
<1>2. PICK pc \in {"user", "waitlk", "testing", "wakelk"} : ppc' = [ppc EXCEPT ![p] = pc]
  BY DEF AcquireLk, Proceed, Produce, At
<1>3. ready' \in BOOLEAN
  BY DEF AcquireLk, Proceed, Produce, ProcsInv, Types
<1>4. ready' => (ready \/ ppc'[p] = "wakelk")
  <2>1. AcquireLk(p) => (ready' <=> ready)
    BY DEF AcquireLk
  <2>2. Proceed(p) => ~ready'
    BY DEF Proceed
  <2>3. Produce(p) => ppc'[p] = "wakelk"
    BY DEF Produce, At, ProcsInv, Types
  <2> QED BY <2>1, <2>2, <2>3
<1>5. Types'
  BY <1>1, <1>2, <1>3 DEF ProcsInv, Types, Places
<1>6. OnCpu' /\ InitLives' /\ NotOwnParent'
  BY <1>1 DEF ProcsInv, OnCpu, InitLives, NotOwnParent
<1>7. Fresh' /\ Forking'
  BY <1>1, <1>2 DEF ProcsInv, Types, Fresh, Forking
<1>8. NoSleepWithoutCause'
  BY <1>1, <1>2, <1>4 DEF ProcsInv, Types, NoSleepWithoutCause, Kids, WaitChan
<1> QED BY <1>5, <1>6, <1>7, <1>8 DEF ProcsInv

LEMMA RunKeeps ==
  ASSUME ProcsInv, NEW c \in CPUs, NEW p \in ProcSlots, Run(c, p)
  PROVE  ProcsInv'
<1> USE SlotsAreNumbers
<1> DEFINE r == [proc[p] EXCEPT !.state = "RUNNING", !.chan = NoChan]
<1>1. /\ proc[p].state = "RUNNABLE" /\ cpu[c] = NoOne
      /\ UNCHANGED <<ppc, np, lk, ready>> /\ cpu' = [cpu EXCEPT ![c] = p]
  BY DEF Run
<1>2. proc' = [proc EXCEPT ![p] = r]
  BY DEF Run, ProcsInv, Types, Slot
<1>3. /\ r \in Slot /\ r.state = "RUNNING"
      /\ r.parent = proc[p].parent
  BY DEF ProcsInv, Types, Slot, States
<1> HIDE DEF r
<1>4. proc'[p] = r /\ \A q \in ProcSlots \ {p} : proc'[q] = proc[q]
  BY <1>2 DEF ProcsInv, Types
<1>5. Types'
  BY <1>1, <1>2, <1>3 DEF ProcsInv, Types
<1>6. OnCpu'
  <2>1. cpu'[c] = p /\ \A d \in CPUs \ {c} : cpu'[d] = cpu[d]
    BY <1>1 DEF ProcsInv, Types
  <2> QED BY <2>1, <1>1, <1>3, <1>4 DEF ProcsInv, OnCpu
<1>7. Fresh' /\ Forking' /\ InitLives' /\ NotOwnParent'
  <2>1. Fresh'
    BY <1>1, <1>3, <1>4 DEF ProcsInv, Fresh
  <2>2. Forking'
    BY <1>1, <1>3, <1>4 DEF ProcsInv, Forking
  <2>3. InitLives'
    BY <1>1, <1>3, <1>4 DEF ProcsInv, InitLives
  <2>4. NotOwnParent'
    BY <1>3, <1>4 DEF ProcsInv, NotOwnParent
  <2> QED BY <2>1, <2>2, <2>3, <2>4
<1>8. \A q \in ProcSlots : Kids(q)' = Kids(q)
  BY <1>3, <1>4 DEF Kids
<1>9. NoSleepWithoutCause'
  <2> SUFFICES ASSUME NEW q \in ProcSlots, proc'[q].state = "SLEEPING"
               PROVE  \/ /\ proc'[q].chan = WaitChan(q) /\ ~proc'[q].killed
                         /\ Kids(q)' # {} /\ \A k \in Kids(q)' : proc'[k].state # "ZOMBIE"
                      \/ proc'[q].chan = Chan /\ (ready' => \E k \in ProcSlots : ppc'[k] = "wakelk")
    BY DEF NoSleepWithoutCause, WaitChan
  <2>1. q # p /\ proc'[q] = proc[q] /\ Kids(q)' = Kids(q)
    BY <1>3, <1>4, <1>8
  <2>2. \A k \in Kids(q) : proc[k].state # "ZOMBIE" => proc'[k].state # "ZOMBIE"
    BY <1>3, <1>4 DEF Kids
  <2> QED BY <1>1, <2>1, <2>2 DEF ProcsInv, NoSleepWithoutCause
<1> QED BY <1>5, <1>6, <1>7, <1>9 DEF ProcsInv

\* A CPU gives up its process: the timer, sleep(), wait() that sleeps.
LEMMA OffCpu ==
  ASSUME ProcsInv, NEW p \in ProcSlots, Sched(p), proc' \in [ProcSlots -> Slot],
         proc'[p].state # "RUNNING",
         \A q \in ProcSlots \ {p} : proc'[q].state = "RUNNING" <=> proc[q].state = "RUNNING"
  PROVE  OnCpu' /\ cpu' \in [CPUs -> ProcSlots \cup {NoOne}]
BY SlotsAreNumbers DEF ProcsInv, Types, OnCpu, Sched

LEMMA StopKeeps ==
  ASSUME ProcsInv, NEW p \in ProcSlots, NEW r \in Slot, NEW pc \in {"user", "fork", "wait", "waitlk"},
         proc[p].state = "RUNNING", ppc[p] # "wakelk",
         r.state \in {"RUNNABLE", "SLEEPING"}, r.parent = proc[p].parent, r.killed = proc[p].killed,
         r.state = "SLEEPING" =>
           \/ /\ r.chan = WaitChan(p) /\ ~proc[p].killed
              /\ Kids(p) # {} /\ \A q \in Kids(p) : proc[q].state # "ZOMBIE"
           \/ r.chan = Chan /\ ~ready,
         pc = "fork" <=> ppc[p] = "fork",
         proc' = [proc EXCEPT ![p] = r], ppc' = [ppc EXCEPT ![p] = pc],
         Sched(p), UNCHANGED <<np, ready>>, lk' \in {lk, NoOne}
  PROVE  ProcsInv'
<1> USE SlotsAreNumbers
<1>1. /\ proc'[p] = r /\ ppc'[p] = pc
      /\ \A q \in ProcSlots \ {p} : proc'[q] = proc[q] /\ ppc'[q] = ppc[q]
  BY DEF ProcsInv, Types
<1>2. proc' \in [ProcSlots -> Slot] /\ ppc' \in [ProcSlots -> Places]
  BY DEF ProcsInv, Types, Places
<1>3. OnCpu' /\ cpu' \in [CPUs -> ProcSlots \cup {NoOne}]
  BY <1>1, <1>2, OffCpu
<1>4. Types'
  BY <1>2, <1>3 DEF ProcsInv, Types
<1>5. Fresh' /\ Forking'
  BY <1>1 DEF ProcsInv, Types, Fresh, Forking
<1>6. InitLives' /\ NotOwnParent'
  BY <1>1 DEF ProcsInv, Types, InitLives, NotOwnParent
<1>7. \A q \in ProcSlots : proc'[q].parent = proc[q].parent
                           /\ (proc'[q].state = "ZOMBIE" <=> proc[q].state = "ZOMBIE")
  BY <1>1
<1>8. \A q \in ProcSlots : Kids(q)' = Kids(q)
  BY <1>7 DEF Kids
<1>9. \A q \in ProcSlots : ppc[q] = "wakelk" => ppc'[q] = "wakelk"
  BY <1>1
<1>10. NoSleepWithoutCause'
  BY <1>1, <1>7, <1>8, <1>9 DEF ProcsInv, NoSleepWithoutCause, WaitChan, Kids
<1> QED BY <1>3, <1>4, <1>5, <1>6, <1>10 DEF ProcsInv

LEMMA YieldKeeps ==
  ASSUME ProcsInv, NEW p \in ProcSlots, Yield(p)
  PROVE  ProcsInv'
<1> DEFINE r == [proc[p] EXCEPT !.state = "RUNNABLE"]
<1>1. r \in Slot /\ r.state = "RUNNABLE" /\ r.parent = proc[p].parent /\ r.killed = proc[p].killed
  BY DEF ProcsInv, Types, Slot, States
<1>2. proc' = [proc EXCEPT ![p] = r] /\ ppc' = [ppc EXCEPT ![p] = ppc[p]]
  BY DEF Yield, ProcsInv, Types
<1>3. proc[p].state = "RUNNING" /\ ppc[p] \in {"user", "fork", "waitlk"}
  BY DEF Yield, On
<1>4. Sched(p) /\ UNCHANGED <<np, lk, ready>>
  BY DEF Yield
<1> HIDE DEF r
<1> QED BY <1>1, <1>2, <1>3, <1>4, StopKeeps

LEMMA SleepKeeps ==
  ASSUME ProcsInv, NEW p \in ProcSlots, Sleep(p)
  PROVE  ProcsInv'
<1> DEFINE r == [proc[p] EXCEPT !.state = "SLEEPING", !.chan = Chan]
<1>1. /\ r \in Slot /\ r.state = "SLEEPING" /\ r.parent = proc[p].parent
      /\ r.killed = proc[p].killed /\ r.chan = Chan
  BY DEF ProcsInv, Types, Slot, States
<1>2. proc' = [proc EXCEPT ![p] = r] /\ ppc' = [ppc EXCEPT ![p] = "waitlk"]
  BY DEF Sleep, At, ProcsInv, Types, Slot
<1>3. proc[p].state = "RUNNING" /\ ppc[p] = "testing" /\ ~ready
  BY DEF Sleep, On
<1>4. Sched(p) /\ UNCHANGED <<np, ready>> /\ lk' = NoOne
  BY DEF Sleep
<1> HIDE DEF r
<1> QED BY <1>1, <1>2, <1>3, <1>4, StopKeeps

\* No fork begins or ends, and no slot in the making changes.
LEMMA ForksKept ==
  ASSUME ProcsInv,
         \A q \in ProcSlots : ppc'[q] = "fork" => ppc[q] = "fork" /\ np'[q] = np[q],
         \A q \in ProcSlots : proc[q].state = "EMBRYO" => proc'[q].state = "EMBRYO"
  PROVE  Forking'
BY DEF ProcsInv, Forking

LEMMA WakeupLkKeeps ==
  ASSUME ProcsInv, NEW p \in ProcSlots, WakeupLk(p)
  PROVE  ProcsInv'
<1> USE SlotsAreNumbers
<1>1. /\ proc[p].state = "RUNNING" /\ ppc[p] = "wakelk"
      /\ ppc' = [ppc EXCEPT ![p] = "user"] /\ lk' = NoOne /\ UNCHANGED <<cpu, np, ready>>
  BY DEF WakeupLk, On, At
<1>2. proc' \in [ProcSlots -> Slot]
  BY DEF WakeupLk, Wakeup1, ProcsInv, Types, Slot, States
<1>3. \A q \in ProcSlots :
        /\ proc'[q].parent = proc[q].parent /\ (proc'[q].killed <=> proc[q].killed)
        /\ proc'[q].chan = proc[q].chan
        /\ proc'[q].state = proc[q].state \/ (proc[q].state = "SLEEPING" /\ proc'[q].state = "RUNNABLE")
        /\ proc'[q].state = "SLEEPING" => proc[q].chan # Chan
  BY DEF WakeupLk, Wakeup1, ProcsInv, Types, Slot
<1>4. Types'
  BY <1>1, <1>2 DEF ProcsInv, Types, Places
<1>5. OnCpu'
  BY <1>1, <1>3 DEF ProcsInv, OnCpu
<1>6. \A q \in ProcSlots : /\ ppc'[q] = ppc[q] \/ (q = p /\ ppc'[q] = "user")
                           /\ np'[q] = np[q]
  BY <1>1 DEF ProcsInv, Types
<1>9. Fresh' /\ InitLives' /\ NotOwnParent'
  <2>1. Fresh'
    BY <1>3, <1>6 DEF ProcsInv, Fresh
  <2>2. InitLives'
    BY <1>3 DEF ProcsInv, InitLives
  <2>3. NotOwnParent'
    BY <1>3 DEF ProcsInv, NotOwnParent
  <2> QED BY <2>1, <2>2, <2>3
<1>10. Forking'
  <2>1. \A q \in ProcSlots : ppc'[q] = "fork" => ppc[q] = "fork" /\ np'[q] = np[q]
    BY <1>6
  <2>2. \A q \in ProcSlots : proc[q].state = "EMBRYO" => proc'[q].state = "EMBRYO"
    BY <1>3
  <2> QED BY <2>1, <2>2, ForksKept
<1>7. \A q \in ProcSlots : Kids(q)' = Kids(q)
  BY <1>3 DEF Kids
<1>8. NoSleepWithoutCause'
  <2>1. SUFFICES ASSUME NEW q \in ProcSlots, proc'[q].state = "SLEEPING"
                 PROVE  /\ proc'[q].chan = q /\ ~proc'[q].killed
                        /\ Kids(q)' # {} /\ \A k \in Kids(q)' : proc'[k].state # "ZOMBIE"
    BY DEF NoSleepWithoutCause, WaitChan
  <2>2. /\ proc[q].chan = q /\ ~proc[q].killed
        /\ Kids(q) # {} /\ \A k \in Kids(q) : proc[k].state # "ZOMBIE"
    BY <1>3, <2>1 DEF ProcsInv, NoSleepWithoutCause, WaitChan
  <2>3. \A k \in Kids(q) : k \in ProcSlots
    BY DEF Kids
  <2>4. proc'[q].chan = q /\ ~proc'[q].killed
    BY <1>3, <2>2
  <2>5. Kids(q)' # {}
    BY <1>7, <2>2
  <2>6. \A k \in ProcSlots : proc'[k].state = "ZOMBIE" => proc[k].state = "ZOMBIE"
    BY <1>3
  <2>7. \A k \in Kids(q) : proc'[k].state # "ZOMBIE"
    BY <2>2, <2>3, <2>6
  <2> QED BY <1>7, <2>4, <2>5, <2>7
<1> QED BY <1>4, <1>5, <1>9, <1>10, <1>8 DEF ProcsInv

LEMMA KillKeeps ==
  ASSUME ProcsInv, NEW p \in ProcSlots, NEW q \in ProcSlots, KillProc(p, q)
  PROVE  ProcsInv'
<1> USE SlotsAreNumbers
<1> DEFINE r == [proc[q] EXCEPT !.killed = TRUE,
                                !.state = IF @ = "SLEEPING" THEN "RUNNABLE" ELSE @]
<1>1. /\ r \in Slot /\ r.state # "SLEEPING" /\ r.parent = proc[q].parent
      /\ r.state = proc[q].state \/ (proc[q].state = "SLEEPING" /\ r.state = "RUNNABLE")
  BY DEF ProcsInv, Types, Slot, States
<1>2. proc' = [proc EXCEPT ![q] = r] /\ UNCHANGED <<cpu, ppc, np, lk, ready>>
  BY DEF KillProc, ProcsInv, Types, Slot
<1> HIDE DEF r
<1>3. proc'[q] = r /\ \A s \in ProcSlots \ {q} : proc'[s] = proc[s]
  BY <1>2 DEF ProcsInv, Types
<1>4. Types'
  BY <1>1, <1>2 DEF ProcsInv, Types
<1>5. OnCpu'
  BY <1>1, <1>2, <1>3 DEF ProcsInv, OnCpu
<1>6. Fresh' /\ Forking' /\ InitLives' /\ NotOwnParent'
  BY <1>1, <1>2, <1>3 DEF ProcsInv, Types, Fresh, Forking, InitLives, NotOwnParent
<1>7. \A s \in ProcSlots : Kids(s)' = Kids(s)
  BY <1>1, <1>3 DEF Kids
<1>8. NoSleepWithoutCause'
  BY <1>1, <1>2, <1>3, <1>7 DEF ProcsInv, NoSleepWithoutCause, Kids, WaitChan
<1> QED BY <1>4, <1>5, <1>6, <1>8 DEF ProcsInv

-----------------------------------------------------------------------------
\* fork()

LEMMA ForkAllocKeeps ==
  ASSUME ProcsInv, NEW p \in ProcSlots, ForkAlloc(p)
  PROVE  ProcsInv'
<1> USE SlotsAreNumbers
<1> DEFINE n == Min({q \in ProcSlots : proc[q].state = "UNUSED"})
           r == [proc[n] EXCEPT !.state = "EMBRYO"]
<1>1. n \in ProcSlots /\ proc[n].state = "UNUSED"
  BY LeastSlot DEF ForkAlloc
<1>2. /\ r \in Slot /\ r.state = "EMBRYO" /\ r.parent = proc[n].parent
  BY <1>1 DEF ProcsInv, Types, Slot, States
<1>3. /\ proc' = [proc EXCEPT ![n] = r] /\ np' = [np EXCEPT ![p] = n]
      /\ ppc' = [ppc EXCEPT ![p] = "fork"] /\ UNCHANGED <<cpu, lk, ready>>
      /\ proc[p].state = "RUNNING" /\ ppc[p] = "user"
  BY <1>1 DEF ForkAlloc, At, On, ProcsInv, Types
<1> HIDE DEF n, r
<1>4. /\ proc'[n] = r /\ \A q \in ProcSlots \ {n} : proc'[q] = proc[q]
      /\ ppc'[p] = "fork" /\ \A q \in ProcSlots \ {p} : ppc'[q] = ppc[q] /\ np'[q] = np[q]
      /\ np'[p] = n
  BY <1>1, <1>3 DEF ProcsInv, Types
<1>5. Types'
  BY <1>1, <1>2, <1>3 DEF ProcsInv, Types, Places
<1>6. OnCpu'
  BY <1>1, <1>2, <1>3, <1>4 DEF ProcsInv, OnCpu
<1>7. Fresh'
  BY <1>1, <1>2, <1>3, <1>4 DEF ProcsInv, Fresh
<1>8. Forking'
  BY <1>1, <1>2, <1>3, <1>4 DEF ProcsInv, Forking
<1>9. InitLives' /\ NotOwnParent'
  <2>1. n # initproc
    BY <1>1 DEF ProcsInv, InitLives
  <2>2. \A q \in ProcSlots : proc'[q].parent = proc[q].parent
    BY <1>2, <1>4
  <2> QED BY <1>4, <2>1, <2>2 DEF ProcsInv, InitLives, NotOwnParent
<1>10. \A s \in ProcSlots : Kids(s)' = Kids(s)
  BY <1>2, <1>4 DEF Kids
<1>11. NoSleepWithoutCause'
  BY <1>1, <1>2, <1>3, <1>4, <1>10 DEF ProcsInv, NoSleepWithoutCause, Kids, WaitChan
<1> QED BY <1>5, <1>6, <1>7, <1>8, <1>9, <1>11 DEF ProcsInv

\* The child gets its parent, or the slot is free again.
LEMMA ForkEndKeeps ==
  ASSUME ProcsInv, NEW p \in ProcSlots, ForkDone(p) \/ ForkFail(p)
  PROVE  ProcsInv'
<1> USE SlotsAreNumbers
<1> DEFINE n == np[p]
           child == [proc[n] EXCEPT !.state = "RUNNABLE", !.parent = p]
           none == [proc[n] EXCEPT !.state = "UNUSED"]
<1>1. /\ proc[p].state = "RUNNING" /\ ppc[p] = "fork"
      /\ np' = [np EXCEPT ![p] = NoOne] /\ ppc' = [ppc EXCEPT ![p] = "user"]
      /\ UNCHANGED <<cpu, lk, ready>>
  BY DEF ForkDone, ForkFail, On, At
<1>2. n \in ProcSlots /\ proc[n].state = "EMBRYO" /\ proc[n].parent = NoOne /\ n # p /\ n # initproc
  BY <1>1 DEF ProcsInv, Forking, Fresh, InitLives
<1>3. /\ child \in Slot /\ child.state = "RUNNABLE" /\ child.parent = p
      /\ none \in Slot /\ none.state = "UNUSED" /\ none.parent = NoOne
  <2>1. proc[n] \in Slot /\ proc[n].parent = NoOne /\ p \in ProcSlots
    BY <1>2 DEF ProcsInv, Types
  <2>2. child \in Slot /\ child.state = "RUNNABLE" /\ child.parent = p
    BY <2>1 DEF Slot, States
  <2>3. none \in Slot /\ none.state = "UNUSED" /\ none.parent = NoOne
    BY <2>1 DEF Slot, States
  <2> QED BY <2>2, <2>3
<1>4. PICK r \in {child, none} : proc' = [proc EXCEPT ![n] = r]
  BY <1>2 DEF ForkDone, ForkFail, ProcsInv, Types, Slot
<1> HIDE DEF child, none
<1>5. /\ r \in Slot
      /\ \/ r.state = "RUNNABLE" /\ r.parent = p
         \/ r.state = "UNUSED" /\ r.parent = NoOne
  BY <1>3, <1>4
<1>6. /\ proc'[n] = r /\ \A q \in ProcSlots \ {n} : proc'[q] = proc[q]
      /\ ppc'[p] = "user" /\ \A q \in ProcSlots \ {p} : ppc'[q] = ppc[q] /\ np'[q] = np[q]
  BY <1>1, <1>2, <1>4 DEF ProcsInv, Types
<1> HIDE DEF n
<1>7. Types'
  BY <1>1, <1>2, <1>4, <1>5 DEF ProcsInv, Types, Places
<1>8. OnCpu'
  BY <1>1, <1>2, <1>5, <1>6 DEF ProcsInv, OnCpu
<1>9. Fresh'
  BY <1>1, <1>2, <1>5, <1>6 DEF ProcsInv, Fresh
<1>10. Forking'
  <2>1. SUFFICES ASSUME NEW q \in ProcSlots, ppc'[q] = "fork"
                 PROVE  /\ np'[q] \in ProcSlots /\ proc'[np'[q]].state = "EMBRYO"
                        /\ \A s \in ProcSlots : (ppc'[s] = "fork" /\ np'[s] = np'[q]) => s = q
    BY DEF Forking
  <2>2. q # p /\ ppc[q] = "fork" /\ np'[q] = np[q]
    BY <1>6, <2>1
  <2>3. np[q] # n
    BY <1>1, <2>2 DEF ProcsInv, Forking, n
  <2> QED BY <1>6, <2>2, <2>3 DEF ProcsInv, Forking
<1>11. InitLives' /\ NotOwnParent'
  BY <1>2, <1>5, <1>6 DEF ProcsInv, InitLives, NotOwnParent
<1>12. \A s \in ProcSlots : Kids(s) \subseteq Kids(s)' /\ \A q \in Kids(s)' : q \in Kids(s) \/ q = n
  BY <1>2, <1>5, <1>6 DEF Kids
<1>13. NoSleepWithoutCause'
  BY <1>1, <1>2, <1>5, <1>6, <1>12 DEF ProcsInv, NoSleepWithoutCause, Kids, WaitChan
<1> QED BY <1>7, <1>8, <1>9, <1>10, <1>11, <1>13 DEF ProcsInv

-----------------------------------------------------------------------------
\* exit() and wait()

LEMMA ExitKeeps ==
  ASSUME ProcsInv, NEW p \in ProcSlots, ExitProc(p)
  PROVE  ProcsInv'
<1> USE SlotsAreNumbers
<1> DEFINE given == [q \in ProcSlots |-> IF q \in Kids(p) THEN [proc[q] EXCEPT !.parent = initproc]
                                         ELSE proc[q]]
           told == ParentTold(p)
<1>1. /\ proc[p].state = "RUNNING" /\ ppc[p] = "user" /\ p # initproc
      /\ proc' = [told EXCEPT ![p].state = "ZOMBIE"]
      /\ Sched(p) /\ UNCHANGED <<ppc, np, lk, ready>>
  BY DEF ExitProc, On
<1>2. /\ given \in [ProcSlots -> Slot]
      /\ \A q \in ProcSlots :
           /\ given[q].state = proc[q].state /\ (given[q].killed <=> proc[q].killed)
           /\ given[q].chan = proc[q].chan
           /\ given[q].parent = IF proc[q].parent = p THEN initproc ELSE proc[q].parent
  BY DEF Kids, ProcsInv, Types, Slot
<1> HIDE DEF given
\* wakeup1() turns sleepers into runnable processes, and leaves the rest alone.
<1>3. ASSUME NEW t \in [ProcSlots -> Slot], NEW ch
      PROVE  /\ Wakeup1(t, ch) \in [ProcSlots -> Slot]
             /\ \A q \in ProcSlots :
                  /\ Wakeup1(t, ch)[q].parent = t[q].parent
                  /\ Wakeup1(t, ch)[q].killed <=> t[q].killed
                  /\ Wakeup1(t, ch)[q].chan = t[q].chan
                  /\ \/ Wakeup1(t, ch)[q].state = t[q].state
                     \/ t[q].state = "SLEEPING" /\ Wakeup1(t, ch)[q].state = "RUNNABLE"
                  /\ Wakeup1(t, ch)[q].state = "SLEEPING" => t[q].chan # ch
  BY DEF Wakeup1, Slot, States
<1> DEFINE zombies == \E q \in Kids(p) : proc[q].state = "ZOMBIE"
           orphans == IF zombies THEN Wakeup1(given, initproc) ELSE given
<1>4. told = Wakeup1(orphans, proc[p].parent)
  BY DEF ParentTold, Orphans, WaitChan, given
<1>5. /\ orphans \in [ProcSlots -> Slot]
      /\ \A q \in ProcSlots :
           /\ orphans[q].parent = given[q].parent
           /\ orphans[q].killed <=> given[q].killed
           /\ orphans[q].chan = given[q].chan
           /\ \/ orphans[q].state = given[q].state
              \/ given[q].state = "SLEEPING" /\ orphans[q].state = "RUNNABLE"
           /\ (zombies /\ orphans[q].state = "SLEEPING") => given[q].chan # initproc
  BY <1>2, <1>3
<1> HIDE DEF orphans, told
<1>6. /\ told \in [ProcSlots -> Slot]
      /\ \A q \in ProcSlots :
           /\ told[q].parent = IF proc[q].parent = p THEN initproc ELSE proc[q].parent
           /\ told[q].killed <=> proc[q].killed
           /\ told[q].chan = proc[q].chan
           /\ \/ told[q].state = proc[q].state
              \/ proc[q].state = "SLEEPING" /\ told[q].state = "RUNNABLE"
           /\ told[q].state = "SLEEPING" =>
                proc[q].chan # proc[p].parent /\ (zombies => proc[q].chan # initproc)
  BY <1>2, <1>3, <1>4, <1>5
<1>7. proc' \in [ProcSlots -> Slot]
  BY <1>1, <1>6 DEF Slot, States
<1>8. \A q \in ProcSlots :
        /\ proc'[q].parent = IF proc[q].parent = p THEN initproc ELSE proc[q].parent
        /\ proc'[q].killed <=> proc[q].killed
        /\ proc'[q].chan = proc[q].chan
        /\ q = p => proc'[q].state = "ZOMBIE"
        /\ q # p => \/ proc'[q].state = proc[q].state
                    \/ proc[q].state = "SLEEPING" /\ proc'[q].state = "RUNNABLE"
        /\ proc'[q].state = "SLEEPING" =>
             proc[q].chan # proc[p].parent /\ (zombies => proc[q].chan # initproc)
  BY <1>1, <1>6 DEF Slot
<1>9. Types' /\ OnCpu'
  <2>1. \A q \in ProcSlots \ {p} : proc'[q].state = "RUNNING" <=> proc[q].state = "RUNNING"
    BY <1>8
  <2>2. proc'[p].state # "RUNNING"
    BY <1>8
  <2> QED BY <1>1, <1>7, <2>1, <2>2, OffCpu DEF ProcsInv, Types
<1>10. Fresh'
  BY <1>1, <1>8 DEF ProcsInv, Fresh
<1>11. Forking'
  <2>1. \A q \in ProcSlots : proc[q].state = "EMBRYO" => proc'[q].state = "EMBRYO"
    BY <1>1, <1>8
  <2> QED BY <1>1, <2>1, ForksKept
<1>12. InitLives'
  BY <1>1, <1>8 DEF ProcsInv, InitLives
<1>13. NotOwnParent'
  BY <1>8 DEF ProcsInv, NotOwnParent, InitLives
<1>14. NoSleepWithoutCause'
  <2>1. SUFFICES ASSUME NEW q \in ProcSlots, proc'[q].state = "SLEEPING"
                 PROVE  \/ /\ proc'[q].chan = q /\ ~proc'[q].killed
                           /\ Kids(q)' # {} /\ \A k \in Kids(q)' : proc'[k].state # "ZOMBIE"
                        \/ proc'[q].chan = Chan /\ (ready' => \E s \in ProcSlots : ppc'[s] = "wakelk")
    BY DEF NoSleepWithoutCause, WaitChan
  <2>2. q # p /\ proc[q].state = "SLEEPING"
    BY <1>8, <2>1
  <2>3. CASE proc[q].chan = Chan /\ (ready => \E s \in ProcSlots : ppc[s] = "wakelk")
    BY <1>1, <1>8, <2>3
  <2>4. CASE /\ proc[q].chan = q /\ ~proc[q].killed
             /\ Kids(q) # {} /\ \A k \in Kids(q) : proc[k].state # "ZOMBIE"
    <3>1. q # proc[p].parent /\ (zombies => q # initproc)
      BY <1>8, <2>1, <2>4
    <3>2. Kids(q) \subseteq Kids(q)'
      BY <1>8, <2>2 DEF Kids
    <3>3. ASSUME NEW k \in Kids(q)' PROVE proc'[k].state # "ZOMBIE"
      <4>1. k \in ProcSlots /\ proc'[k].parent = q
        BY DEF Kids
      <4>2. CASE k \in Kids(q)
        <5>1. k # p /\ proc[k].state # "ZOMBIE"
          BY <2>4, <3>1, <4>2 DEF Kids
        <5> QED BY <1>8, <4>1, <5>1
      <4>3. CASE k \notin Kids(q)
        <5>1. proc[k].parent = p /\ q = initproc
          BY <1>8, <4>1, <4>3 DEF Kids
        <5>2. k # p
          BY <5>1 DEF ProcsInv, NotOwnParent
        <5>3. proc[k].state # "ZOMBIE"
          BY <3>1, <4>1, <5>1 DEF Kids
        <5> QED BY <1>8, <4>1, <5>2, <5>3
      <4> QED BY <4>2, <4>3
    <3>4. proc'[q].chan = q /\ ~proc'[q].killed
      BY <1>8, <2>4
    <3>5. Kids(q)' # {}
      BY <2>4, <3>2
    <3> QED BY <3>3, <3>4, <3>5
  <2> QED BY <2>2, <2>3, <2>4 DEF ProcsInv, NoSleepWithoutCause, WaitChan
<1> QED BY <1>9, <1>10, <1>11, <1>12, <1>13, <1>14 DEF ProcsInv

LEMMA WaitKeeps ==
  ASSUME ProcsInv, NEW p \in ProcSlots, WaitProc(p)
  PROVE  ProcsInv'
<1> USE SlotsAreNumbers
<1> DEFINE dead == {q \in Kids(p) : proc[q].state = "ZOMBIE"}
<1>1. /\ proc[p].state = "RUNNING" /\ ppc[p] \in {"user", "wait"}
      /\ UNCHANGED <<np, lk, ready>>
  BY DEF WaitProc, On
<1>2. CASE dead # {} /\ Reap(p, Min(dead))
  <2> DEFINE z == Min(dead)
  <2>1. z \in dead /\ z \in ProcSlots
    BY <1>2, LeastSlot DEF Kids
  <2>2. proc[z].state = "ZOMBIE" /\ proc[z].parent = p /\ z # p /\ z # initproc
    BY <1>1, <2>1 DEF Kids, ProcsInv, InitLives
  <2>3. /\ proc' = [proc EXCEPT ![z] = Unused] /\ ppc' = [ppc EXCEPT ![p] = "user"]
        /\ UNCHANGED cpu
    BY <1>2 DEF Reap, At
  <2>4. Unused \in Slot /\ Unused.state = "UNUSED" /\ Unused.parent = NoOne
    BY DEF Unused, Slot, States
  <2> HIDE DEF z
  <2>5. /\ proc'[z] = Unused /\ \A q \in ProcSlots \ {z} : proc'[q] = proc[q]
        /\ ppc'[p] = "user" /\ \A q \in ProcSlots \ {p} : ppc'[q] = ppc[q]
    BY <2>1, <2>3 DEF ProcsInv, Types
  <2>6. Types'
    BY <1>1, <2>3, <2>4 DEF ProcsInv, Types, Places
  <2>7. OnCpu'
    BY <2>1, <2>2, <2>3, <2>4, <2>5 DEF ProcsInv, OnCpu
  <2>8. Fresh'
    BY <2>1, <2>2, <2>4, <2>5 DEF ProcsInv, Fresh
  <2>9. Forking'
    <3>1. \A q \in ProcSlots : ppc'[q] = "fork" => ppc[q] = "fork" /\ np'[q] = np[q]
      BY <1>1, <2>5
    <3>2. \A q \in ProcSlots : proc[q].state = "EMBRYO" => proc'[q].state = "EMBRYO"
      BY <2>2, <2>5
    <3> QED BY <3>1, <3>2, ForksKept
  <2>10. InitLives' /\ NotOwnParent'
    BY <2>2, <2>4, <2>5 DEF ProcsInv, InitLives, NotOwnParent
  <2>11. \A q \in ProcSlots \ {p} : Kids(q)' = Kids(q)
    <3>1. \A q \in ProcSlots \ {p}, k \in ProcSlots : proc'[k].parent = q <=> proc[k].parent = q
      <4>1. TAKE q \in ProcSlots \ {p}, k \in ProcSlots
      <4>2. CASE k = z
        BY <2>2, <2>4, <2>5, <4>2
      <4>3. CASE k # z
        BY <2>5, <4>3
      <4> QED BY <4>2, <4>3
    <3> QED BY <3>1 DEF Kids
  <2>12. NoSleepWithoutCause'
    <3>1. SUFFICES ASSUME NEW q \in ProcSlots, proc'[q].state = "SLEEPING"
                   PROVE  \/ /\ proc'[q].chan = q /\ ~proc'[q].killed
                             /\ Kids(q)' # {} /\ \A k \in Kids(q)' : proc'[k].state # "ZOMBIE"
                          \/ proc'[q].chan = Chan /\ (ready' => \E s \in ProcSlots : ppc'[s] = "wakelk")
      BY DEF NoSleepWithoutCause, WaitChan
    <3>2. q # p /\ q # z /\ proc'[q] = proc[q] /\ proc[q].state = "SLEEPING"
      BY <1>1, <2>2, <2>4, <2>5, <3>1
    <3>3. \A s \in ProcSlots : ppc[s] = "wakelk" => ppc'[s] = "wakelk"
      BY <1>1, <2>5
    <3>4. Kids(q)' = Kids(q) /\ \A k \in Kids(q) : k \in ProcSlots /\ k # z
      BY <2>2, <2>11, <3>2 DEF Kids
    <3> QED BY <1>1, <2>5, <3>2, <3>3, <3>4 DEF ProcsInv, NoSleepWithoutCause, WaitChan
  <2> QED BY <2>6, <2>7, <2>8, <2>9, <2>10, <2>12 DEF ProcsInv
<1>3. CASE At(p, "user") /\ UNCHANGED <<proc, cpu>>
  <2>1. /\ ppc' = [ppc EXCEPT ![p] = "user"]
        /\ \A q \in ProcSlots : ppc'[q] = IF q = p THEN "user" ELSE ppc[q]
    BY <1>3 DEF At, ProcsInv, Types
  <2>2. Types'
    BY <1>1, <1>3, <2>1 DEF ProcsInv, Types, Places
  <2>3. OnCpu' /\ InitLives' /\ NotOwnParent'
    BY <1>3 DEF ProcsInv, OnCpu, InitLives, NotOwnParent
  <2>4. Fresh' /\ Forking'
    BY <1>1, <1>3, <2>1, ForksKept DEF ProcsInv, Fresh
  <2>5. NoSleepWithoutCause'
    BY <1>1, <1>3, <2>1 DEF ProcsInv, NoSleepWithoutCause, Kids, WaitChan
  <2> QED BY <2>2, <2>3, <2>4, <2>5 DEF ProcsInv
<1>4. CASE /\ dead = {} /\ Kids(p) # {} /\ ~proc[p].killed
           /\ proc' = [proc EXCEPT ![p].state = "SLEEPING", ![p].chan = WaitChan(p)]
           /\ At(p, "wait")
           /\ Sched(p)
  <2> DEFINE r == [proc[p] EXCEPT !.state = "SLEEPING", !.chan = p]
  <2>1. /\ r \in Slot /\ r.state = "SLEEPING" /\ r.parent = proc[p].parent
        /\ r.killed = proc[p].killed /\ r.chan = WaitChan(p)
    BY DEF ProcsInv, Types, Slot, States, WaitChan
  <2>2. proc' = [proc EXCEPT ![p] = r] /\ ppc' = [ppc EXCEPT ![p] = "wait"]
    BY <1>4 DEF At, ProcsInv, Types, Slot, WaitChan
  <2>3. \A q \in Kids(p) : proc[q].state # "ZOMBIE"
    BY <1>4
  <2> HIDE DEF r
  <2> QED BY <1>1, <1>4, <2>1, <2>2, <2>3, StopKeeps
<1> QED BY <1>2, <1>3, <1>4 DEF WaitProc

-----------------------------------------------------------------------------
LEMMA NextKeeps == ProcsInv /\ [ProcsNext]_procsVars => ProcsInv'
<1> SUFFICES ASSUME ProcsInv, [ProcsNext]_procsVars PROVE ProcsInv'
  OBVIOUS
<1>1. CASE UNCHANGED procsVars
  BY <1>1 DEF procsVars, ProcsInv, Types, OnCpu, Fresh, Forking, InitLives, NotOwnParent,
              NoSleepWithoutCause, Kids, WaitChan
<1>2. CASE ProcsNext
  BY <1>2, RunKeeps, YieldKeeps, ForkAllocKeeps, ForkEndKeeps, ExitKeeps, WaitKeeps,
     MoveKeeps, SleepKeeps, WakeupLkKeeps, KillKeeps DEF ProcsNext
<1> QED BY <1>1, <1>2

LEMMA InvHolds == ProcsSpec => []ProcsInv
<1>1. ProcsInit => ProcsInv
  BY InitHolds
<1>2. ProcsInv /\ [ProcsNext]_procsVars => ProcsInv'
  BY NextKeeps
<1> QED BY <1>1, <1>2, PTL DEF ProcsSpec

\* A process asleep in wait() has a child that lives, and one asleep on a driver's
\* channel waits for a condition that is false or whose producer has yet to call
\* wakeup(): sleep(), wakeup(), exit() and kill() lose no wakeup (proc.c:418-502).
THEOREM SleepHasCause == ProcsSpec => []NoSleepWithoutCause
<1>1. ProcsInv => NoSleepWithoutCause
  BY DEF ProcsInv
<1> QED BY <1>1, InvHolds, PTL

\* The types of the table, and that a process is RUNNING exactly when some CPU's
\* c->proc is that process.
THEOREM ProcsTypeCorrect == ProcsSpec => []ProcsTypeOK
<1>1. ProcsInv => ProcsTypeOK
  BY DEF ProcsInv, Types, OnCpu, Slot, States, ProcsTypeOK
<1> QED BY <1>1, InvHolds, PTL

-----------------------------------------------------------------------------
\* Memory: what a computation over the free list works on.  SumOf(m) is what it
\* neither loses nor gains.
FinSets == {S \in SUBSET Nat : IsFiniteSet(S)}
Dir     == [dir : Nat, ktabs : Nat, tabs : FinSets, pte : FinSets]
Mem     == [free : Nat, d : Dir, ok : BOOLEAN, held : Nat]

DirPages(d) == d.dir + d.ktabs + Cardinality(d.tabs) + Cardinality(d.pte)
SumOf(m)    == m.free + m.held + DirPages(m.d)

\* The pages below sz, and whether each page has its table.
Under(sz)   == {v \in Nat : v * PGSIZE < sz}
HasTables(d) == \A v \in d.pte : Pdx(v) \in d.tabs
Tables      == {Pdx(v) : v \in Vpns}

\* PageRoundUp(n) is the number of pages below n.
LEMMA RoundUp ==
  ASSUME NEW n \in Nat
  PROVE  /\ PageRoundUp(n) \in Nat
         /\ \A v \in Int : v * PGSIZE < n <=> v < PageRoundUp(n)
         /\ PageRoundUp(n) * PGSIZE >= n
<1> DEFINE q == PageRoundUp(n)
<1>1. q \in Int /\ q * PGSIZE <= n + PGSIZE - 1 /\ n + PGSIZE - 1 < (q + 1) * PGSIZE
  BY MemoryAssumption DEF PageRoundUp
<1>2. q * PGSIZE < n + PGSIZE /\ n <= q * PGSIZE
  BY <1>1, MemoryAssumption
<1> HIDE DEF q
<1>3. ASSUME NEW v \in Int, v < q PROVE v * PGSIZE < n
  <2>1. v * PGSIZE <= (q - 1) * PGSIZE
    BY <1>1, <1>3, MemoryAssumption
  <2>2. (q - 1) * PGSIZE = q * PGSIZE - PGSIZE
    BY <1>1, MemoryAssumption
  <2> QED BY <1>1, <1>2, <2>1, <2>2, MemoryAssumption
<1>4. ASSUME NEW v \in Int, v >= q PROVE v * PGSIZE >= n
  <2>1. v * PGSIZE >= q * PGSIZE
    BY <1>1, <1>4, MemoryAssumption
  <2> QED BY <1>1, <1>2, <2>1, MemoryAssumption
<1>5. q >= 0
  <2>1. ~(0 * PGSIZE < 0)
    BY MemoryAssumption
  <2>2. q < 0 => (q + 1) * PGSIZE <= 0
    BY <1>1, MemoryAssumption
  <2>3. n + PGSIZE - 1 >= 0
    BY MemoryAssumption
  <2> QED BY <1>1, <2>2, <2>3, MemoryAssumption
<1>6. \A v \in Int : v * PGSIZE < n <=> v < q
  <2>1. TAKE v \in Int
  <2>2. CASE v < q
    BY <2>2, <1>3
  <2>3. CASE v >= q
    <3>1. v * PGSIZE >= n
      BY <2>3, <1>4
    <3> QED BY <2>3, <3>1, <1>1, MemoryAssumption
  <2> QED BY <2>2, <2>3, <1>1
<1>7. q \in Nat /\ q * PGSIZE >= n
  BY <1>1, <1>2, <1>5
<1> QED BY <1>6, <1>7 DEF q

LEMMA UnderIs ==
  ASSUME NEW n \in Nat
  PROVE  Under(n) = 0..(PageRoundUp(n) - 1) /\ Under(n) \in FinSets
<1>1. Under(n) = 0..(PageRoundUp(n) - 1)
  BY RoundUp DEF Under
<1>2. IsFiniteSet(0..(PageRoundUp(n) - 1))
  BY RoundUp, FS_Interval
<1> QED BY <1>1, <1>2 DEF FinSets

-----------------------------------------------------------------------------
\* The steps on a free list and a directory.
LEMMA PdxIsNumber == ASSUME NEW v \in Nat PROVE Pdx(v) \in Nat
BY MemoryAssumption DEF Pdx

LEMMA SetPages ==
  ASSUME NEW S \in FinSets, NEW v \in Nat
  PROVE  /\ Cardinality(S) \in Nat
         /\ S \cup {v} \in FinSets
         /\ Cardinality(S \cup {v}) = IF v \in S THEN Cardinality(S) ELSE Cardinality(S) + 1
BY FS_CardinalityType, FS_AddElement DEF FinSets

LEMMA SumIsNumber ==
  ASSUME NEW m \in Mem
  PROVE  DirPages(m.d) \in Nat /\ SumOf(m) \in Nat
<1>1. Cardinality(m.d.tabs) \in Nat /\ Cardinality(m.d.pte) \in Nat
  BY FS_CardinalityType DEF Mem, Dir, FinSets
<1> QED BY <1>1 DEF DirPages, SumOf, Mem, Dir

LEMMA KallocTypes ==
  ASSUME NEW m \in Mem
  PROVE  /\ Kalloc(m) \in Mem
         /\ Kalloc(m).d = m.d
         /\ m.free = 0 => Kalloc(m) = [m EXCEPT !.ok = FALSE]
         /\ m.free > 0 => /\ Kalloc(m).ok = m.ok /\ Kalloc(m).held = m.held + 1
                          /\ Kalloc(m).free = m.free - 1
<1>1. m.free \in Nat /\ m.held \in Nat
  BY DEF Mem
<1>2. CASE m.free = 0
  <2>1. Kalloc(m) = [m EXCEPT !.ok = FALSE]
    BY <1>2 DEF Kalloc
  <2>2. [m EXCEPT !.ok = FALSE] \in Mem /\ [m EXCEPT !.ok = FALSE].d = m.d
    BY DEF Mem
  <2> QED BY <1>2, <2>1, <2>2
<1>3. CASE m.free > 0
  <2> DEFINE f == m.free - 1
             h == m.held + 1
  <2>1. Kalloc(m) = [m EXCEPT !.free = f, !.held = h]
    BY <1>1, <1>3 DEF Kalloc
  <2>2. f \in Nat /\ h \in Nat
    BY <1>1, <1>3
  <2> HIDE DEF f, h
  <2>3. [m EXCEPT !.free = f, !.held = h] \in Mem
    BY <2>2 DEF Mem
  <2>4. /\ Kalloc(m).d = m.d /\ Kalloc(m).ok = m.ok /\ Kalloc(m).held = h /\ Kalloc(m).free = f
    BY <2>1 DEF Mem
  <2> QED BY <1>1, <1>3, <2>1, <2>3, <2>4 DEF f, h
<1> QED BY <1>1, <1>2, <1>3

\* What mappages() does with a page that was allocated.
Mapped(m, r, v) ==
  /\ r.d = [m.d EXCEPT !.tabs = @ \cup {Pdx(v)}, !.pte = @ \cup {v}]
  /\ r.held = 0

LEMMA MappagesDoes ==
  ASSUME NEW m \in Mem, NEW v \in Nat
  PROVE  /\ Mappages(m, v) \in Mem
         /\ (m.ok /\ m.held = 1 /\ v \notin m.d.pte) =>
              LET r == Mappages(m, v) IN
              /\ SumOf(r) = SumOf(m)
              /\ r.ok => Mapped(m, r, v)
              /\ ~r.ok => r.d = m.d /\ r.held = 1 /\ r.free = 0
<1> DEFINE t == IF Pdx(v) \in m.d.tabs THEN m ELSE Kalloc(m)
           r == Mappages(m, v)
           e == [t EXCEPT !.held = 0, !.d.tabs = @ \cup {Pdx(v)}, !.d.pte = @ \cup {v}]
<1>1. r = IF ~t.ok THEN t ELSE e
  BY DEF Mappages
<1>2. t \in Mem /\ t.d = m.d /\ Pdx(v) \in Nat
  BY KallocTypes, PdxIsNumber
<1>3. /\ m.d \in Dir /\ m.d.tabs \in FinSets /\ m.d.pte \in FinSets
      /\ m.d.tabs \cup {Pdx(v)} \in FinSets /\ m.d.pte \cup {v} \in FinSets
  <2>1. m.d.tabs \in FinSets /\ m.d.pte \in FinSets
    BY DEF Mem, Dir
  <2> QED BY <2>1, <1>2, SetPages DEF Mem
<1>4. e \in Mem /\ e.ok = t.ok /\ e.free = t.free /\ e.held = 0
      /\ e.d = [m.d EXCEPT !.tabs = @ \cup {Pdx(v)}, !.pte = @ \cup {v}]
      /\ e.d.dir = m.d.dir /\ e.d.ktabs = m.d.ktabs
      /\ e.d.tabs = m.d.tabs \cup {Pdx(v)} /\ e.d.pte = m.d.pte \cup {v}
  BY <1>2, <1>3 DEF Mem, Dir
<1>5. r \in Mem
  BY <1>1, <1>2, <1>4
<1>6. ASSUME m.ok, m.held = 1, v \notin m.d.pte
      PROVE  /\ SumOf(r) = SumOf(m)
             /\ r.ok => Mapped(m, r, v)
             /\ ~r.ok => r.d = m.d /\ r.held = 1 /\ r.free = 0
  <2> DEFINE ct == Cardinality(m.d.tabs)  cp == Cardinality(m.d.pte)
  <2>0. ct \in Nat /\ cp \in Nat /\ m.free \in Nat /\ m.d.dir \in Nat /\ m.d.ktabs \in Nat
    BY <1>3, SetPages DEF Mem, Dir
  <2>1. Cardinality(e.d.pte) = cp + 1
    BY <1>3, <1>4, <1>6, SetPages
  <2>2. Cardinality(e.d.tabs) = IF Pdx(v) \in m.d.tabs THEN ct ELSE ct + 1
    BY <1>2, <1>3, <1>4, SetPages
  <2> HIDE DEF e
  <2>3. CASE Pdx(v) \in m.d.tabs
    <3>1. t = m /\ r = e
      BY <2>3, <1>1, <1>6
    <3> HIDE DEF t, r
    <3>2. e.free = m.free /\ e.ok
      BY <3>1, <1>4, <1>6
    <3>3. SumOf(e) = SumOf(m)
      BY <3>2, <2>0, <2>1, <2>2, <2>3, <1>4, <1>6 DEF SumOf, DirPages
    <3> QED BY <3>2, <3>3, <3>1, <2>0, <2>1, <2>2, <2>3, <1>4, <1>6 DEF SumOf, DirPages, Mapped
  <2>4. CASE Pdx(v) \notin m.d.tabs /\ m.free > 0
    <3>1. t = Kalloc(m)
      BY <2>4
    <3> HIDE DEF t
    <3>2. t.ok /\ t.held = 2 /\ t.free = m.free - 1 /\ r = e
      BY <2>4, <3>1, <1>1, <1>6, KallocTypes
    <3> QED BY <3>2, <2>0, <2>1, <2>2, <2>4, <1>4, <1>6 DEF SumOf, DirPages, Mapped
  <2>5. CASE Pdx(v) \notin m.d.tabs /\ m.free = 0
    <3>1. t = Kalloc(m)
      BY <2>5
    <3> HIDE DEF t
    <3>2. t = [m EXCEPT !.ok = FALSE] /\ ~t.ok /\ r = t
      BY <2>5, <3>1, <1>1, KallocTypes DEF Mem
    <3>3. r.d = m.d /\ r.held = 1 /\ r.free = 0 /\ ~r.ok
      BY <3>2, <2>5, <1>6 DEF Mem
    <3> QED BY <3>3, <2>0, <2>5, <1>6 DEF SumOf, DirPages
  <2> QED BY <2>0, <2>3, <2>4, <2>5
<1> QED BY <1>5, <1>6

\* One turn of the loop of allocuvm() or copyuvm().
PageStep(n, v) == LET k == IF n.ok THEN Kalloc(n) ELSE n IN IF k.ok THEN Mappages(k, v) ELSE k

LEMMA PageStepDoes ==
  ASSUME NEW n \in Mem, NEW v \in Nat
  PROVE  /\ PageStep(n, v) \in Mem
         /\ ~n.ok => PageStep(n, v) = n
         /\ (n.ok /\ n.held = 0 /\ v \notin n.d.pte) =>
              LET r == PageStep(n, v) IN
              /\ SumOf(r) = SumOf(n)
              /\ r.ok => Mapped(n, r, v)
              /\ ~r.ok => r.d = n.d /\ r.held \in {0, 1} /\ r.free = 0
<1> DEFINE k == IF n.ok THEN Kalloc(n) ELSE n
           r == PageStep(n, v)
<1>1. r = IF k.ok THEN Mappages(k, v) ELSE k
  BY DEF PageStep
<1>2. k \in Mem /\ k.d = n.d
  BY KallocTypes
<1>3. r \in Mem
  BY <1>1, <1>2, MappagesDoes
<1>4. ~n.ok => r = n
  BY <1>1
<1>5. ASSUME n.ok, n.held = 0, v \notin n.d.pte
      PROVE  /\ SumOf(r) = SumOf(n)
             /\ r.ok => Mapped(n, r, v)
             /\ ~r.ok => r.d = n.d /\ r.held \in {0, 1} /\ r.free = 0
  <2>0. n.free \in Nat /\ DirPages(n.d) \in Nat
    BY SumIsNumber DEF Mem
  <2>1. k = Kalloc(n)
    BY <1>5
  <2> HIDE DEF k, r
  <2>2. CASE n.free > 0
    <3>1. k.ok /\ k.held = 1 /\ k.free = n.free - 1 /\ v \notin k.d.pte
      BY <2>1, <2>2, <1>2, <1>5, KallocTypes
    <3>2. SumOf(k) = SumOf(n)
      BY <3>1, <1>2, <1>5, <2>0 DEF SumOf
    <3>3. r = Mappages(k, v)
      BY <3>1, <1>1
    <3>4. /\ SumOf(r) = SumOf(k)
          /\ r.ok => Mapped(k, r, v)
          /\ ~r.ok => r.d = k.d /\ r.held = 1 /\ r.free = 0
      BY <1>2, <3>1, <3>3, MappagesDoes
    <3> QED BY <3>2, <3>4, <1>2 DEF Mapped
  <2>3. CASE n.free = 0
    <3>1. k = [n EXCEPT !.ok = FALSE] /\ ~k.ok
      BY <2>1, <2>3, KallocTypes DEF Mem
    <3>2. r = k /\ r.d = n.d /\ r.held = 0 /\ r.free = 0 /\ ~r.ok
      BY <3>1, <1>1, <1>5, <2>3 DEF Mem
    <3> QED BY <3>2, <1>5, <2>3 DEF SumOf
  <2> QED BY <2>0, <2>2, <2>3
<1> QED BY <1>3, <1>4, <1>5

-----------------------------------------------------------------------------
\* A fold, from left to right.
FoldPages(m, s) == FoldLeft(PageStep, m, s)

\* The results t[i] of the first i steps.
PageRun(t, n, m, s) ==
  /\ t[0] = m
  /\ \A i \in 1..n : t[i] = PageStep(t[i - 1], s[i])
  /\ FoldPages(m, s) = t[n]

LEMMA PagesFold ==
  ASSUME NEW n \in Nat, NEW s \in [1..n -> Nat], NEW m \in Mem
  PROVE  \E t \in [0..n -> Mem] : PageRun(t, n, m, s)
<1> DEFINE F == [x \in (1..n) \X Mem |-> PageStep(x[2], s[x[1]])]
           Is(f) == f = [u \in SUBSET (1..n) |->
                           IF u = {} THEN m ELSE PageStep(f[u \ {Max(u)}], s[Max(u)])]
           g == CHOOSE f : Is(f)
<1>1. F \in [(1..n) \X Mem -> Mem]
  BY PageStepDoes
<1>2. PICK f \in [SUBSET (1..n) -> Mem] : Folds(f, n, m, F)
  <2> HIDE DEF F
  <2> QED BY <1>1, FoldLeftSteps
<1>3. Is(f)
  <2>1. ASSUME NEW u \in SUBSET (1..n), u # {}
        PROVE  F[<<Max(u), f[u \ {Max(u)}]>>] = PageStep(f[u \ {Max(u)}], s[Max(u)])
    BY <2>1, GreatestNumber
  <2> HIDE DEF F
  <2>2. \A u \in SUBSET (1..n) :
          f[u] = IF u = {} THEN m ELSE PageStep(f[u \ {Max(u)}], s[Max(u)])
    BY <1>2, <2>1 DEF Folds
  <2> QED BY <2>2
<1>4. Is(g)
  BY <1>3
<1>5. FoldPages(m, s) = g[1..n]
  BY DEF FoldPages, FoldLeft, MapThenFoldSet
<1> HIDE DEF g
<1>6. g[1..0] = m
  BY <1>4
<1>7. \A i \in 1..n : g[1..i] = PageStep(g[1..(i - 1)], s[i])
  <2> TAKE i \in 1..n
  <2> DEFINE u == 1..i
  <2>1. u \in SUBSET (1..n) /\ u # {} /\ Max(u) = i /\ u \ {Max(u)} = 1..(i - 1)
    BY Intervals
  <2> HIDE DEF u
  <2>2. g[u] = PageStep(g[u \ {Max(u)}], s[Max(u)])
    BY <1>4, <2>1
  <2>3. g[u] = PageStep(g[1..(i - 1)], s[i])
    BY <2>1, <2>2
  <2> QED BY <2>3 DEF u
<1> DEFINE t == [i \in 0..n |-> g[1..i]]
           S == {k \in Nat : k <= n => t[k] \in Mem}
<1>8. 0 \in S
  <2>1. t[0] = g[1..0]
    OBVIOUS
  <2> QED BY <1>6, <2>1
<1>9. ASSUME NEW k \in Nat, k \in S PROVE k + 1 \in S
  <2> SUFFICES ASSUME k + 1 <= n PROVE t[k + 1] \in Mem
    OBVIOUS
  <2>0. k \in 0..n /\ k + 1 \in 0..n /\ k + 1 \in 1..n /\ (k + 1) - 1 = k /\ t[k] \in Mem
    BY <1>9
  <2>2. g[1..(k + 1)] = PageStep(g[1..k], s[k + 1])
    BY <1>7, <2>0
  <2>3. t[k] = g[1..k] /\ t[k + 1] = g[1..(k + 1)]
    BY <2>0
  <2>1. t[k] \in Mem /\ t[k + 1] = PageStep(t[k], s[k + 1]) /\ s[k + 1] \in Nat
    BY <2>0, <2>2, <2>3
  <2> QED BY <2>1, PageStepDoes
<1>10. Nat \subseteq S
  <2> HIDE DEF S
  <2> QED BY <1>8, <1>9, NumbersWith
<1>11. t \in [0..n -> Mem]
  <2>1. ASSUME NEW i \in 0..n PROVE g[1..i] \in Mem
    <3>1. i \in S
      <4>1. i \in Nat
        OBVIOUS
      <4> HIDE DEF S
      <4> QED BY <4>1, <1>10
    <3> QED BY <3>1
  <2> QED BY <2>1
<1>12. t[0] = m /\ t[n] = g[1..n] /\ \A i \in 1..n : t[i] = PageStep(t[i - 1], s[i])
  BY <1>6, <1>7
<1> HIDE DEF t
<1> QED BY <1>5, <1>11, <1>12 DEF PageRun

\* What is known of r after the pages first..last were asked for, beginning with m.
Extends(m, r, first, last) ==
  /\ r \in Mem /\ SumOf(r) = SumOf(m)
  /\ r.d.dir = m.d.dir /\ r.d.ktabs = m.d.ktabs
  /\ r.d.tabs \subseteq m.d.tabs \cup {Pdx(v) : v \in first..last}
  /\ m.d.pte \subseteq r.d.pte /\ r.d.pte \subseteq m.d.pte \cup (first..last)
  /\ HasTables(r.d)
  /\ r.ok => r.held = 0 /\ r.d.pte = m.d.pte \cup (first..last)
  /\ ~r.ok => r.held \in {0, 1} /\ r.free = 0 /\ first <= last /\ ~(first..last \subseteq r.d.pte)

LEMMA ExtendsFurther ==
  ASSUME NEW m \in Mem, NEW first \in Nat, NEW last \in Nat, last >= first,
         NEW q, Extends(m, q, first, last - 1), last \notin m.d.pte
  PROVE  Extends(m, PageStep(q, last), first, last)
<1> DEFINE r == PageStep(q, last)
<1>0. q \in Mem /\ first..last = (first..(last - 1)) \cup {last} /\ last \notin first..(last - 1)
  BY DEF Extends
<1>1. CASE ~q.ok
  <2>1. r = q
    BY <1>0, <1>1, PageStepDoes
  <2>2. \A v \in first..(last - 1) : v \in first..last
    OBVIOUS
  <2> QED BY <1>1, <2>1, <2>2 DEF Extends
<1>2. CASE q.ok
  <2>1. q.held = 0 /\ last \notin q.d.pte
    BY <1>0, <1>2 DEF Extends
  <2>2. /\ r \in Mem /\ SumOf(r) = SumOf(q)
        /\ r.ok => Mapped(q, r, last)
        /\ ~r.ok => r.d = q.d /\ r.held \in {0, 1} /\ r.free = 0
    BY <1>0, <1>2, <2>1, PageStepDoes
  <2> HIDE DEF r
  <2>3. ASSUME r.ok PROVE Extends(m, r, first, last)
    <3>1. /\ r.held = 0 /\ r.d.dir = q.d.dir /\ r.d.ktabs = q.d.ktabs
          /\ r.d.tabs = q.d.tabs \cup {Pdx(last)} /\ r.d.pte = q.d.pte \cup {last}
      <4>1. q.d \in Dir
        BY <1>0 DEF Mem
      <4> QED BY <4>1, <2>2, <2>3 DEF Mapped, Dir
    <3>2. HasTables(r.d)
      BY <3>1 DEF Extends, HasTables
    <3>3. r.d.tabs \subseteq m.d.tabs \cup {Pdx(v) : v \in first..last}
      BY <3>1, <1>0 DEF Extends
    <3>4. r.d.pte = m.d.pte \cup (first..last)
      BY <3>1, <1>0, <1>2 DEF Extends
    <3> QED BY <2>2, <2>3, <3>1, <3>2, <3>3, <3>4 DEF Extends
  <2>4. ASSUME ~r.ok PROVE Extends(m, r, first, last)
    <3>1. r.d = q.d
      BY <2>2, <2>4
    <3>2. \A v \in first..(last - 1) : v \in first..last
      OBVIOUS
    <3>3. /\ q.d.tabs \subseteq m.d.tabs \cup {Pdx(v) : v \in first..last}
          /\ m.d.pte \subseteq q.d.pte /\ q.d.pte \subseteq m.d.pte \cup (first..last)
          /\ q.d.dir = m.d.dir /\ q.d.ktabs = m.d.ktabs /\ HasTables(q.d) /\ SumOf(q) = SumOf(m)
      BY <3>2 DEF Extends
    <3>4. last \in first..last /\ last \notin q.d.pte
      BY <1>0, <2>1
    <3> QED BY <2>2, <2>4, <3>1, <3>3, <3>4 DEF Extends
  <2> QED BY <2>3, <2>4 DEF r
<1> QED BY <1>1, <1>2

LEMMA AllocFromDoes ==
  ASSUME NEW m \in Mem, m.ok, m.held = 0, HasTables(m.d),
         NEW first \in Nat, NEW last \in Int, \A v \in first..last : v \notin m.d.pte
  PROVE  Extends(m, AllocFrom(m, first, last), first, last)
<1> DEFINE n == IF first <= last THEN last - first + 1 ELSE 0
           s == [i \in 1..(last - first + 1) |-> first + i - 1]
<1>1. n \in Nat /\ 1..(last - first + 1) = 1..n /\ s \in [1..n -> Nat]
      /\ first..last = first..(first + n - 1)
  OBVIOUS
<1>2. \A i \in 1..n : s[i] = first + i - 1
  BY <1>1
<1>3. AllocFrom(m, first, last) = FoldPages(m, s)
  BY DEF FoldPages, AllocFrom, PageStep
<1>9. n > 0 => first + n - 1 = last
  OBVIOUS
<1> HIDE DEF n, s
<1>41. PICK t \in [0..n -> Mem] : PageRun(t, n, m, s)
  BY <1>1, PagesFold
<1>4. /\ t[0] = m
      /\ \A i \in 1..n : t[i] = PageStep(t[i - 1], s[i])
      /\ FoldPages(m, s) = t[n]
  BY <1>41 DEF PageRun
<1> DEFINE S == {k \in Nat : k <= n => Extends(m, t[k], first, first + k - 1)}
<1>5. 0 \in S
  <2>1. first..(first + 0 - 1) = {}
    OBVIOUS
  <2>2. Extends(m, m, first, first + 0 - 1)
    BY <2>1 DEF Extends
  <2> QED BY <1>4, <2>2
<1>6. ASSUME NEW k \in Nat, k \in S PROVE k + 1 \in S
  <2> SUFFICES ASSUME k + 1 <= n PROVE Extends(m, t[k + 1], first, first + (k + 1) - 1)
    OBVIOUS
  <2>1. k + 1 \in 1..n /\ (k + 1) - 1 = k
    BY <1>1
  <2>2. s[k + 1] = first + k /\ t[k + 1] = PageStep(t[k], s[k + 1])
    BY <1>2, <1>4, <2>1
  <2>3. Extends(m, t[k], first, (first + k) - 1)
    BY <1>6, <1>1
  <2>4. first + k \notin m.d.pte
    BY <1>1, <2>1
  <2>5. Extends(m, PageStep(t[k], first + k), first, first + k)
    BY <2>3, <2>4, ExtendsFurther
  <2> QED BY <2>2, <2>5
<1>7. n \in S
  <2> HIDE DEF S
  <2> QED BY <1>1, <1>5, <1>6, NumbersWith
<1>8. Extends(m, t[n], first, first + n - 1)
  BY <1>1, <1>7
<1> QED BY <1>1, <1>3, <1>4, <1>8, <1>9 DEF Extends

-----------------------------------------------------------------------------
\* deallocuvm(), allocuvm() and freevm().
LEMMA KfreeTypes ==
  ASSUME NEW m \in Mem, NEW n \in Nat
  PROVE  /\ Kfree(m, n) \in Mem /\ Kfree(m, n).free = m.free + n
         /\ Kfree(m, n).d = m.d /\ Kfree(m, n).ok = m.ok /\ Kfree(m, n).held = m.held
<1> DEFINE f == m.free + n
<1>1. f \in Nat
  BY DEF Mem
<1>2. Kfree(m, n) = [m EXCEPT !.free = f]
  BY DEF Kfree
<1> HIDE DEF f
<1>3. [m EXCEPT !.free = f] \in Mem
  BY <1>1 DEF Mem
<1>4. Kfree(m, n).free = f /\ Kfree(m, n).d = m.d /\ Kfree(m, n).ok = m.ok /\ Kfree(m, n).held = m.held
  BY <1>2 DEF Mem
<1> QED BY <1>2, <1>3, <1>4 DEF f

LEMMA GiveUpDoes ==
  ASSUME NEW m \in Mem
  PROVE  /\ GiveUp(m) \in Mem /\ GiveUp(m).d = m.d /\ GiveUp(m).ok = m.ok /\ GiveUp(m).held = 0
         /\ SumOf(GiveUp(m)) = SumOf(m) /\ GiveUp(m).free = m.free + m.held
<1> DEFINE k == Kfree(m, m.held)
<1>0. m.held \in Nat /\ m.free \in Nat /\ DirPages(m.d) \in Nat
  BY SumIsNumber DEF Mem
<1>1. k \in Mem /\ k.free = m.free + m.held /\ k.d = m.d /\ k.ok = m.ok
  BY <1>0, KfreeTypes
<1>2. GiveUp(m) = [k EXCEPT !.held = 0]
  BY DEF GiveUp
<1> HIDE DEF k
<1>3. /\ GiveUp(m) \in Mem /\ GiveUp(m).free = k.free /\ GiveUp(m).d = k.d
      /\ GiveUp(m).ok = k.ok /\ GiveUp(m).held = 0
  BY <1>1, <1>2 DEF Mem
<1>4. SumOf(GiveUp(m)) = SumOf(m)
  BY <1>0, <1>1, <1>3 DEF SumOf
<1> QED BY <1>1, <1>3, <1>4

\* A part of a finite set.
LEMMA PartPages ==
  ASSUME NEW S \in FinSets, NEW T \in SUBSET S
  PROVE  /\ T \in FinSets /\ S \ T \in FinSets /\ Cardinality(T) \in Nat /\ Cardinality(S) \in Nat
         /\ Cardinality(S \ T) = Cardinality(S) - Cardinality(T)
<1>1. IsFiniteSet(S) /\ IsFiniteSet(T) /\ IsFiniteSet(S \ T)
  BY FS_Subset DEF FinSets
<1>2. S \cap T = T
  OBVIOUS
<1>3. Cardinality(S \ T) = Cardinality(S) - Cardinality(S \cap T)
  BY <1>1, FS_Difference
<1> QED BY <1>1, <1>2, <1>3, FS_CardinalityType DEF FinSets

Shrinks(m, r, old, new) ==
  /\ r \in Mem /\ SumOf(r) = SumOf(m)
  /\ r.ok = m.ok /\ r.held = m.held
  /\ r.d.dir = m.d.dir /\ r.d.ktabs = m.d.ktabs /\ r.d.tabs = m.d.tabs
  /\ new >= old => r.d.pte = m.d.pte
  /\ new < old => r.d.pte = {v \in m.d.pte : v * PGSIZE < new \/ ~(v * PGSIZE < old)}

LEMMA DeallocuvmDoes ==
  ASSUME NEW m \in Mem, NEW old \in Nat, NEW new \in Nat
  PROVE  Shrinks(m, Deallocuvm(m, old, new), old, new)
<1> DEFINE range == {v \in m.d.pte : PageRoundUp(new) <= v /\ v * PGSIZE < old}
           r == Deallocuvm(m, old, new)
<1>0. m.d \in Dir /\ m.d.pte \in FinSets /\ m.d.pte \subseteq Nat
  BY DEF Mem, Dir, FinSets
<1>1. CASE new >= old
  <2>1. r = m
    BY <1>1 DEF Deallocuvm
  <2> QED BY <1>1, <2>1 DEF Shrinks
<1>2. CASE new < old
  <2> DEFINE n == Cardinality(range)
             k == Kfree(m, n)
             e == [k EXCEPT !.d.pte = @ \ range]
  <2>1. r = e
    BY <1>2 DEF Deallocuvm
  <2>2. /\ range \in SUBSET m.d.pte /\ n \in Nat /\ m.d.pte \ range \in FinSets
        /\ Cardinality(m.d.pte) \in Nat
        /\ Cardinality(m.d.pte \ range) = Cardinality(m.d.pte) - n
    <3>1. range \in SUBSET m.d.pte
      OBVIOUS
    <3> HIDE DEF range
    <3> QED BY <1>0, <3>1, PartPages
  <2>3. m.d.pte \ range = {v \in m.d.pte : v * PGSIZE < new \/ ~(v * PGSIZE < old)}
    <3>1. \A v \in Nat : v * PGSIZE < new <=> v < PageRoundUp(new)
      BY RoundUp
    <3>2. PageRoundUp(new) \in Nat
      BY RoundUp
    <3>3. \A v \in Nat : v * PGSIZE < new <=> ~(PageRoundUp(new) <= v)
      BY <3>1, <3>2
    <3> HIDE DEF n, k, e
    <3> QED BY <1>0, <3>3
  <2> DEFINE rest == m.d.pte \ range
  <2>4. e = [k EXCEPT !.d.pte = @ \ range] /\ k = Kfree(m, n)
    OBVIOUS
  <2> HIDE DEF range, n, k, e, r
  <2>5. k \in Mem /\ k.free = m.free + n /\ k.d = m.d /\ k.ok = m.ok /\ k.held = m.held
    BY <2>2, <2>4, KfreeTypes
  <2>6. /\ e \in Mem /\ e.free = k.free /\ e.ok = k.ok /\ e.held = k.held
        /\ e.d.dir = m.d.dir /\ e.d.ktabs = m.d.ktabs /\ e.d.tabs = m.d.tabs /\ e.d.pte = rest
    BY <2>2, <2>4, <2>5 DEF Mem, Dir
  <2>7. SumOf(e) = SumOf(m)
    <3>1. m.free \in Nat /\ m.held \in Nat /\ m.d.dir \in Nat /\ m.d.ktabs \in Nat /\ Cardinality(m.d.tabs) \in Nat
      BY FS_CardinalityType DEF Mem, Dir, FinSets
    <3> QED BY <2>2, <2>5, <2>6, <3>1 DEF SumOf, DirPages
  <2> QED BY <1>2, <2>1, <2>3, <2>5, <2>6, <2>7 DEF r, Shrinks
<1> QED BY <1>1, <1>2

LEMMA FreevmDoes ==
  ASSUME NEW m \in Mem, m.d.pte \subseteq Vpns
  PROVE  LET r == Freevm(m) IN
         /\ r \in Mem /\ r.d = NoDir /\ r.ok = m.ok /\ r.held = m.held
         /\ r.free = m.free + DirPages(m.d)
<1> DEFINE top == USERTOP * PGSIZE
           n == Deallocuvm(m, top, 0)
           k == Kfree(n, Cardinality(n.d.tabs) + n.d.ktabs + n.d.dir)
           r == Freevm(m)
<1>1. top \in Nat /\ 0 < top /\ \A v \in Vpns : v \in Nat /\ v * PGSIZE < top /\ ~(v * PGSIZE < 0)
  <2>1. \A v \in Vpns : v \in Nat /\ v < USERTOP
    BY MemoryAssumption DEF Vpns
  <2>2. \A v \in Nat : v < USERTOP => v * PGSIZE < USERTOP * PGSIZE /\ v * PGSIZE >= 0
    BY MemoryAssumption
  <2>3. USERTOP * PGSIZE \in Nat
    BY MemoryAssumption
  <2>4. 0 * PGSIZE = 0 /\ 0 < USERTOP
    BY MemoryAssumption
  <2>5. 0 < USERTOP * PGSIZE
    BY <2>2, <2>4
  <2> QED BY <2>1, <2>2, <2>3, <2>5, MemoryAssumption
<1>2. r = [k EXCEPT !.d = NoDir]
  BY DEF Freevm
<1> HIDE DEF top
<1>3. /\ n \in Mem /\ SumOf(n) = SumOf(m) /\ n.ok = m.ok /\ n.held = m.held
      /\ n.d.dir = m.d.dir /\ n.d.ktabs = m.d.ktabs /\ n.d.tabs = m.d.tabs
      /\ n.d.pte = {v \in m.d.pte : v * PGSIZE < 0 \/ ~(v * PGSIZE < top)}
  <2>1. n = Deallocuvm(m, top, 0)
    OBVIOUS
  <2> HIDE DEF n
  <2>2. Shrinks(m, n, top, 0)
    BY <1>1, <2>1, DeallocuvmDoes
  <2> QED BY <1>1, <2>2 DEF Shrinks
<1>4. n.d.pte = {}
  BY <1>1, <1>3
<1>5. Cardinality(n.d.pte) = 0
  BY <1>4, FS_EmptySet
<1>6. Cardinality(n.d.tabs) \in Nat /\ n.d.ktabs \in Nat /\ n.d.dir \in Nat /\ n.free \in Nat /\ n.held \in Nat
  <2> HIDE DEF n
  <2> QED BY <1>3, FS_CardinalityType DEF Mem, Dir, FinSets
<1> DEFINE c == Cardinality(n.d.tabs) + n.d.ktabs + n.d.dir
<1>7. c \in Nat
  BY <1>6
<1>8. k \in Mem /\ k.free = n.free + c /\ k.ok = n.ok /\ k.held = n.held
  <2> HIDE DEF n
  <2> QED BY <1>3, <1>7, KfreeTypes
<1>9. NoDir \in Dir
  <2>1. {} \in FinSets
    BY FS_EmptySet DEF FinSets
  <2> QED BY <2>1 DEF NoDir, Dir
<1>10. m.free \in Nat /\ m.held \in Nat /\ DirPages(m.d) \in Nat
  BY SumIsNumber DEF Mem
<1> HIDE DEF n, k, r
<1>11. r \in Mem /\ r.d = NoDir /\ r.ok = k.ok /\ r.held = k.held /\ r.free = k.free
  BY <1>2, <1>8, <1>9 DEF Mem
<1>12. n.free + c = m.free + DirPages(m.d)
  <2>1. DirPages(n.d) = n.d.dir + n.d.ktabs + Cardinality(n.d.tabs)
    BY <1>5, <1>6 DEF DirPages
  <2>2. n.free + n.held + DirPages(n.d) = m.free + m.held + DirPages(m.d)
    BY <1>3 DEF SumOf
  <2>3. DirPages(n.d) = c
    BY <1>6, <2>1
  <2>4. n.held = m.held /\ n.free \in Nat
    BY <1>3, <1>6
  <2> HIDE DEF c
  <2> QED BY <1>7, <1>10, <2>2, <2>3, <2>4
<1> QED BY <1>3, <1>8, <1>11, <1>12 DEF r

\* A directory with exactly the pages below sz, and their tables.
Holds(d, sz) ==
  /\ d \in Dir /\ d.pte = Under(sz) /\ d.pte \subseteq Vpns
  /\ HasTables(d) /\ d.tabs \subseteq Tables

Larger(a, b) == IF b > a THEN b ELSE a

LEMMA RoundUpGrows ==
  ASSUME NEW a \in Nat, NEW b \in Nat, a <= b
  PROVE  PageRoundUp(a) <= PageRoundUp(b)
<1> DEFINE v == PageRoundUp(b)
<1>1. v \in Nat /\ ~(v * PGSIZE < b)
  BY RoundUp
<1>2. v * PGSIZE \in Nat
  BY <1>1, MemoryAssumption
<1> HIDE DEF v
<1>3. ~(v * PGSIZE < a)
  BY <1>1, <1>2
<1>4. ~(v < PageRoundUp(a)) /\ PageRoundUp(a) \in Nat
  BY <1>1, <1>3, RoundUp
<1> QED BY <1>1, <1>4 DEF v

\* The pages that an allocuvm() adds.
LEMMA PagesBetween ==
  ASSUME NEW a \in Nat, NEW b \in Nat
  PROVE  LET new == PageRoundUp(a)..(PageRoundUp(b) - 1) IN
         /\ Under(a) \cap new = {}
         /\ Under(a) \cup new = Under(Larger(a, b))
         /\ \A v \in new : v \in Nat /\ v * PGSIZE < b
<1>1. /\ Under(a) = 0..(PageRoundUp(a) - 1) /\ Under(b) = 0..(PageRoundUp(b) - 1)
      /\ PageRoundUp(a) \in Nat /\ PageRoundUp(b) \in Nat
  BY UnderIs, RoundUp
<1>2. \A v \in PageRoundUp(a)..(PageRoundUp(b) - 1) : v \in Nat /\ v * PGSIZE < b
  BY <1>1, RoundUp
<1>3. CASE b > a
  <2>1. PageRoundUp(a) <= PageRoundUp(b)
    BY <1>3, RoundUpGrows
  <2> QED BY <1>1, <1>2, <1>3, <2>1 DEF Larger
<1>4. CASE ~(b > a)
  <2>1. PageRoundUp(b) <= PageRoundUp(a)
    BY <1>4, RoundUpGrows
  <2> QED BY <1>1, <1>2, <1>4, <2>1 DEF Larger
<1> QED BY <1>3, <1>4

\* Pages below the end of user space.
LEMMA PagesInSpace ==
  ASSUME NEW n \in Nat, n <= USERTOP * PGSIZE
  PROVE  Under(n) \subseteq Vpns
<1> SUFFICES ASSUME NEW v \in Nat, v * PGSIZE < n PROVE v \in Vpns
  BY DEF Under
<1>1. v * PGSIZE < USERTOP * PGSIZE
  BY MemoryAssumption
<1>2. v < USERTOP
  <2>1. v >= USERTOP => v * PGSIZE >= USERTOP * PGSIZE
    BY MemoryAssumption
  <2>2. v * PGSIZE \in Nat /\ USERTOP * PGSIZE \in Nat
    BY MemoryAssumption
  <2> QED BY <1>1, <2>1, <2>2, MemoryAssumption
<1> QED BY <1>2, MemoryAssumption DEF Vpns

LEMMA AllocFromTypes ==
  ASSUME NEW m \in Mem, NEW first \in Nat, NEW last \in Int
  PROVE  AllocFrom(m, first, last) \in Mem
<1> DEFINE n == IF first <= last THEN last - first + 1 ELSE 0
           s == [i \in 1..(last - first + 1) |-> first + i - 1]
<1>1. n \in Nat /\ s \in [1..n -> Nat]
  OBVIOUS
<1>2. AllocFrom(m, first, last) = FoldPages(m, s)
  BY DEF FoldPages, AllocFrom, PageStep
<1> HIDE DEF n, s
<1>3. PICK t \in [0..n -> Mem] : PageRun(t, n, m, s)
  BY <1>1, PagesFold
<1>4. n \in 0..n
  BY <1>1
<1> QED BY <1>2, <1>3, <1>4 DEF PageRun

LEMMA AllocuvmTypes ==
  ASSUME NEW m \in Mem, NEW old \in Nat, NEW new \in Nat
  PROVE  Allocuvm(m, old, new) \in Mem
<1> DEFINE n == AllocFrom(m, PageRoundUp(old), PageRoundUp(new) - 1)
<1>1. n \in Mem
  BY RoundUp, AllocFromTypes
<1>2. [m EXCEPT !.ok = FALSE] \in Mem
  BY DEF Mem
<1>3. Allocuvm(m, old, new) = IF new >= USERTOP * PGSIZE THEN [m EXCEPT !.ok = FALSE]
                              ELSE IF n.ok THEN n ELSE GiveUp(Deallocuvm(n, new, old))
  BY DEF Allocuvm
<1> HIDE DEF n
<1>4. GiveUp(Deallocuvm(n, new, old)) \in Mem
  BY <1>1, DeallocuvmDoes, GiveUpDoes DEF Shrinks
<1> QED BY <1>1, <1>2, <1>3, <1>4

LEMMA AllocuvmDoes ==
  ASSUME NEW m \in Mem, m.ok, m.held = 0, NEW old \in Nat, NEW new \in Nat, Holds(m.d, old)
  PROVE  LET r == Allocuvm(m, old, new) IN
         /\ r \in Mem /\ SumOf(r) = SumOf(m) /\ r.held = 0
         /\ r.d.dir = m.d.dir /\ r.d.ktabs = m.d.ktabs
         /\ r.ok => new < USERTOP * PGSIZE /\ Holds(r.d, Larger(old, new))
         /\ ~r.ok => Holds(r.d, old)
<1> DEFINE first == PageRoundUp(old)
           last == PageRoundUp(new) - 1
           n == AllocFrom(m, first, last)
           r == Allocuvm(m, old, new)
<1>0. first \in Nat /\ last \in Int
  BY RoundUp
<1>1. r = IF new >= USERTOP * PGSIZE THEN [m EXCEPT !.ok = FALSE]
          ELSE IF n.ok THEN n ELSE GiveUp(Deallocuvm(n, new, old))
  BY DEF Allocuvm
<1>2. CASE new >= USERTOP * PGSIZE
  <2>1. r = [m EXCEPT !.ok = FALSE]
    BY <1>1, <1>2
  <2> HIDE DEF r
  <2>2. r \in Mem /\ ~r.ok /\ r.held = 0 /\ r.d = m.d /\ r.free = m.free
    BY <2>1 DEF Mem
  <2>3. SumOf(r) = SumOf(m)
    BY <2>2 DEF SumOf
  <2> QED BY <2>2, <2>3 DEF r
<1>3. CASE ~(new >= USERTOP * PGSIZE)
  <2>0. new < USERTOP * PGSIZE /\ USERTOP * PGSIZE \in Nat
    BY <1>3, MemoryAssumption
  <2>1. /\ Under(old) \cap (first..last) = {}
        /\ Under(old) \cup (first..last) = Under(Larger(old, new))
        /\ \A v \in first..last : v \in Nat /\ v * PGSIZE < new
    BY PagesBetween
  <2>2. m.d.pte = Under(old) /\ HasTables(m.d) /\ m.d.pte \subseteq Vpns /\ m.d.tabs \subseteq Tables
    BY DEF Holds
  <2>3. Extends(m, n, first, last)
    BY <1>0, <2>1, <2>2, AllocFromDoes
  <2>4. first..last \subseteq Vpns
    BY <2>0, <2>1, PagesInSpace DEF Under
  <2>5. n.d \in Dir /\ n.d.pte \subseteq Vpns /\ n.d.tabs \subseteq Tables /\ HasTables(n.d)
    <3>1. n.d \in Dir
      BY <2>3 DEF Extends, Mem
    <3> QED BY <2>2, <2>3, <2>4, <3>1 DEF Extends, Tables
  <2> DEFINE Does == /\ r \in Mem /\ SumOf(r) = SumOf(m) /\ r.held = 0
                     /\ r.d.dir = m.d.dir /\ r.d.ktabs = m.d.ktabs
                     /\ r.ok => new < USERTOP * PGSIZE /\ Holds(r.d, Larger(old, new))
                     /\ ~r.ok => Holds(r.d, old)
  <2>6. ASSUME n.ok PROVE Does
    <3>1. r = n
      BY <1>1, <1>3, <2>6
    <3> HIDE DEF r, n, first, last
    <3>2. Holds(n.d, Larger(old, new))
      BY <2>1, <2>2, <2>3, <2>5, <2>6 DEF Extends, Holds
    <3> QED BY <2>0, <2>3, <2>6, <3>1, <3>2 DEF Extends
  <2>7. ASSUME ~n.ok PROVE Does
    <3> DEFINE e == Deallocuvm(n, new, old)
    <3>0. e = Deallocuvm(n, new, old)
      OBVIOUS
    <3>1. r = GiveUp(e)
      BY <1>1, <1>3, <2>7
    <3>2. n \in Mem /\ SumOf(n) = SumOf(m) /\ n.d.dir = m.d.dir /\ n.d.ktabs = m.d.ktabs
          /\ first <= last /\ m.d.pte \subseteq n.d.pte /\ n.d.pte \subseteq m.d.pte \cup (first..last)
      BY <2>3, <2>7 DEF Extends
    <3>3. old < new
      <4>1. new <= old => PageRoundUp(new) <= PageRoundUp(old)
        BY RoundUpGrows
      <4> QED BY <3>2, <4>1, RoundUp
    <3>4. /\ e \in Mem /\ SumOf(e) = SumOf(n) /\ e.ok = n.ok
          /\ e.d.dir = n.d.dir /\ e.d.ktabs = n.d.ktabs /\ e.d.tabs = n.d.tabs
          /\ e.d.pte = {v \in n.d.pte : v * PGSIZE < old \/ ~(v * PGSIZE < new)}
      <4> HIDE DEF n, first, last, r, e
      <4>1. Shrinks(n, e, new, old)
        BY <3>0, <3>2, DeallocuvmDoes
      <4> QED BY <3>3, <4>1 DEF Shrinks
    <3>5. e.d.pte = Under(old)
      <4>1. \A v \in n.d.pte : v \in Nat /\ v * PGSIZE < new
        <5>1. \A v \in Under(old) : v \in Nat /\ v * PGSIZE < old /\ v * PGSIZE \in Nat
          BY MemoryAssumption DEF Under
        <5> HIDE DEF n, first, last
        <5> QED BY <2>1, <2>2, <3>2, <3>3, <5>1
      <4> HIDE DEF n, first, last, e
      <4>2. e.d.pte = {v \in n.d.pte : v * PGSIZE < old}
        BY <3>4, <4>1
      <4> QED BY <2>2, <3>2, <4>1, <4>2 DEF Under
    <3> HIDE DEF n, first, last, e, r
    <3>6. /\ r \in Mem /\ r.d = e.d /\ r.ok = e.ok /\ r.held = 0 /\ SumOf(r) = SumOf(e)
      BY <3>1, <3>4, GiveUpDoes
    <3>7. e.d \in Dir /\ HasTables(e.d)
      BY <2>5, <3>4 DEF Mem, HasTables
    <3>8. Holds(r.d, old)
      BY <2>2, <2>5, <3>4, <3>5, <3>6, <3>7 DEF Holds
    <3> QED BY <2>7, <3>2, <3>4, <3>6, <3>8
  <2> HIDE DEF n, r, first, last
  <2>8. Does
    BY <2>6, <2>7
  <2> QED BY <2>8 DEF r
<1> QED BY <1>2, <1>3

-----------------------------------------------------------------------------
\* setupkvm() and copyuvm().
TableStep(n, i) ==
  LET k == IF n.ok THEN Kalloc(n) ELSE n IN
  IF k.ok THEN [k EXCEPT !.d.ktabs = @ + 1, !.held = 0] ELSE k

\* The kernel's part of a directory, after k tables were asked for.
Tabled(m, r, k) ==
  /\ r \in Mem /\ SumOf(r) = SumOf(m)
  /\ r.d.dir = 1 /\ r.d.tabs = {} /\ r.d.pte = {} /\ r.held = 0
  /\ r.ok => r.d.ktabs = k
  /\ ~r.ok => r.d.ktabs < k /\ r.free = 0

LEMMA TableStepTypes ==
  ASSUME NEW n \in Mem, NEW i
  PROVE  TableStep(n, i) \in Mem
<1> DEFINE k == IF n.ok THEN Kalloc(n) ELSE n
           c == k.d.ktabs + 1
<1>1. k \in Mem
  BY KallocTypes
<1>2. TableStep(n, i) = IF k.ok THEN [k EXCEPT !.d.ktabs = c, !.held = 0] ELSE k
  BY DEF TableStep
<1> HIDE DEF k
<1>3. c \in Nat
  BY <1>1 DEF Mem, Dir
<1> HIDE DEF c
<1>4. [k EXCEPT !.d.ktabs = c, !.held = 0] \in Mem
  BY <1>1, <1>3 DEF Mem, Dir
<1> QED BY <1>1, <1>2, <1>4

LEMMA TabledFurther ==
  ASSUME NEW m \in Mem, NEW j \in Nat, NEW q, Tabled(m, q, j), NEW i
  PROVE  Tabled(m, TableStep(q, i), j + 1)
<1> DEFINE k == IF q.ok THEN Kalloc(q) ELSE q
           c == k.d.ktabs + 1
           r == TableStep(q, i)
<1>1. q \in Mem /\ r \in Mem
  BY TableStepTypes DEF Tabled
<1>2. r = IF k.ok THEN [k EXCEPT !.d.ktabs = c, !.held = 0] ELSE k
  BY DEF TableStep
<1>3. k \in Mem /\ k.d = q.d
  BY <1>1, KallocTypes
<1>4. /\ q.free \in Nat /\ q.d.ktabs \in Nat /\ Cardinality(q.d.tabs) = 0 /\ Cardinality(q.d.pte) = 0
  BY <1>1, FS_EmptySet DEF Tabled, Mem, Dir
<1> HIDE DEF r
<1>5. ASSUME ~q.ok PROVE Tabled(m, r, j + 1)
  <2>1. r = q
    BY <1>2, <1>5
  <2> QED BY <1>4, <1>5, <2>1 DEF Tabled
<1>6. k = Kalloc(q) \/ ~q.ok
  OBVIOUS
<1> HIDE DEF k
<1>7. ASSUME q.ok, q.free = 0 PROVE Tabled(m, r, j + 1)
  <2>1. k = [q EXCEPT !.ok = FALSE]
    BY <1>1, <1>6, <1>7, KallocTypes
  <2>2. r = k /\ ~r.ok /\ r.d = q.d /\ r.free = 0 /\ r.held = q.held
    BY <1>1, <1>2, <1>7, <2>1 DEF Mem
  <2>3. SumOf(r) = SumOf(q)
    BY <1>7, <2>2 DEF SumOf
  <2> QED BY <1>1, <1>4, <1>7, <2>2, <2>3 DEF Tabled
<1>8. ASSUME q.ok, q.free > 0 PROVE Tabled(m, r, j + 1)
  <2>1. k.ok /\ k.held = q.held + 1 /\ k.free = q.free - 1
    BY <1>1, <1>6, <1>8, KallocTypes
  <2>2. r = [k EXCEPT !.d.ktabs = c, !.held = 0] /\ c = q.d.ktabs + 1
    BY <1>2, <1>3, <2>1
  <2> HIDE DEF c
  <2>3. /\ r.ok /\ r.held = 0 /\ r.free = q.free - 1
        /\ r.d.dir = q.d.dir /\ r.d.ktabs = c /\ r.d.tabs = q.d.tabs /\ r.d.pte = q.d.pte
    BY <1>3, <2>1, <2>2 DEF Mem, Dir
  <2>4. SumOf(r) = SumOf(q)
    <3>1. q.d.dir = 1 /\ q.held = 0 /\ c = q.d.ktabs + 1
      BY <2>2 DEF Tabled
    <3>2. DirPages(q.d) = 1 + q.d.ktabs
      BY <1>4, <3>1 DEF DirPages
    <3>3. DirPages(r.d) = 2 + q.d.ktabs
      BY <1>4, <2>3, <3>1 DEF DirPages
    <3> QED BY <1>4, <2>3, <3>1, <3>2, <3>3 DEF SumOf
  <2> QED BY <1>1, <1>8, <2>2, <2>3, <2>4 DEF Tabled
<1> QED BY <1>4, <1>5, <1>7, <1>8 DEF r

FoldTables(m, s) == FoldLeft(TableStep, m, s)

TableRun(t, n, m, s) ==
  /\ t[0] = m
  /\ \A i \in 1..n : t[i] = TableStep(t[i - 1], s[i])
  /\ FoldTables(m, s) = t[n]

LEMMA TablesFold ==
  ASSUME NEW n \in Nat, NEW s \in [1..n -> Nat], NEW m \in Mem
  PROVE  \E t \in [0..n -> Mem] : TableRun(t, n, m, s)
<1> DEFINE F == [x \in (1..n) \X Mem |-> TableStep(x[2], s[x[1]])]
           Is(f) == f = [u \in SUBSET (1..n) |->
                           IF u = {} THEN m ELSE TableStep(f[u \ {Max(u)}], s[Max(u)])]
           g == CHOOSE f : Is(f)
<1>1. F \in [(1..n) \X Mem -> Mem]
  BY TableStepTypes
<1>2. PICK f \in [SUBSET (1..n) -> Mem] : Folds(f, n, m, F)
  <2> HIDE DEF F
  <2> QED BY <1>1, FoldLeftSteps
<1>3. Is(f)
  <2>1. ASSUME NEW u \in SUBSET (1..n), u # {}
        PROVE  F[<<Max(u), f[u \ {Max(u)}]>>] = TableStep(f[u \ {Max(u)}], s[Max(u)])
    BY <2>1, GreatestNumber
  <2> HIDE DEF F
  <2>2. \A u \in SUBSET (1..n) :
          f[u] = IF u = {} THEN m ELSE TableStep(f[u \ {Max(u)}], s[Max(u)])
    BY <1>2, <2>1 DEF Folds
  <2> QED BY <2>2
<1>4. Is(g)
  BY <1>3
<1>5. FoldTables(m, s) = g[1..n]
  BY DEF FoldTables, FoldLeft, MapThenFoldSet
<1> HIDE DEF g
<1>6. g[1..0] = m
  BY <1>4
<1>7. \A i \in 1..n : g[1..i] = TableStep(g[1..(i - 1)], s[i])
  <2> TAKE i \in 1..n
  <2> DEFINE u == 1..i
  <2>1. u \in SUBSET (1..n) /\ u # {} /\ Max(u) = i /\ u \ {Max(u)} = 1..(i - 1)
    BY Intervals
  <2> HIDE DEF u
  <2>2. g[u] = TableStep(g[u \ {Max(u)}], s[Max(u)])
    BY <1>4, <2>1
  <2>3. g[u] = TableStep(g[1..(i - 1)], s[i])
    BY <2>1, <2>2
  <2> QED BY <2>3 DEF u
<1> DEFINE t == [i \in 0..n |-> g[1..i]]
           S == {k \in Nat : k <= n => t[k] \in Mem}
<1>8. 0 \in S
  BY <1>6
<1>9. ASSUME NEW k \in Nat, k \in S PROVE k + 1 \in S
  <2> SUFFICES ASSUME k + 1 <= n PROVE t[k + 1] \in Mem
    OBVIOUS
  <2>1. t[k] \in Mem /\ t[k + 1] = TableStep(t[k], s[k + 1]) /\ s[k + 1] \in Nat
    BY <1>7, <1>9
  <2> QED BY <2>1, TableStepTypes
<1>10. Nat \subseteq S
  <2> HIDE DEF S
  <2> QED BY <1>8, <1>9, NumbersWith
<1>11. t \in [0..n -> Mem]
  <2>1. ASSUME NEW i \in 0..n PROVE g[1..i] \in Mem
    <3>1. i \in S
      <4>1. i \in Nat
        OBVIOUS
      <4> HIDE DEF S
      <4> QED BY <4>1, <1>10
    <3> QED BY <3>1
  <2> QED BY <2>1
<1>12. t[0] = m /\ t[n] = g[1..n] /\ \A i \in 1..n : t[i] = TableStep(t[i - 1], s[i])
  BY <1>6, <1>7
<1> HIDE DEF t
<1> QED BY <1>5, <1>11, <1>12 DEF TableRun

LEMMA TablesDone ==
  ASSUME NEW m \in Mem, NEW n \in Nat, NEW b, Tabled(m, b, 0)
  PROVE  Tabled(m, FoldTables(b, [i \in 1..n |-> i]), n)
<1> DEFINE s == [i \in 1..n |-> i]
<1>1. s \in [1..n -> Nat] /\ b \in Mem
  BY DEF Tabled
<1> HIDE DEF s
<1>2. PICK t \in [0..n -> Mem] : TableRun(t, n, b, s)
  BY <1>1, TablesFold
<1> DEFINE S == {k \in Nat : k <= n => Tabled(m, t[k], k)}
<1>3. 0 \in S
  BY <1>2 DEF TableRun
<1>4. ASSUME NEW k \in Nat, k \in S PROVE k + 1 \in S
  <2> SUFFICES ASSUME k + 1 <= n PROVE Tabled(m, t[k + 1], k + 1)
    OBVIOUS
  <2>1. k + 1 \in 1..n /\ (k + 1) - 1 = k
    OBVIOUS
  <2>2. Tabled(m, t[k], k)
    BY <1>4
  <2>3. t[k + 1] = TableStep(t[k], s[k + 1])
    BY <1>2, <2>1 DEF TableRun
  <2>4. Tabled(m, TableStep(t[k], s[k + 1]), k + 1)
    BY <2>2, TabledFurther
  <2> QED BY <2>3, <2>4
<1>5. n \in S
  <2> HIDE DEF S
  <2> QED BY <1>3, <1>4, NumbersWith
<1>6. Tabled(m, t[n], n)
  BY <1>5
<1> QED BY <1>2, <1>6 DEF TableRun, s

\* What setupkvm() makes.
KernelDir == [dir |-> 1, ktabs |-> KTABLES, tabs |-> {}, pte |-> {}]

SetUp(m, r) ==
  /\ r \in Mem /\ SumOf(r) = SumOf(m) /\ r.held = 0
  /\ r.ok => r.d = KernelDir
  /\ ~r.ok => r.d = NoDir
  /\ m.free > KTABLES => r.ok

LEMMA SetupkvmDoes ==
  ASSUME NEW m \in Mem, m.ok, m.held = 0, m.d = NoDir
  PROVE  SetUp(m, Setupkvm(m))
<1> DEFINE dir == Kalloc(m)
           first == [dir EXCEPT !.d.dir = 1, !.held = 0]
           all == FoldTables(first, [i \in 1..KTABLES |-> i])
           r == Setupkvm(m)
<1>0. r = IF ~dir.ok THEN dir ELSE IF all.ok THEN all ELSE Freevm(all)
  BY DEF Setupkvm, FoldTables, TableStep
<1>1. dir \in Mem /\ dir.d = m.d
  BY KallocTypes
<1>2. m.free \in Nat /\ KTABLES \in Nat /\ DirPages(NoDir) = 0
  BY MemoryAssumption, FS_EmptySet DEF Mem, DirPages, NoDir
<1>3. SumOf(m) = m.free
  BY <1>2 DEF SumOf
<1> HIDE DEF all, first, r
<1>4. CASE m.free = 0
  <2>1. dir = [m EXCEPT !.ok = FALSE]
    BY <1>4, KallocTypes
  <2>2. r = dir /\ ~r.ok /\ r.d = m.d /\ r.free = 0 /\ r.held = 0
    <3>1. ~dir.ok
      BY <2>1 DEF Mem
    <3>2. r = dir
      BY <1>0, <3>1
    <3> HIDE DEF dir
    <3> QED BY <1>1, <1>4, <2>1, <3>1, <3>2 DEF Mem
  <2> HIDE DEF dir
  <2>3. SumOf(r) = SumOf(m)
    <3>1. DirPages(r.d) = 0
      BY <1>2, <2>2
    <3> QED BY <1>3, <1>4, <2>2, <3>1 DEF SumOf
  <2>4. SetUp(m, r)
    BY <1>1, <1>2, <1>4, <2>2, <2>3 DEF SetUp
  <2> QED BY <2>4 DEF r
<1>5. CASE m.free > 0
  <2>1. dir.ok /\ dir.held = 1 /\ dir.free = m.free - 1
    BY <1>5, KallocTypes
  <2>2. first = [dir EXCEPT !.d.dir = 1, !.held = 0]
    BY DEF first
  <2> HIDE DEF dir
  <2>3. /\ first \in Mem /\ first.ok /\ first.held = 0 /\ first.free = m.free - 1
        /\ first.d.dir = 1 /\ first.d.ktabs = 0 /\ first.d.tabs = {} /\ first.d.pte = {}
    <3>1. dir.d \in Dir /\ dir.d = NoDir /\ dir.d.ktabs = 0 /\ dir.d.tabs = {} /\ dir.d.pte = {}
      BY <1>1 DEF Mem, NoDir
    <3>2. first \in Mem
      BY <1>1, <2>2, <3>1 DEF Mem, Dir
    <3>3. first.ok = dir.ok /\ first.held = 0 /\ first.free = dir.free
      BY <1>1, <2>2 DEF Mem
    <3>4. first.d = [dir.d EXCEPT !.dir = 1]
      BY <1>1, <2>2 DEF Mem
    <3>5. first.d.dir = 1 /\ first.d.ktabs = 0 /\ first.d.tabs = {} /\ first.d.pte = {}
      BY <3>1, <3>4 DEF Dir
    <3> QED BY <2>1, <3>2, <3>3, <3>5
  <2>4. SumOf(first) = SumOf(m)
    <3>1. DirPages(first.d) = 1
      BY <2>3, FS_EmptySet DEF DirPages
    <3> QED BY <1>2, <1>3, <2>3, <3>1 DEF SumOf
  <2>5. Tabled(m, first, 0)
    BY <2>3, <2>4 DEF Tabled
  <2>6. Tabled(m, all, KTABLES)
    BY <1>2, <2>5, TablesDone DEF all
  <2>7. CASE all.ok
    <3>1. r = all
      BY <1>0, <2>1, <2>7
    <3>2. all.d \in Dir /\ all.d.dir = 1 /\ all.d.ktabs = KTABLES /\ all.d.tabs = {} /\ all.d.pte = {}
      BY <2>6, <2>7 DEF Tabled, Mem
    <3>3. all.d = KernelDir
      BY <3>2 DEF KernelDir, Dir
    <3>4. SetUp(m, r)
      BY <2>6, <2>7, <3>1, <3>3 DEF SetUp, Tabled
    <3> QED BY <3>4 DEF r
  <2>8. CASE ~all.ok
    <3>1. r = Freevm(all)
      BY <1>0, <2>1, <2>8
    <3>2. all \in Mem /\ all.d.pte \subseteq Vpns
      BY <2>6 DEF Tabled
    <3>3. /\ r \in Mem /\ r.d = NoDir /\ r.ok = all.ok /\ r.held = all.held
          /\ r.free = all.free + DirPages(all.d)
      BY <3>1, <3>2, FreevmDoes
    <3>4. /\ all.free = 0 /\ all.held = 0 /\ all.d.ktabs < KTABLES /\ DirPages(all.d) = 1 + all.d.ktabs
          /\ all.d.ktabs \in Nat
      BY <2>6, <2>8, FS_EmptySet DEF Tabled, DirPages, Mem, Dir
    <3>5. SumOf(r) = SumOf(m)
      BY <1>2, <2>6, <3>3, <3>4 DEF SumOf, Tabled
    <3>6. SumOf(m) = 1 + all.d.ktabs
      BY <2>6, <3>4 DEF SumOf, Tabled
    <3>7. SetUp(m, r)
      BY <1>2, <1>3, <2>8, <3>3, <3>4, <3>5, <3>6 DEF SetUp
    <3> QED BY <3>7 DEF r
  <2> QED BY <2>7, <2>8
<1> QED BY <1>2, <1>4, <1>5

\* freevm() loses nothing.
LEMMA FreevmKeeps ==
  ASSUME NEW m \in Mem, m.d.pte \subseteq Vpns
  PROVE  /\ Freevm(m) \in Mem /\ Freevm(m).d = NoDir /\ Freevm(m).ok = m.ok
         /\ Freevm(m).held = m.held /\ SumOf(Freevm(m)) = SumOf(m)
         /\ Freevm(m).free = m.free + DirPages(m.d)
<1>1. DirPages(NoDir) = 0
  BY FS_EmptySet DEF DirPages, NoDir
<1>2. m.free \in Nat /\ m.held \in Nat /\ DirPages(m.d) \in Nat
  BY SumIsNumber DEF Mem
<1>3. /\ Freevm(m) \in Mem /\ Freevm(m).d = NoDir /\ Freevm(m).ok = m.ok
      /\ Freevm(m).held = m.held /\ Freevm(m).free = m.free + DirPages(m.d)
  BY FreevmDoes
<1>4. SumOf(Freevm(m)) = SumOf(m)
  BY <1>1, <1>2, <1>3 DEF SumOf
<1> QED BY <1>3, <1>4

\* An address space of its own with the pages below sz.
Whole(d, sz) == Holds(d, sz) /\ d.dir = 1 /\ d.ktabs = KTABLES

Copied(m, r, sz) ==
  /\ r \in Mem /\ SumOf(r) = SumOf(m) /\ r.held = 0
  /\ r.ok => Whole(r.d, sz)
  /\ ~r.ok => r.d = NoDir

LEMMA CopyuvmDoes ==
  ASSUME NEW m \in Mem, m.ok, m.held = 0, m.d = NoDir,
         NEW sz \in Nat, Under(sz) \subseteq Vpns
  PROVE  Copied(m, Copyuvm(m, sz), sz)
<1> DEFINE d == Setupkvm(m)
           last == PageRoundUp(sz) - 1
           n == AllocFrom(d, 0, last)
           r == Copyuvm(m, sz)
<1>1. r = IF ~d.ok THEN d ELSE IF n.ok THEN n ELSE Freevm(GiveUp(n))
  BY DEF Copyuvm
<1>2. SetUp(m, d)
  BY SetupkvmDoes
<1>3. last \in Int /\ 0..last = Under(sz) /\ n = AllocFrom(d, 0, last)
  BY RoundUp, UnderIs
<1> HIDE DEF d, last, n, r
<1>4. ASSUME ~d.ok PROVE Copied(m, r, sz)
  BY <1>1, <1>2, <1>4 DEF Copied, SetUp
<1>5. ASSUME d.ok PROVE Copied(m, r, sz)
  <2>1. /\ d \in Mem /\ d.held = 0 /\ SumOf(d) = SumOf(m) /\ d.d \in Dir
        /\ d.d.dir = 1 /\ d.d.ktabs = KTABLES /\ d.d.tabs = {} /\ d.d.pte = {}
    BY <1>2, <1>5 DEF SetUp, KernelDir, Mem
  <2>2. HasTables(d.d) /\ \A v \in 0..last : v \notin d.d.pte
    BY <2>1 DEF HasTables
  <2>3. Extends(d, n, 0, last)
    BY <1>3, <1>5, <2>1, <2>2, AllocFromDoes
  <2>4. /\ n \in Mem /\ n.d \in Dir /\ SumOf(n) = SumOf(m) /\ n.d.dir = 1 /\ n.d.ktabs = KTABLES
        /\ n.d.tabs \subseteq Tables /\ HasTables(n.d) /\ n.d.pte \subseteq Vpns
    BY <1>3, <2>1, <2>3 DEF Extends, Mem, Tables
  <2>5. ASSUME n.ok PROVE Copied(m, r, sz)
    <3>1. r = n
      BY <1>1, <1>5, <2>5
    <3>2. n.held = 0 /\ n.d.pte = Under(sz)
      BY <1>3, <2>1, <2>3, <2>5 DEF Extends
    <3> QED BY <2>4, <2>5, <3>1, <3>2 DEF Copied, Whole, Holds
  <2>6. ASSUME ~n.ok PROVE Copied(m, r, sz)
    <3>1. r = Freevm(GiveUp(n))
      BY <1>1, <1>5, <2>6
    <3>2. /\ GiveUp(n) \in Mem /\ GiveUp(n).d = n.d /\ ~GiveUp(n).ok
          /\ GiveUp(n).held = 0 /\ SumOf(GiveUp(n)) = SumOf(n)
      BY <2>4, <2>6, GiveUpDoes
    <3>3. r \in Mem /\ r.d = NoDir /\ ~r.ok /\ r.held = 0 /\ SumOf(r) = SumOf(n)
      BY <2>4, <3>1, <3>2, FreevmKeeps
    <3> QED BY <2>4, <3>3 DEF Copied
  <2> QED BY <2>5, <2>6
<1>6. Copied(m, r, sz)
  BY <1>4, <1>5
<1> QED BY <1>6 DEF r

-----------------------------------------------------------------------------
\* exec(): the segments, then the stack.
LEMMA MaxOfTwo ==
  ASSUME NEW a \in Nat, NEW b \in Nat
  PROVE  Max({a, b}) = Larger(a, b)
<1> DEFINE S == {a, b}
           x == Larger(a, b)
<1>1. x \in S /\ \A y \in S : x >= y
  BY DEF Larger
<1>2. Max(S) \in S /\ \A y \in S : Max(S) >= y
  <2> HIDE DEF S, x
  <2> QED BY <1>1, Zenon DEF Max
<1>3. Max(S) \in Nat /\ Max(S) >= x /\ x >= Max(S) /\ x \in Nat
  BY <1>1, <1>2
<1> HIDE DEF x
<1>4. Max(S) = x
  BY <1>3
<1> QED BY <1>4 DEF x

Loads == [m : Mem, sz : Nat]
SegmentStep(a, end) ==
  IF a.m.ok THEN [m |-> Allocuvm(a.m, a.sz, end), sz |-> Max({a.sz, end})] ELSE a

\* What is known of a load, before and after each segment.
Loaded(m, a) ==
  /\ a \in Loads /\ SumOf(a.m) = SumOf(m) /\ a.m.held = 0
  /\ a.m.d.pte \subseteq Vpns
  /\ a.m.ok => Whole(a.m.d, a.sz) /\ a.sz < USERTOP * PGSIZE

LEMMA SegmentTypes ==
  ASSUME NEW a \in Loads, NEW end \in Nat
  PROVE  SegmentStep(a, end) \in Loads
<1>1. a.m \in Mem /\ a.sz \in Nat
  BY DEF Loads
<1>2. Allocuvm(a.m, a.sz, end) \in Mem /\ Max({a.sz, end}) \in Nat
  BY <1>1, AllocuvmTypes, MaxOfTwo DEF Larger
<1> QED BY <1>2 DEF SegmentStep, Loads

LEMMA LoadedFurther ==
  ASSUME NEW m \in Mem, NEW a, Loaded(m, a), NEW end \in Nat
  PROVE  Loaded(m, SegmentStep(a, end))
<1> DEFINE r == SegmentStep(a, end)
           k == Allocuvm(a.m, a.sz, end)
<1>1. a \in Loads /\ r \in Loads /\ a.m \in Mem /\ a.sz \in Nat
  BY SegmentTypes DEF Loaded, Loads
<1>2. ASSUME ~a.m.ok PROVE Loaded(m, r)
  <2>1. r = a
    BY <1>2 DEF SegmentStep
  <2> HIDE DEF r
  <2> QED BY <2>1
<1>3. ASSUME a.m.ok PROVE Loaded(m, r)
  <2>1. r.m = k /\ r.sz = Larger(a.sz, end)
    BY <1>1, <1>3, MaxOfTwo DEF SegmentStep
  <2>2. Holds(a.m.d, a.sz) /\ a.m.held = 0 /\ a.m.d.dir = 1 /\ a.m.d.ktabs = KTABLES
    BY <1>3 DEF Loaded, Whole
  <2>3. /\ k \in Mem /\ SumOf(k) = SumOf(a.m) /\ k.held = 0
        /\ k.d.dir = 1 /\ k.d.ktabs = KTABLES
        /\ k.ok => end < USERTOP * PGSIZE /\ Holds(k.d, Larger(a.sz, end))
        /\ ~k.ok => Holds(k.d, a.sz)
    BY <1>1, <1>3, <2>2, AllocuvmDoes
  <2> HIDE DEF k, r
  <2>4. a.sz < USERTOP * PGSIZE
    BY <1>3 DEF Loaded
  <2>5. k.ok => Larger(a.sz, end) < USERTOP * PGSIZE
    BY <2>3, <2>4 DEF Larger
  <2> QED BY <1>1, <2>1, <2>3, <2>5 DEF Loaded, Whole, Holds
<1> QED BY <1>2, <1>3

FoldSegments(a, s) == FoldLeft(SegmentStep, a, s)

SegmentRun(t, n, m, s) ==
  /\ t[0] = m
  /\ \A i \in 1..n : t[i] = SegmentStep(t[i - 1], s[i])
  /\ FoldSegments(m, s) = t[n]

LEMMA SegmentsFold ==
  ASSUME NEW n \in Nat, NEW s \in [1..n -> Nat], NEW m \in Loads
  PROVE  \E t \in [0..n -> Loads] : SegmentRun(t, n, m, s)
<1> DEFINE F == [x \in (1..n) \X Loads |-> SegmentStep(x[2], s[x[1]])]
           Is(f) == f = [u \in SUBSET (1..n) |->
                           IF u = {} THEN m ELSE SegmentStep(f[u \ {Max(u)}], s[Max(u)])]
           g == CHOOSE f : Is(f)
<1>1. F \in [(1..n) \X Loads -> Loads]
  BY SegmentTypes
<1>2. PICK f \in [SUBSET (1..n) -> Loads] : Folds(f, n, m, F)
  <2> HIDE DEF F
  <2> QED BY <1>1, FoldLeftSteps
<1>3. Is(f)
  <2>1. ASSUME NEW u \in SUBSET (1..n), u # {}
        PROVE  F[<<Max(u), f[u \ {Max(u)}]>>] = SegmentStep(f[u \ {Max(u)}], s[Max(u)])
    BY <2>1, GreatestNumber
  <2> HIDE DEF F
  <2>2. \A u \in SUBSET (1..n) :
          f[u] = IF u = {} THEN m ELSE SegmentStep(f[u \ {Max(u)}], s[Max(u)])
    BY <1>2, <2>1 DEF Folds
  <2> QED BY <2>2
<1>4. Is(g)
  BY <1>3
<1>5. FoldSegments(m, s) = g[1..n]
  BY DEF FoldSegments, FoldLeft, MapThenFoldSet
<1> HIDE DEF g
<1>6. g[1..0] = m
  BY <1>4
<1>7. \A i \in 1..n : g[1..i] = SegmentStep(g[1..(i - 1)], s[i])
  <2> TAKE i \in 1..n
  <2> DEFINE u == 1..i
  <2>1. u \in SUBSET (1..n) /\ u # {} /\ Max(u) = i /\ u \ {Max(u)} = 1..(i - 1)
    BY Intervals
  <2> HIDE DEF u
  <2>2. g[u] = SegmentStep(g[u \ {Max(u)}], s[Max(u)])
    BY <1>4, <2>1
  <2>3. g[u] = SegmentStep(g[1..(i - 1)], s[i])
    BY <2>1, <2>2
  <2> QED BY <2>3 DEF u
<1> DEFINE t == [i \in 0..n |-> g[1..i]]
           S == {k \in Nat : k <= n => t[k] \in Loads}
<1>8. 0 \in S
  BY <1>6
<1>9. ASSUME NEW k \in Nat, k \in S PROVE k + 1 \in S
  <2> SUFFICES ASSUME k + 1 <= n PROVE t[k + 1] \in Loads
    OBVIOUS
  <2>1. t[k] \in Loads /\ t[k + 1] = SegmentStep(t[k], s[k + 1]) /\ s[k + 1] \in Nat
    BY <1>7, <1>9
  <2> QED BY <2>1, SegmentTypes
<1>10. Nat \subseteq S
  <2> HIDE DEF S
  <2> QED BY <1>8, <1>9, NumbersWith
<1>11. t \in [0..n -> Loads]
  <2>1. ASSUME NEW i \in 0..n PROVE g[1..i] \in Loads
    <3>1. i \in S
      <4>1. i \in Nat
        OBVIOUS
      <4> HIDE DEF S
      <4> QED BY <4>1, <1>10
    <3> QED BY <3>1
  <2> QED BY <2>1
<1>12. t[0] = m /\ t[n] = g[1..n] /\ \A i \in 1..n : t[i] = SegmentStep(t[i - 1], s[i])
  BY <1>6, <1>7
<1> HIDE DEF t
<1> QED BY <1>5, <1>11, <1>12 DEF SegmentRun

LEMMA AllLoaded ==
  ASSUME NEW m \in Mem, NEW a, Loaded(m, a), NEW program \in Seq(Nat)
  PROVE  Loaded(m, FoldSegments(a, program))
<1> DEFINE n == Len(program)
<1>1. n \in Nat /\ program \in [1..n -> Nat] /\ a \in Loads
  BY DEF Loaded
<1> HIDE DEF n
<1>2. PICK t \in [0..n -> Loads] : SegmentRun(t, n, a, program)
  BY <1>1, SegmentsFold
<1> DEFINE S == {k \in Nat : k <= n => Loaded(m, t[k])}
<1>3. 0 \in S
  BY <1>2 DEF SegmentRun
<1>4. ASSUME NEW k \in Nat, k \in S PROVE k + 1 \in S
  <2> SUFFICES ASSUME k + 1 <= n PROVE Loaded(m, t[k + 1])
    OBVIOUS
  <2>1. k + 1 \in 1..n /\ (k + 1) - 1 = k
    BY <1>1
  <2>2. Loaded(m, t[k]) /\ program[k + 1] \in Nat
    BY <1>1, <1>4, <2>1
  <2>3. t[k + 1] = SegmentStep(t[k], program[k + 1])
    BY <1>2, <2>1 DEF SegmentRun
  <2>4. Loaded(m, SegmentStep(t[k], program[k + 1]))
    BY <2>2, LoadedFurther
  <2> QED BY <2>3, <2>4
<1>5. n \in S
  <2> HIDE DEF S
  <2> QED BY <1>1, <1>3, <1>4, NumbersWith
<1>6. Loaded(m, t[n])
  BY <1>1, <1>5
<1> QED BY <1>2, <1>6 DEF SegmentRun

\* What exec() loads into the pages that are free.
Load(free, program) == FoldSegments([m |-> Setupkvm(Begin(free, NoDir)), sz |-> 0], program)
StackTop(load) == PageRoundUp(load.sz) * PGSIZE + 2 * PGSIZE
Image(load) ==
  IF load.m.ok THEN Allocuvm(load.m, PageRoundUp(load.sz) * PGSIZE, StackTop(load)) ELSE load.m

LEMMA BeginAny ==
  ASSUME NEW free \in Nat, NEW d \in Dir
  PROVE  LET m == Begin(free, d) IN
         m \in Mem /\ m.ok /\ m.held = 0 /\ m.free = free /\ m.d = d /\ SumOf(m) = free + DirPages(d)
<1> DEFINE m == Begin(free, d)
<1>1. m \in Mem /\ m.ok /\ m.held = 0 /\ m.free = free /\ m.d = d
  BY DEF Begin, Mem
<1> HIDE DEF m
<1>2. DirPages(d) \in Nat
  BY <1>1, SumIsNumber
<1>3. SumOf(m) = free + DirPages(d)
  BY <1>1, <1>2 DEF SumOf
<1> QED BY <1>1, <1>3 DEF m

LEMMA BeginIs ==
  ASSUME NEW free \in Nat
  PROVE  LET m == Begin(free, NoDir) IN
         m \in Mem /\ m.ok /\ m.held = 0 /\ m.free = free /\ m.d = NoDir /\ SumOf(m) = free
<1> DEFINE m == Begin(free, NoDir)
<1>1. {} \in FinSets /\ Cardinality({}) = 0
  BY FS_EmptySet DEF FinSets
<1>2. m \in Mem /\ m.ok /\ m.held = 0 /\ m.free = free /\ m.d = NoDir
  BY <1>1 DEF Begin, Mem, Dir, NoDir
<1>3. DirPages(NoDir) = 0
  BY <1>1 DEF DirPages, NoDir
<1>4. SumOf(m) = free
  <2> HIDE DEF m
  <2> QED BY <1>2, <1>3 DEF SumOf
<1> QED BY <1>2, <1>4

LEMMA LoadDoes ==
  ASSUME NEW free \in Nat, NEW program \in Seq(Nat)
  PROVE  Loaded(Begin(free, NoDir), Load(free, program))
<1> DEFINE m == Begin(free, NoDir)
           new == Setupkvm(m)
           a == [m |-> new, sz |-> 0]
<1>1. m \in Mem /\ m.ok /\ m.held = 0 /\ m.d = NoDir
  BY BeginIs
<1> HIDE DEF m
<1>2. SetUp(m, new)
  BY <1>1, SetupkvmDoes
<1> HIDE DEF new
<1>3. a \in Loads /\ a.m = new /\ a.sz = 0
  BY <1>2 DEF SetUp, Loads
<1> HIDE DEF a
<1>4. Under(0) = {} /\ 0 < USERTOP * PGSIZE
  <2>1. \A v \in Nat : ~(v * PGSIZE < 0)
    BY MemoryAssumption
  <2>2. \A x \in Nat, y \in Nat : x > 0 /\ y > 0 => 0 < x * y
    OBVIOUS
  <2>3. 0 < USERTOP * PGSIZE
    BY <2>2, MemoryAssumption
  <2> QED BY <2>1, <2>3 DEF Under
<1>5. new.ok => Whole(new.d, 0)
  <2>1. new.ok => new.d \in Dir /\ new.d = KernelDir
    BY <1>2 DEF SetUp, Mem
  <2>2. new.ok => new.d.dir = 1 /\ new.d.ktabs = KTABLES /\ new.d.tabs = {} /\ new.d.pte = {}
    BY <2>1 DEF KernelDir
  <2>3. new.ok => HasTables(new.d)
    BY <2>2 DEF HasTables
  <2> QED BY <1>4, <2>1, <2>2, <2>3 DEF Whole, Holds
<1>6. new.d.pte \subseteq Vpns
  BY <1>2 DEF SetUp, KernelDir, NoDir
<1>7. Loaded(m, a)
  BY <1>2, <1>3, <1>4, <1>5, <1>6 DEF Loaded, SetUp
<1>8. Loaded(m, FoldSegments(a, program))
  BY <1>1, <1>7, AllLoaded
<1> QED BY <1>8 DEF Load, a, new, m

\* The pages below a whole number of pages.
LEMMA WholePages ==
  ASSUME NEW n \in Nat
  PROVE  /\ PageRoundUp(n) * PGSIZE \in Nat
         /\ Under(PageRoundUp(n) * PGSIZE) = Under(n)
<1> DEFINE q == PageRoundUp(n)
<1>1. q \in Nat /\ \A v \in Nat : v * PGSIZE < n <=> v < q
  BY RoundUp
<1> HIDE DEF q
<1>2. ASSUME NEW v \in Nat PROVE v * PGSIZE < q * PGSIZE <=> v < q
  <2>1. v < q => v * PGSIZE < q * PGSIZE
    BY <1>1, MemoryAssumption
  <2>2. v >= q => v * PGSIZE >= q * PGSIZE
    BY <1>1, MemoryAssumption
  <2>3. v * PGSIZE \in Nat /\ q * PGSIZE \in Nat
    BY <1>1, MemoryAssumption
  <2> QED BY <1>1, <2>1, <2>2, <2>3
<1>3. q * PGSIZE \in Nat
  BY <1>1, MemoryAssumption
<1>4. Under(q * PGSIZE) = Under(n)
  BY <1>1, <1>2 DEF Under
<1> QED BY <1>3, <1>4 DEF q

Imaged(free, r, sz) ==
  /\ r \in Mem /\ SumOf(r) = free /\ r.held = 0 /\ r.d.pte \subseteq Vpns
  /\ sz \in Nat
  /\ r.ok => Whole(r.d, sz) /\ sz < USERTOP * PGSIZE

LEMMA ImageDoes ==
  ASSUME NEW free \in Nat, NEW program \in Seq(Nat)
  PROVE  LET load == Load(free, program) IN Imaged(free, Image(load), StackTop(load))
<1> DEFINE m == Begin(free, NoDir)
           load == Load(free, program)
           base == PageRoundUp(load.sz) * PGSIZE
           sz == StackTop(load)
           r == Image(load)
<1>1. Loaded(m, load) /\ SumOf(m) = free
  BY LoadDoes, BeginIs
<1>2. r = IF load.m.ok THEN Allocuvm(load.m, base, sz) ELSE load.m
  BY DEF Image
<1> HIDE DEF m, load, r
<1>3. load \in Loads /\ load.m \in Mem /\ load.sz \in Nat
  BY <1>1 DEF Loaded, Loads
<1>4. base \in Nat /\ Under(base) = Under(load.sz)
  BY <1>3, WholePages
<1>5. sz = base + 2 * PGSIZE
  BY DEF StackTop
<1> HIDE DEF base, sz
<1>6. sz \in Nat /\ Larger(base, sz) = sz
  BY <1>4, <1>5, MemoryAssumption DEF Larger
<1>7. ASSUME ~load.m.ok PROVE Imaged(free, r, sz)
  <2>1. r = load.m
    BY <1>2, <1>7
  <2> QED BY <1>1, <1>3, <1>6, <1>7, <2>1 DEF Loaded, Imaged
<1>8. ASSUME load.m.ok PROVE Imaged(free, r, sz)
  <2>1. r = Allocuvm(load.m, base, sz)
    BY <1>2, <1>8
  <2>2. Holds(load.m.d, base) /\ load.m.d.dir = 1 /\ load.m.d.ktabs = KTABLES /\ load.m.held = 0
    BY <1>1, <1>4, <1>8 DEF Loaded, Whole, Holds
  <2>3. /\ r \in Mem /\ SumOf(r) = SumOf(load.m) /\ r.held = 0
        /\ r.d.dir = 1 /\ r.d.ktabs = KTABLES
        /\ r.ok => sz < USERTOP * PGSIZE /\ Holds(r.d, Larger(base, sz))
        /\ ~r.ok => Holds(r.d, base)
    BY <1>3, <1>4, <1>6, <1>8, <2>1, <2>2, AllocuvmDoes
  <2> QED BY <1>1, <1>6, <2>3 DEF Loaded, Imaged, Whole, Holds
<1>9. Imaged(free, r, sz)
  BY <1>7, <1>8
<1> QED BY <1>9 DEF r, sz, load

-----------------------------------------------------------------------------
\* The sum over the processes.
Counted(f, s) ==
  \A u \in SUBSET Ids :
    f[u] = IF u = {} THEN 0 ELSE f[u \ {CHOOSE x \in u : TRUE}] + PagesOf(s[CHOOSE x \in u : TRUE])

LEMMA HeldIsCount ==
  ASSUME NEW s, \A p \in Ids : PagesOf(s[p]) \in Nat
  PROVE  \E f \in [SUBSET Ids -> Nat] : Counted(f, s) /\ PagesHeld(s) = f[Ids]
<1> DEFINE c == [u \in SUBSET Ids |-> CHOOSE x \in u : TRUE]
           F == [x \in Ids \X Nat |-> x[2] + PagesOf(s[x[1]])]
           Is(f) == f = [u \in SUBSET Ids |->
                           IF u = {} THEN 0
                           ELSE f[u \ {CHOOSE x \in u : TRUE}] + PagesOf(s[CHOOSE x \in u : TRUE])]
           g == CHOOSE f : Is(f)
<1>1. F \in [Ids \X Nat -> Nat]
  OBVIOUS
<1>2. IsFiniteSet(Ids)
  BY MemoryAssumption, FS_Interval DEF Ids
<1>3. Picks(c, Ids)
  BY DEF Picks
<1>4. PICK f \in [SUBSET Ids -> Nat] : Recurs(f, Ids, c, 0, F)
  <2> HIDE DEF c, F
  <2> QED BY <1>1, <1>2, <1>3, RecursionOverSubsets
<1>5. ASSUME NEW u \in SUBSET Ids
      PROVE  f[u] = IF u = {} THEN 0
                    ELSE f[u \ {CHOOSE x \in u : TRUE}] + PagesOf(s[CHOOSE x \in u : TRUE])
  <2>1. f[u] = IF u = {} THEN 0 ELSE F[<<c[u], f[u \ {c[u]}]>>]
    BY <1>4 DEF Recurs
  <2>2. u # {} => c[u] \in Ids /\ f[u \ {c[u]}] \in Nat
    BY <1>3, <1>4 DEF Picks
  <2>3. u # {} => F[<<c[u], f[u \ {c[u]}]>>] = f[u \ {c[u]}] + PagesOf(s[c[u]])
    BY <2>2
  <2>4. c[u] = CHOOSE x \in u : TRUE
    OBVIOUS
  <2> HIDE DEF c, F
  <2> QED BY <2>1, <2>3, <2>4
<1>6. Is(f)
  BY <1>5
<1>7. Is(g)
  BY <1>6
<1>8. PagesHeld(s) = g[Ids]
  BY DEF PagesHeld, FoldSet, MapThenFoldSet
<1> HIDE DEF g
<1>9. Counted(g, s)
  BY <1>7 DEF Counted
<1> DEFINE S == {k \in Nat : \A u \in SUBSET Ids : Cardinality(u) = k => g[u] \in Nat}
<1>10. \A u \in SUBSET Ids : /\ IsFiniteSet(u) /\ Cardinality(u) \in Nat
                             /\ Cardinality(u) = 0 <=> u = {}
                             /\ \A x \in u : Cardinality(u \ {x}) = Cardinality(u) - 1
  BY <1>2, FS_Subset, FS_CardinalityType, FS_EmptySet, FS_RemoveElement
<1>11. 0 \in S
  BY <1>9, <1>10 DEF Counted
<1>12. ASSUME NEW k \in Nat, k \in S PROVE k + 1 \in S
  <2> SUFFICES ASSUME NEW u \in SUBSET Ids, Cardinality(u) = k + 1 PROVE g[u] \in Nat
    OBVIOUS
  <2> DEFINE x == CHOOSE y \in u : TRUE
  <2>1. u # {}
    BY <1>10
  <2>2. x \in u
    BY <2>1
  <2>3. g[u] = g[u \ {x}] + PagesOf(s[x])
    BY <1>9, <2>1 DEF Counted
  <2> HIDE DEF x
  <2>4. Cardinality(u \ {x}) = k /\ u \ {x} \in SUBSET Ids
    BY <1>10, <2>2
  <2>5. g[u \ {x}] \in Nat /\ PagesOf(s[x]) \in Nat
    BY <1>12, <2>2, <2>4
  <2> QED BY <2>3, <2>5
<1>13. Nat \subseteq S
  <2> HIDE DEF S
  <2> QED BY <1>11, <1>12, NumbersWith
<1>14. \A u \in SUBSET Ids : g[u] \in Nat
  BY <1>10, <1>13
<1>15. g \in [SUBSET Ids -> Nat]
  BY <1>7, <1>14
<1> QED BY <1>8, <1>9, <1>15

\* Only process q changes.
LEMMA HeldChanges ==
  ASSUME NEW s, \A p \in Ids : PagesOf(s[p]) \in Nat,
         NEW t, \A p \in Ids : PagesOf(t[p]) \in Nat,
         NEW q \in Ids, \A p \in Ids : p # q => PagesOf(t[p]) = PagesOf(s[p])
  PROVE  /\ PagesHeld(s) \in Nat /\ PagesHeld(t) \in Nat
         /\ PagesHeld(t) = PagesHeld(s) - PagesOf(s[q]) + PagesOf(t[q])
<1>1. PICK f \in [SUBSET Ids -> Nat] : Counted(f, s) /\ PagesHeld(s) = f[Ids]
  BY HeldIsCount
<1>2. PICK g \in [SUBSET Ids -> Nat] : Counted(g, t) /\ PagesHeld(t) = g[Ids]
  BY HeldIsCount
<1>3. \A u \in SUBSET Ids : /\ IsFiniteSet(u) /\ Cardinality(u) \in Nat
                            /\ Cardinality(u) = 0 <=> u = {}
                            /\ \A x \in u : Cardinality(u \ {x}) = Cardinality(u) - 1
  <2>1. IsFiniteSet(Ids)
    BY MemoryAssumption, FS_Interval DEF Ids
  <2> QED BY <2>1, FS_Subset, FS_CardinalityType, FS_EmptySet, FS_RemoveElement
<1> DEFINE Moved(u) == g[u] = IF q \in u THEN f[u] - PagesOf(s[q]) + PagesOf(t[q]) ELSE f[u]
           S == {k \in Nat : \A u \in SUBSET Ids : Cardinality(u) = k => Moved(u)}
<1>4. 0 \in S
  BY <1>1, <1>2, <1>3 DEF Counted
<1>5. ASSUME NEW k \in Nat, k \in S PROVE k + 1 \in S
  <2> SUFFICES ASSUME NEW u \in SUBSET Ids, Cardinality(u) = k + 1 PROVE Moved(u)
    OBVIOUS
  <2> DEFINE x == CHOOSE y \in u : TRUE
  <2>1. u # {}
    BY <1>3
  <2>2. x \in u
    BY <2>1
  <2>3. f[u] = f[u \ {x}] + PagesOf(s[x]) /\ g[u] = g[u \ {x}] + PagesOf(t[x])
    BY <1>1, <1>2, <2>1 DEF Counted
  <2> HIDE DEF x
  <2>4. Cardinality(u \ {x}) = k /\ u \ {x} \in SUBSET Ids
    BY <1>3, <2>2
  <2>5. Moved(u \ {x})
    BY <1>5, <2>4
  <2>6. /\ f[u \ {x}] \in Nat /\ PagesOf(s[x]) \in Nat /\ PagesOf(t[x]) \in Nat
        /\ PagesOf(s[q]) \in Nat /\ PagesOf(t[q]) \in Nat
    BY <2>2, <2>4
  <2>7. CASE x = q
    BY <2>2, <2>3, <2>5, <2>6, <2>7
  <2>8. CASE x # q
    <3>1. PagesOf(t[x]) = PagesOf(s[x]) /\ (q \in u <=> q \in u \ {x})
      BY <2>2, <2>8
    <3> QED BY <2>3, <2>5, <2>6, <3>1
  <2> QED BY <2>7, <2>8
<1>6. Nat \subseteq S
  <2> HIDE DEF S
  <2> QED BY <1>4, <1>5, NumbersWith
<1>7. Moved(Ids)
  BY <1>3, <1>6
<1> QED BY <1>1, <1>2, <1>7

LEMMA HeldNone ==
  ASSUME NEW s, \A p \in Ids : PagesOf(s[p]) = 0
  PROVE  PagesHeld(s) = 0
<1>1. PICK f \in [SUBSET Ids -> Nat] : Counted(f, s) /\ PagesHeld(s) = f[Ids]
  BY HeldIsCount
<1>2. \A u \in SUBSET Ids : /\ IsFiniteSet(u) /\ Cardinality(u) \in Nat
                            /\ Cardinality(u) = 0 <=> u = {}
                            /\ \A x \in u : Cardinality(u \ {x}) = Cardinality(u) - 1
  <2>1. IsFiniteSet(Ids)
    BY MemoryAssumption, FS_Interval DEF Ids
  <2> QED BY <2>1, FS_Subset, FS_CardinalityType, FS_EmptySet, FS_RemoveElement
<1> DEFINE S == {k \in Nat : \A u \in SUBSET Ids : Cardinality(u) = k => f[u] = 0}
<1>3. 0 \in S
  BY <1>1, <1>2 DEF Counted
<1>4. ASSUME NEW k \in Nat, k \in S PROVE k + 1 \in S
  <2> SUFFICES ASSUME NEW u \in SUBSET Ids, Cardinality(u) = k + 1 PROVE f[u] = 0
    OBVIOUS
  <2> DEFINE x == CHOOSE y \in u : TRUE
  <2>1. u # {}
    BY <1>2
  <2>2. x \in u
    BY <2>1
  <2>3. f[u] = f[u \ {x}] + PagesOf(s[x])
    BY <1>1, <2>1 DEF Counted
  <2> HIDE DEF x
  <2>4. Cardinality(u \ {x}) = k /\ u \ {x} \in SUBSET Ids
    BY <1>2, <2>2
  <2>5. f[u \ {x}] = 0 /\ PagesOf(s[x]) = 0
    BY <1>4, <2>2, <2>4
  <2> QED BY <2>3, <2>5
<1>5. Nat \subseteq S
  <2> HIDE DEF S
  <2> QED BY <1>3, <1>4, NumbersWith
<1> QED BY <1>1, <1>2, <1>5

-----------------------------------------------------------------------------
\* The inductive invariant.  A process that is used holds exactly the pages below
\* its size; one that is not has nothing.
Spaces == [life : {"unused", "used", "doomed"}, sz : Nat, kstack : 0..1, d : Dir]

SpaceOK(s) ==
  /\ s \in Spaces
  /\ s.sz <= USERTOP * PGSIZE
  /\ s.d.dir \in 0..1 /\ s.d.ktabs \in 0..KTABLES
  /\ s.d.tabs \subseteq Tables /\ s.d.pte \subseteq Vpns
  /\ s.life = "used" => s.kstack = 1 /\ Holds(s.d, s.sz)
  /\ s.life = "unused" => s = NoSpace

MemoryInv ==
  /\ freePages \in Nat
  /\ space \in [Ids -> Spaces]
  /\ \A p \in Ids : SpaceOK(space[p])
  /\ freePages + PagesHeld(space) = NPAGES

LEMMA SpaceCounts ==
  ASSUME NEW s \in Spaces
  PROVE  /\ PagesOf(s) = s.kstack + DirPages(s.d)
         /\ DirPages(s.d) \in Nat /\ PagesOf(s) \in Nat
<1>1. s.d \in Dir /\ s.kstack \in Nat /\ s.d.dir \in Nat /\ s.d.ktabs \in Nat
      /\ s.d.tabs \in FinSets /\ s.d.pte \in FinSets
  BY DEF Spaces, Dir
<1>2. Cardinality(s.d.tabs) \in Nat /\ Cardinality(s.d.pte) \in Nat
  BY <1>1, FS_CardinalityType DEF FinSets
<1> QED BY <1>1, <1>2 DEF PagesOf, DirPages

LEMMA NothingIsOK ==
  SpaceOK(NoSpace) /\ PagesOf(NoSpace) = 0
<1>1. {} \in FinSets /\ Cardinality({}) = 0
  BY FS_EmptySet DEF FinSets
<1>2. 0 <= USERTOP * PGSIZE /\ 0 \in 0..KTABLES
  <2>1. \A x \in Nat, y \in Nat : 0 <= x * y
    OBVIOUS
  <2> QED BY <2>1, MemoryAssumption
<1>3. NoSpace \in Spaces
  BY <1>1 DEF NoSpace, Spaces, NoDir, Dir
<1>4. PagesOf(NoSpace) = 0
  BY <1>1 DEF PagesOf, NoSpace, NoDir
<1>5. NoSpace.sz = 0 /\ NoSpace.d = NoDir /\ NoSpace.life = "unused"
  BY DEF NoSpace
<1>6. NoDir.dir = 0 /\ NoDir.ktabs = 0 /\ NoDir.tabs = {} /\ NoDir.pte = {}
  BY DEF NoDir
<1> QED BY <1>2, <1>3, <1>4, <1>5, <1>6 DEF SpaceOK

\* An address space that is whole, in a process that is used.
LEMMA WholeIsOK ==
  ASSUME NEW d, NEW sz \in Nat, sz <= USERTOP * PGSIZE, Whole(d, sz)
  PROVE  LET s == [life |-> "used", sz |-> sz, kstack |-> 1, d |-> d] IN
         SpaceOK(s) /\ PagesOf(s) = 1 + DirPages(d)
<1> DEFINE s == [life |-> "used", sz |-> sz, kstack |-> 1, d |-> d]
<1>1. s \in Spaces /\ s.life = "used" /\ s.sz = sz /\ s.kstack = 1 /\ s.d = d
  BY DEF Whole, Holds, Spaces
<1> HIDE DEF s
<1>2. PagesOf(s) = 1 + DirPages(d)
  BY <1>1, SpaceCounts
<1>3. d.dir \in 0..1 /\ d.ktabs \in 0..KTABLES
  BY MemoryAssumption DEF Whole
<1>4. SpaceOK(s)
  BY <1>1, <1>3 DEF SpaceOK, Whole, Holds
<1> QED BY <1>2, <1>4 DEF s

\* Process q becomes s, and the free list what is left.
LEMMA OneSpace ==
  ASSUME MemoryInv, NEW q \in Ids, NEW s, SpaceOK(s),
         space' = [space EXCEPT ![q] = s],
         freePages' \in Nat, freePages' + PagesOf(s) = freePages + PagesOf(space[q])
  PROVE  MemoryInv'
<1>1. s \in Spaces /\ space \in [Ids -> Spaces] /\ space[q] \in Spaces /\ freePages \in Nat
  BY DEF SpaceOK, MemoryInv
<1>2. space' \in [Ids -> Spaces] /\ space'[q] = s /\ \A p \in Ids : p # q => space'[p] = space[p]
  BY <1>1
<1>3. \A p \in Ids : SpaceOK(space'[p])
  BY <1>2 DEF MemoryInv
<1>4. \A p \in Ids : PagesOf(space[p]) \in Nat /\ PagesOf(space'[p]) \in Nat
  BY <1>1, <1>2, SpaceCounts
<1>5. \A p \in Ids : p # q => PagesOf(space'[p]) = PagesOf(space[p])
  BY <1>2
<1>6. /\ PagesHeld(space) \in Nat /\ PagesHeld(space') \in Nat
      /\ PagesHeld(space') = PagesHeld(space) - PagesOf(space[q]) + PagesOf(space'[q])
  BY <1>4, <1>5, HeldChanges
<1>7. freePages' + PagesHeld(space') = NPAGES
  <2>1. freePages + PagesHeld(space) = NPAGES
    BY DEF MemoryInv
  <2>2. PagesOf(space'[q]) = PagesOf(s) /\ PagesOf(s) \in Nat /\ PagesOf(space[q]) \in Nat
    BY <1>2, <1>4
  <2> QED BY <1>1, <1>6, <2>1, <2>2
<1>8. (\A p \in Ids : SpaceOK(space[p]))'
  BY <1>3
<1>9. (freePages + PagesHeld(space) = NPAGES)'
  BY <1>7
<1> QED BY <1>2, <1>8, <1>9 DEF MemoryInv

-----------------------------------------------------------------------------
\* Init: the first page and its table are there.
LEMMA MemoryInitInv == MemoryInit => MemoryInv
<1> SUFFICES ASSUME MemoryInit PROVE MemoryInv
  OBVIOUS
<1> DEFINE b == Begin(NPAGES - 1, NoDir)
           d == Setupkvm(b)
           m == AllocFrom(d, 0, 0)
           s == [life |-> "used", sz |-> PGSIZE, kstack |-> 1, d |-> m.d]
           none == [p \in Ids |-> NoSpace]
<1>0. freePages = m.free /\ space = [p \in Ids |-> IF p = 1 THEN s ELSE NoSpace]
  BY DEF MemoryInit
<1>1. NPAGES - 1 \in Nat /\ NPAGES - 1 > KTABLES
  BY MemoryAssumption
<1>2. b \in Mem /\ b.ok /\ b.held = 0 /\ b.d = NoDir /\ b.free = NPAGES - 1 /\ SumOf(b) = NPAGES - 1
  BY <1>1, BeginIs
<1> HIDE DEF b
<1>3. SetUp(b, d)
  BY <1>2, SetupkvmDoes
<1> HIDE DEF d
<1>4. /\ d \in Mem /\ d.ok /\ d.held = 0 /\ SumOf(d) = NPAGES - 1 /\ d.d \in Dir
      /\ d.d.dir = 1 /\ d.d.ktabs = KTABLES /\ d.d.tabs = {} /\ d.d.pte = {}
  BY <1>1, <1>2, <1>3 DEF SetUp, KernelDir, Mem
<1>5. HasTables(d.d) /\ \A v \in 0..0 : v \notin d.d.pte
  BY <1>4 DEF HasTables
<1>61. m = AllocFrom(d, 0, 0)
  OBVIOUS
<1> HIDE DEF m, s, none
<1>6. Extends(d, m, 0, 0)
  <2> DEFINE z == 0
  <2>1. z \in Nat /\ z \in Int /\ \A v \in z..z : v \notin d.d.pte
    BY <1>5
  <2> HIDE DEF z
  <2>2. d \in Mem /\ d.ok /\ d.held = 0 /\ HasTables(d.d)
    BY <1>4, <1>5
  <2>3. Extends(d, AllocFrom(d, z, z), z, z)
    BY <2>1, <2>2, AllocFromDoes
  <2> QED BY <1>61, <2>3 DEF z
<1>7. 0..0 = {0} /\ 0 \in Vpns /\ Under(PGSIZE) = {0} /\ PGSIZE <= USERTOP * PGSIZE
  <2>1. 0..0 = {0} /\ 0 \in Vpns
    BY MemoryAssumption DEF Vpns
  <2>2. \A v \in Nat : v * PGSIZE < PGSIZE <=> v = 0
    <3>1. \A v \in Nat : v >= 1 => v * PGSIZE >= 1 * PGSIZE
      BY MemoryAssumption
    <3>2. 0 * PGSIZE = 0 /\ 1 * PGSIZE = PGSIZE /\ 0 < PGSIZE
      BY MemoryAssumption
    <3>3. \A v \in Nat : v * PGSIZE \in Nat
      BY MemoryAssumption
    <3> QED BY <3>1, <3>2, <3>3, MemoryAssumption
  <2>3. PGSIZE <= USERTOP * PGSIZE
    <3>1. 1 * PGSIZE <= USERTOP * PGSIZE
      BY MemoryAssumption
    <3> QED BY <3>1, MemoryAssumption
  <2> QED BY <2>1, <2>2, <2>3 DEF Under
<1>8. /\ m \in Mem /\ m.d \in Dir /\ SumOf(m) = NPAGES - 1 /\ m.d.dir = 1 /\ m.d.ktabs = KTABLES
      /\ m.d.tabs \subseteq {Pdx(0)} /\ m.d.pte \subseteq {0} /\ HasTables(m.d)
      /\ m.free \in Nat /\ m.held \in Nat
  BY <1>4, <1>6, <1>7 DEF Extends, Mem
<1>9. m.ok
  <2> SUFFICES ASSUME ~m.ok PROVE FALSE
    OBVIOUS
  <2>1. m.held \in {0, 1} /\ m.free = 0 /\ ~({0} \subseteq m.d.pte)
    BY <1>6, <1>7 DEF Extends
  <2>2. m.d.pte = {}
    BY <1>8, <2>1
  <2>3. Cardinality(m.d.pte) = 0
    BY <2>2, FS_EmptySet
  <2>4. Cardinality(m.d.tabs) \in {0, 1}
    <3>1. m.d.tabs = {} \/ m.d.tabs = {Pdx(0)}
      BY <1>8
    <3> QED BY <3>1, FS_EmptySet, FS_Singleton
  <2>5. DirPages(m.d) <= KTABLES + 2 /\ DirPages(m.d) \in Nat
    BY <1>8, <2>3, <2>4, MemoryAssumption DEF DirPages
  <2>6. SumOf(m) <= KTABLES + 3
    BY <2>1, <2>5, MemoryAssumption DEF SumOf
  <2> QED BY <1>8, <2>6, MemoryAssumption
<1>10. m.held = 0 /\ m.d.pte = {0}
  BY <1>4, <1>6, <1>7, <1>9 DEF Extends
<1>11. Whole(m.d, PGSIZE)
  BY <1>7, <1>8, <1>10 DEF Whole, Holds, Tables
<1>12. SpaceOK(s) /\ PagesOf(s) = 1 + DirPages(m.d)
  BY <1>7, <1>11, WholeIsOK, MemoryAssumption DEF s
<1>13. SpaceOK(NoSpace) /\ PagesOf(NoSpace) = 0
  BY NothingIsOK
<1>14. 1 \in Ids
  BY MemoryAssumption DEF Ids
<1>15. space \in [Ids -> Spaces] /\ \A p \in Ids : SpaceOK(space[p])
  BY <1>0, <1>12, <1>13 DEF SpaceOK
<1>16. PagesHeld(space) = PagesOf(s)
  <2>1. \A p \in Ids : none[p] = NoSpace /\ PagesOf(none[p]) = 0
    BY <1>13 DEF none
  <2>2. PagesHeld(none) = 0
    BY <2>1, HeldNone
  <2>3. \A p \in Ids : PagesOf(space[p]) \in Nat /\ PagesOf(none[p]) \in Nat
    BY <1>15, <2>1, SpaceCounts
  <2>4. \A p \in Ids : p # 1 => PagesOf(space[p]) = PagesOf(none[p])
    BY <1>0, <1>14, <2>1
  <2>5. PagesHeld(space) = PagesHeld(none) - PagesOf(none[1]) + PagesOf(space[1])
    BY <1>14, <2>3, <2>4, HeldChanges
  <2>6. space[1] = s
    BY <1>0, <1>14
  <2>7. PagesOf(none[1]) = 0 /\ PagesOf(s) \in Nat
    BY <1>14, <2>1, <2>3, <2>6
  <2> QED BY <2>2, <2>5, <2>6, <2>7
<1>17. freePages + PagesHeld(space) = NPAGES
  <2>1. DirPages(m.d) \in Nat /\ m.free + DirPages(m.d) = NPAGES - 1
    BY <1>8, <1>10, SumIsNumber DEF SumOf
  <2> QED BY <1>0, <1>8, <1>12, <1>16, <2>1, MemoryAssumption
<1> QED BY <1>0, <1>8, <1>15, <1>17 DEF MemoryInv

-----------------------------------------------------------------------------
\* Each call keeps it.
LEMMA OfUsed ==
  ASSUME MemoryInv, NEW p \in Ids
  PROVE  /\ SpaceOK(space[p]) /\ space[p] \in Spaces /\ freePages \in Nat
         /\ space[p].d \in Dir /\ space[p].sz \in Nat /\ space[p].kstack \in 0..1
         /\ space[p].d.pte \subseteq Vpns /\ space[p].sz <= USERTOP * PGSIZE
         /\ PagesOf(space[p]) = space[p].kstack + DirPages(space[p].d)
         /\ DirPages(space[p].d) \in Nat
         /\ space[p].life = "used" => space[p].kstack = 1 /\ Holds(space[p].d, space[p].sz)
         /\ space[p].life = "unused" => space[p] = NoSpace
<1>1. SpaceOK(space[p]) /\ space[p] \in Spaces /\ freePages \in Nat
  BY DEF MemoryInv, SpaceOK
<1>2. space[p].d \in Dir /\ space[p].sz \in Nat /\ space[p].kstack \in 0..1
  BY <1>1 DEF Spaces
<1> QED BY <1>1, <1>2, SpaceCounts DEF SpaceOK

\* What the assignments of the calls leave.
MadeOf(s, d, z, l) ==
  /\ [[s EXCEPT !.d = d] EXCEPT !.sz = z] = [life |-> s.life, sz |-> z, kstack |-> s.kstack, d |-> d]
  /\ [[[s EXCEPT !.d = d] EXCEPT !.sz = z] EXCEPT !.life = l]
       = [life |-> l, sz |-> z, kstack |-> s.kstack, d |-> d]

LEMMA SpaceMade ==
  ASSUME NEW s \in Spaces, NEW d, NEW z, NEW l
  PROVE  MadeOf(s, d, z, l)
<1>1. [s EXCEPT !.d = d] = [life |-> s.life, sz |-> s.sz, kstack |-> s.kstack, d |-> d]
  BY DEF Spaces
<1>2. [[life |-> s.life, sz |-> s.sz, kstack |-> s.kstack, d |-> d] EXCEPT !.sz = z]
        = [life |-> s.life, sz |-> z, kstack |-> s.kstack, d |-> d]
  OBVIOUS
<1>3. [[life |-> s.life, sz |-> z, kstack |-> s.kstack, d |-> d] EXCEPT !.life = l]
        = [life |-> l, sz |-> z, kstack |-> s.kstack, d |-> d]
  OBVIOUS
<1> QED BY <1>1, <1>2, <1>3, Zenon DEF MadeOf

LEMMA NothingChanges ==
  ASSUME MemoryInv, UNCHANGED space, freePages' = freePages
  PROVE  MemoryInv'
BY DEF MemoryInv

LEMMA ForkSpaceKeeps ==
  ASSUME MemoryInv, NEW p \in Ids, NEW q \in Ids, ForkSpace(p, q)
  PROVE  MemoryInv'
<1> DEFINE m == Begin(freePages - 1, NoDir)
           copy == Copyuvm(m, space[p].sz)
           s == [space[p] EXCEPT !.d = copy.d]
<1>0. /\ space[p].life = "used" /\ space[q].life = "unused" /\ freePages > 0
      /\ IF copy.ok THEN freePages' = copy.free /\ space' = [space EXCEPT ![q] = s]
         ELSE freePages' = Kfree(copy, 1).free /\ UNCHANGED space
  BY DEF ForkSpace
<1>1. /\ freePages \in Nat /\ space[p] \in Spaces /\ space[p].sz \in Nat
      /\ space[p].kstack = 1 /\ Holds(space[p].d, space[p].sz) /\ space[p].sz <= USERTOP * PGSIZE
      /\ space[q] = NoSpace
  BY <1>0, OfUsed
<1>2. Under(space[p].sz) \subseteq Vpns /\ freePages - 1 \in Nat
  BY <1>0, <1>1 DEF Holds
<1>3. m \in Mem /\ m.ok /\ m.held = 0 /\ m.d = NoDir /\ SumOf(m) = freePages - 1
  BY <1>2, BeginIs
<1> HIDE DEF m
<1>4. Copied(m, copy, space[p].sz)
  BY <1>1, <1>2, <1>3, CopyuvmDoes
<1> HIDE DEF copy
<1>5. copy \in Mem /\ copy.free \in Nat /\ DirPages(copy.d) \in Nat
      /\ copy.free + DirPages(copy.d) = freePages - 1
  <2>1. copy \in Mem /\ copy.held = 0 /\ SumOf(copy) = freePages - 1
    BY <1>3, <1>4 DEF Copied
  <2>2. copy.free \in Nat /\ DirPages(copy.d) \in Nat
    BY <2>1, SumIsNumber DEF Mem
  <2> QED BY <2>1, <2>2 DEF SumOf
<1>6. PagesOf(NoSpace) = 0 /\ DirPages(NoDir) = 0
  BY NothingIsOK, FS_EmptySet DEF DirPages, NoDir
<1>7. CASE copy.ok
  <2>1. Whole(copy.d, space[p].sz)
    BY <1>4, <1>7 DEF Copied
  <2> DEFINE w == [life |-> "used", sz |-> space[p].sz, kstack |-> 1, d |-> copy.d]
  <2>2. SpaceOK(w) /\ PagesOf(w) = 1 + DirPages(copy.d)
    BY <1>1, <2>1, WholeIsOK
  <2>3. s = w
    BY <1>0, <1>1 DEF Spaces
  <2> HIDE DEF w, s
  <2>4. freePages' = copy.free /\ space' = [space EXCEPT ![q] = s]
    BY <1>0, <1>7
  <2>5. freePages' + PagesOf(s) = freePages + PagesOf(space[q])
    BY <1>1, <1>5, <1>6, <2>2, <2>3, <2>4
  <2> QED BY <1>5, <2>2, <2>3, <2>4, <2>5, OneSpace
<1>8. CASE ~copy.ok
  <2>1. copy.d = NoDir
    BY <1>4, <1>8 DEF Copied
  <2>2. Kfree(copy, 1).free = copy.free + 1
    BY <1>5, KfreeTypes
  <2>3. freePages' = freePages
    BY <1>0, <1>1, <1>5, <1>6, <1>8, <2>1, <2>2
  <2> QED BY <1>0, <1>8, <2>3, NothingChanges
<1> QED BY <1>7, <1>8

LEMMA ExecSpaceKeeps ==
  ASSUME MemoryInv, NEW p \in Ids, NEW program \in Programs, ExecSpace(p, program)
  PROVE  MemoryInv'
<1> DEFINE load == Load(freePages, program)
           sz == StackTop(load)
           image == Image(load)
           old == Begin(image.free, space[p].d)
           s == [[space[p] EXCEPT !.d = image.d] EXCEPT !.sz = sz]
<1>0. /\ space[p].life = "used"
      /\ IF image.ok THEN /\ freePages' = Freevm(old).free
                          /\ space' = [space EXCEPT ![p].d = image.d, ![p].sz = sz]
         ELSE freePages' = Freevm(image).free /\ UNCHANGED space
  BY DEF ExecSpace, Load, Image, StackTop, FoldSegments, SegmentStep
<1>1. /\ freePages \in Nat /\ space[p] \in Spaces /\ space[p].d \in Dir /\ space[p].d.pte \subseteq Vpns
      /\ space[p].kstack = 1 /\ PagesOf(space[p]) = 1 + DirPages(space[p].d)
      /\ DirPages(space[p].d) \in Nat
  BY <1>0, OfUsed
<1>2. program \in Seq(Nat)
  BY MemoryAssumption
<1>3. Imaged(freePages, image, sz)
  BY <1>1, <1>2, ImageDoes
<1> HIDE DEF load, sz, image
<1>4. /\ image \in Mem /\ image.d.pte \subseteq Vpns /\ image.free \in Nat /\ DirPages(image.d) \in Nat
      /\ image.free + DirPages(image.d) = freePages /\ sz \in Nat
  <2>1. image \in Mem /\ image.held = 0 /\ SumOf(image) = freePages
    BY <1>3 DEF Imaged
  <2>2. image.free \in Nat /\ DirPages(image.d) \in Nat
    BY <2>1, SumIsNumber DEF Mem
  <2> QED BY <1>3, <2>1, <2>2 DEF SumOf, Imaged
<1>5. CASE image.ok
  <2>1. Whole(image.d, sz) /\ sz <= USERTOP * PGSIZE
    <3>1. USERTOP * PGSIZE \in Nat
      BY MemoryAssumption
    <3> QED BY <1>3, <1>4, <1>5, <3>1 DEF Imaged
  <2> DEFINE w == [life |-> "used", sz |-> sz, kstack |-> 1, d |-> image.d]
  <2>2. SpaceOK(w) /\ PagesOf(w) = 1 + DirPages(image.d)
    BY <1>4, <2>1, WholeIsOK
  <2>3. s = w
    <3>1. space[p].life = "used" /\ space[p].kstack = 1 /\ space[p] \in Spaces
      BY <1>0, <1>1
    <3> HIDE DEF old
    <3>2. s = [life |-> space[p].life, sz |-> sz, kstack |-> space[p].kstack, d |-> image.d]
      <4>1. MadeOf(space[p], image.d, sz, "used")
        BY <3>1, SpaceMade
      <4> QED BY <4>1, Zenon DEF MadeOf
    <3> QED BY <3>1, <3>2, Zenon
  <2>4. old \in Mem /\ old.free = image.free /\ old.d = space[p].d
    BY <1>1, <1>4, BeginAny
  <2> HIDE DEF w, old
  <2>5. Freevm(old).free = image.free + DirPages(space[p].d)
    BY <1>1, <2>4, FreevmKeeps
  <2>6. freePages' = Freevm(old).free /\ space' = [space EXCEPT ![p] = s]
    <3>1. freePages' = Freevm(old).free /\ space' = [space EXCEPT ![p].d = image.d, ![p].sz = sz]
      BY <1>0, <1>5
    <3>2. space \in [Ids -> Spaces]
      BY DEF MemoryInv
    <3> QED BY <3>1, <3>2
  <2> HIDE DEF s
  <2>7. freePages' \in Nat /\ freePages' + PagesOf(s) = freePages + PagesOf(space[p])
    BY <1>1, <1>4, <2>2, <2>3, <2>5, <2>6
  <2> QED BY <2>2, <2>3, <2>6, <2>7, OneSpace
<1>6. CASE ~image.ok
  <2>1. Freevm(image).free = image.free + DirPages(image.d)
    BY <1>4, FreevmKeeps
  <2>2. freePages' = freePages /\ UNCHANGED space
    BY <1>0, <1>4, <1>6, <2>1
  <2> QED BY <2>2, NothingChanges
<1> QED BY <1>5, <1>6

LEMMA SbrkSpaceKeeps ==
  ASSUME MemoryInv, NEW p \in Ids, NEW n \in SbrkArgs, SbrkSpace(p, n)
  PROVE  MemoryInv'
<1> DEFINE sz == space[p].sz
           m == Begin(freePages, space[p].d)
           grown == Allocuvm(m, sz, sz + n)
           shrunk == Deallocuvm(m, sz, sz + n)
<1>0. /\ space[p].life = "used"
      /\ \/ /\ n > 0
            /\ freePages' = grown.free
            /\ space' = [space EXCEPT ![p].d = grown.d, ![p].sz = IF grown.ok THEN sz + n ELSE @]
         \/ /\ n < 0 /\ sz + n >= 0
            /\ freePages' = shrunk.free
            /\ space' = [space EXCEPT ![p].d = shrunk.d, ![p].sz = IF sz + n > 0 THEN sz + n ELSE @,
                                      ![p].life = IF sz + n = 0 THEN "doomed" ELSE @]
  BY DEF SbrkSpace
<1>1. /\ freePages \in Nat /\ space[p] \in Spaces /\ space[p].d \in Dir /\ sz \in Nat
      /\ sz <= USERTOP * PGSIZE /\ space[p].kstack = 1 /\ Holds(space[p].d, sz)
      /\ PagesOf(space[p]) = 1 + DirPages(space[p].d) /\ DirPages(space[p].d) \in Nat
      /\ SpaceOK(space[p]) /\ space \in [Ids -> Spaces] /\ n \in Int
  BY <1>0, OfUsed, MemoryAssumption DEF MemoryInv
<1>2. space[p].d.dir \in 0..1 /\ space[p].d.ktabs \in 0..KTABLES
  BY <1>1 DEF SpaceOK
<1>3. m \in Mem /\ m.ok /\ m.held = 0 /\ m.d = space[p].d /\ SumOf(m) = freePages + DirPages(space[p].d)
  BY <1>1, BeginAny
<1>4. grown = Allocuvm(m, sz, sz + n) /\ shrunk = Deallocuvm(m, sz, sz + n)
  OBVIOUS
<1> HIDE DEF m, grown, shrunk, sz
<1>5. CASE /\ n > 0
           /\ freePages' = grown.free
           /\ space' = [space EXCEPT ![p].d = grown.d, ![p].sz = IF grown.ok THEN sz + n ELSE @]
  <2> DEFINE z == IF grown.ok THEN sz + n ELSE sz
             s == [life |-> "used", sz |-> z, kstack |-> 1, d |-> grown.d]
  <2>1. sz + n \in Nat /\ Larger(sz, sz + n) = sz + n
    BY <1>1, <1>5 DEF Larger
  <2>2. /\ grown \in Mem /\ SumOf(grown) = SumOf(m) /\ grown.held = 0
        /\ grown.d.dir = m.d.dir /\ grown.d.ktabs = m.d.ktabs
        /\ grown.ok => sz + n < USERTOP * PGSIZE /\ Holds(grown.d, sz + n)
        /\ ~grown.ok => Holds(grown.d, sz)
    BY <1>1, <1>3, <1>4, <2>1, AllocuvmDoes
  <2>3. Holds(grown.d, z) /\ z \in Nat /\ z <= USERTOP * PGSIZE
    <3>1. USERTOP * PGSIZE \in Nat
      BY MemoryAssumption
    <3> QED BY <1>1, <2>1, <2>2, <3>1
  <2> HIDE DEF z
  <2>4. s \in Spaces /\ s.life = "used" /\ s.sz = z /\ s.kstack = 1 /\ s.d = grown.d
    BY <2>3 DEF Spaces, Holds
  <2>5. space' = [space EXCEPT ![p] = s]
    <3>1. space' = [space EXCEPT ![p] = [[space[p] EXCEPT !.d = grown.d] EXCEPT !.sz = z]]
      BY <1>1, <1>5 DEF z, sz
    <3>2. space[p].life = "used" /\ space[p].kstack = 1 /\ space[p] \in Spaces
      BY <1>0, <1>1
    <3>3. [[space[p] EXCEPT !.d = grown.d] EXCEPT !.sz = z] = s
      <4>1. [[space[p] EXCEPT !.d = grown.d] EXCEPT !.sz = z]
              = [life |-> space[p].life, sz |-> z, kstack |-> space[p].kstack, d |-> grown.d]
        <5>1. MadeOf(space[p], grown.d, z, "used")
          BY <3>2, SpaceMade
        <5> QED BY <5>1, Zenon DEF MadeOf
      <4> QED BY <3>2, <4>1, Zenon
    <3> QED BY <3>1, <3>3
  <2> HIDE DEF s
  <2>6. SpaceOK(s)
    BY <1>2, <1>3, <2>2, <2>3, <2>4 DEF SpaceOK, Holds
  <2>7. freePages' \in Nat /\ freePages' + PagesOf(s) = freePages + PagesOf(space[p])
    <3>1. PagesOf(s) = 1 + DirPages(grown.d) /\ DirPages(grown.d) \in Nat /\ grown.free \in Nat
      BY <2>2, <2>4, SpaceCounts DEF Mem
    <3>2. grown.free + DirPages(grown.d) = freePages + DirPages(space[p].d)
      BY <1>3, <2>2, <3>1 DEF SumOf
    <3> QED BY <1>1, <1>5, <3>1, <3>2
  <2> QED BY <2>5, <2>6, <2>7, OneSpace
<1>6. CASE /\ n < 0 /\ sz + n >= 0
           /\ freePages' = shrunk.free
           /\ space' = [space EXCEPT ![p].d = shrunk.d, ![p].sz = IF sz + n > 0 THEN sz + n ELSE @,
                                     ![p].life = IF sz + n = 0 THEN "doomed" ELSE @]
  <2> DEFINE z == IF sz + n > 0 THEN sz + n ELSE sz
             l == IF sz + n = 0 THEN "doomed" ELSE "used"
             s == [life |-> l, sz |-> z, kstack |-> 1, d |-> shrunk.d]
  <2>1. sz + n \in Nat /\ sz + n < sz
    BY <1>1, <1>6
  <2>2. Shrinks(m, shrunk, sz, sz + n)
    BY <1>1, <1>3, <1>4, <2>1, DeallocuvmDoes
  <2>3. /\ shrunk \in Mem /\ SumOf(shrunk) = SumOf(m) /\ shrunk.held = 0 /\ shrunk.d \in Dir
        /\ shrunk.d.dir = m.d.dir /\ shrunk.d.ktabs = m.d.ktabs /\ shrunk.d.tabs = m.d.tabs
        /\ shrunk.d.pte = {v \in m.d.pte : v * PGSIZE < sz + n \/ ~(v * PGSIZE < sz)}
    BY <1>3, <2>1, <2>2 DEF Shrinks, Mem
  <2>4. shrunk.d.pte = Under(sz + n)
    <3>1. m.d.pte = Under(sz)
      BY <1>1, <1>3 DEF Holds
    <3>2. \A v \in Nat : v * PGSIZE < sz + n => v * PGSIZE < sz
      <4>1. \A v \in Nat : v * PGSIZE \in Nat
        BY MemoryAssumption
      <4> QED BY <1>1, <2>1, <4>1
    <3> QED BY <2>3, <3>1, <3>2 DEF Under
  <2>5. shrunk.d.pte \subseteq Vpns /\ HasTables(shrunk.d) /\ shrunk.d.tabs \subseteq Tables
    BY <1>1, <1>3, <2>3 DEF Holds, HasTables
  <2>6. z \in Nat /\ z <= USERTOP * PGSIZE /\ (l = "used" => z = sz + n) /\ l \in {"used", "doomed"}
    <3>1. USERTOP * PGSIZE \in Nat
      BY MemoryAssumption
    <3> QED BY <1>1, <2>1, <3>1
  <2>7. space' = [space EXCEPT ![p] = s]
    <3>1. space' = [space EXCEPT ![p] = [[[space[p] EXCEPT !.d = shrunk.d] EXCEPT !.sz = z]
                                           EXCEPT !.life = l]]
      BY <1>0, <1>1, <1>6 DEF sz
    <3> HIDE DEF l, z
    <3>2. space[p].life = "used" /\ space[p].kstack = 1 /\ space[p] \in Spaces
      BY <1>0, <1>1
    <3>3. [[[space[p] EXCEPT !.d = shrunk.d] EXCEPT !.sz = z] EXCEPT !.life = l] = s
      <4>1. [[[space[p] EXCEPT !.d = shrunk.d] EXCEPT !.sz = z] EXCEPT !.life = l]
              = [life |-> l, sz |-> z, kstack |-> space[p].kstack, d |-> shrunk.d]
        <5>1. MadeOf(space[p], shrunk.d, z, l)
          BY <3>2, SpaceMade
        <5> QED BY <5>1, Zenon DEF MadeOf
      <4> QED BY <3>2, <4>1, Zenon
    <3> QED BY <3>1, <3>3
  <2> HIDE DEF l, z
  <2>8. s \in Spaces /\ s.life = l /\ s.sz = z /\ s.kstack = 1 /\ s.d = shrunk.d
    BY <2>3, <2>6 DEF Spaces
  <2> HIDE DEF s
  <2>9. SpaceOK(s)
    BY <1>2, <1>3, <2>3, <2>4, <2>5, <2>6, <2>8 DEF SpaceOK, Holds
  <2>10. freePages' \in Nat /\ freePages' + PagesOf(s) = freePages + PagesOf(space[p])
    <3>1. PagesOf(s) = 1 + DirPages(shrunk.d) /\ DirPages(shrunk.d) \in Nat /\ shrunk.free \in Nat
      BY <2>3, <2>8, SpaceCounts DEF Mem
    <3>2. shrunk.free + DirPages(shrunk.d) = freePages + DirPages(space[p].d)
      BY <1>3, <2>3, <3>1 DEF SumOf
    <3> QED BY <1>1, <1>6, <3>1, <3>2
  <2> QED BY <2>7, <2>9, <2>10, OneSpace
<1> QED BY <1>0, <1>5, <1>6 DEF sz

LEMMA WaitSpaceKeeps ==
  ASSUME MemoryInv, NEW p \in Ids, WaitSpace(p)
  PROVE  MemoryInv'
<1> DEFINE b == Begin(freePages, space[p].d)
           m == Kfree(b, space[p].kstack)
<1>0. freePages' = Freevm(m).free /\ space' = [space EXCEPT ![p] = NoSpace]
  BY DEF WaitSpace
<1>1. /\ freePages \in Nat /\ space[p].d \in Dir /\ space[p].kstack \in Nat
      /\ space[p].d.pte \subseteq Vpns /\ DirPages(space[p].d) \in Nat
      /\ PagesOf(space[p]) = space[p].kstack + DirPages(space[p].d)
  BY OfUsed
<1>2. b \in Mem /\ b.free = freePages /\ b.d = space[p].d
  BY <1>1, BeginAny
<1> HIDE DEF b
<1>3. m \in Mem /\ m.free = freePages + space[p].kstack /\ m.d = space[p].d
  BY <1>1, <1>2, KfreeTypes
<1> HIDE DEF m
<1>4. freePages' = freePages + space[p].kstack + DirPages(space[p].d)
  BY <1>0, <1>1, <1>3, FreevmKeeps
<1>5. freePages' \in Nat /\ freePages' + PagesOf(NoSpace) = freePages + PagesOf(space[p])
  BY <1>1, <1>4, NothingIsOK
<1> QED BY <1>0, <1>5, NothingIsOK, OneSpace

LEMMA MemoryAlways == MemorySpec => []MemoryInv
<1>1. MemoryInv /\ [MemoryNext]_memoryVars => MemoryInv'
  <2> SUFFICES ASSUME MemoryInv, [MemoryNext]_memoryVars PROVE MemoryInv'
    OBVIOUS
  <2>1. CASE UNCHANGED memoryVars
    BY <2>1, NothingChanges DEF memoryVars
  <2>2. ASSUME NEW p \in Ids, NEW q \in Ids, ForkSpace(p, q) PROVE MemoryInv'
    BY <2>2, ForkSpaceKeeps
  <2>3. ASSUME NEW p \in Ids, NEW program \in Programs, ExecSpace(p, program) PROVE MemoryInv'
    BY <2>3, ExecSpaceKeeps
  <2>4. ASSUME NEW p \in Ids, NEW n \in SbrkArgs, SbrkSpace(p, n) PROVE MemoryInv'
    BY <2>4, SbrkSpaceKeeps
  <2>5. ASSUME NEW p \in Ids, WaitSpace(p) PROVE MemoryInv'
    BY <2>5, WaitSpaceKeeps
  <2> QED BY <2>1, <2>2, <2>3, <2>4, <2>5 DEF MemoryNext
<1> QED BY <1>1, MemoryInitInv, PTL DEF MemorySpec

\* The free list and the address spaces are well formed, however much memory there
\* is and whatever is loaded.
THEOREM MemoryTyped == MemorySpec => []MemoryTypeOK
<1>1. MemoryInv => MemoryTypeOK
  <2> SUFFICES ASSUME MemoryInv PROVE MemoryTypeOK
    OBVIOUS
  <2>1. \A p \in Ids : PagesOf(space[p]) \in Nat
    BY SpaceCounts DEF MemoryInv
  <2>2. PagesHeld(space) \in Nat
    <3>1. PICK f \in [SUBSET Ids -> Nat] : Counted(f, space) /\ PagesHeld(space) = f[Ids]
      BY <2>1, HeldIsCount
    <3> QED BY <3>1
  <2>3. freePages \in 0..NPAGES
    BY <2>2, MemoryAssumption DEF MemoryInv
  <2>4. ASSUME NEW p \in Ids
        PROVE  /\ space[p].life \in {"unused", "used", "doomed"}
               /\ space[p].sz \in 0..(USERTOP * PGSIZE)
               /\ space[p].kstack \in 0..1
               /\ space[p].d.dir \in 0..1 /\ space[p].d.ktabs \in 0..KTABLES
               /\ space[p].d.tabs \subseteq {Pdx(v) : v \in Vpns} /\ space[p].d.pte \subseteq Vpns
    <3>1. SpaceOK(space[p])
      BY DEF MemoryInv
    <3>2. space[p].sz <= USERTOP * PGSIZE /\ space[p].sz \in Nat /\ USERTOP * PGSIZE \in Nat
      BY <3>1, MemoryAssumption DEF SpaceOK, Spaces
    <3>3. space[p].life \in {"unused", "used", "doomed"} /\ space[p].kstack \in 0..1
      BY <3>1 DEF SpaceOK, Spaces
    <3> QED BY <3>1, <3>2, <3>3 DEF SpaceOK, Tables
  <2> QED BY <2>3, <2>4 DEF MemoryTypeOK
<1> QED BY <1>1, MemoryAlways, PTL

\* No page is lost or freed twice by fork(), exec(), sbrk() or wait(), whichever of
\* their allocations fails, and a process has exactly the pages below its size.
THEOREM PagesConservedAlways == MemorySpec => []PagesConserved
<1>1. MemoryInv => PagesConserved
  <2> SUFFICES ASSUME MemoryInv PROVE PagesConserved
    OBVIOUS
  <2>1. ASSUME NEW p \in Ids, space[p].life = "used"
        PROVE  /\ space[p].d.pte = {v \in Vpns : v * PGSIZE < space[p].sz}
               /\ \A v \in space[p].d.pte : Pdx(v) \in space[p].d.tabs
    <3>1. /\ space[p].d.pte = Under(space[p].sz) /\ space[p].d.pte \subseteq Vpns
          /\ HasTables(space[p].d)
      BY <2>1 DEF MemoryInv, SpaceOK, Holds
    <3>2. Vpns \subseteq Nat
      BY MemoryAssumption DEF Vpns
    <3> QED BY <3>1, <3>2 DEF Under, HasTables
  <2> QED BY <2>1 DEF MemoryInv, PagesConserved
<1> QED BY <1>1, MemoryAlways, PTL
===============================================================================
