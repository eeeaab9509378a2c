------------------------------- MODULE Threads --------------------------------
(***************************************************************************)
(* The threads of assignment02/project02/xv6-public: thread_create,        *)
(* thread_exit, thread_join, thread_cleaner, and growproc, fork, exec,     *)
(* exec2, exit, wait, kill and setmemorylimit as they were changed for     *)
(* them.                                                                   *)
(*                                                                         *)
(* A thread is a slot of ptable with the pid of its process, a tid and a   *)
(* stack of two pages in the address space they share.  The module looks  *)
(* at one process, its slots, the parent that waits for it and the slots   *)
(* that its children occupy, whose own memory it leaves out.  One action   *)
(* is one section under ptable.lock, on one CPU: where the code releases   *)
(* the lock, any other slot may run.  What the kernel does not survive (a  *)
(* panic, a freed page table in use, a lock that is never released) ends   *)
(* the behaviour in `wreck`.                                               *)
(***************************************************************************)
EXTENDS Integers, Sequences, FiniteSets, FiniteSetsExt, Functions

CONSTANTS
  NSLOTS,      \* slots of ptable that the process may use
  NTHREAD,     \* param.h: entries of the ring of spare stacks, one stays free
  KERNBASE,    \* first page no process may have
  IMAGE,       \* pages of a fresh image
  Amounts,     \* pages sbrk() asks for; a negative number gives them back
  Limits,      \* what setmemorylimit() is called with
  StackSizes,  \* what exec2() is called with
  MaxTid,      \* bound on nextTid
  MaxTaken     \* bound on taken

ASSUME ThreadsAssumption ==
  /\ NSLOTS \in Nat \ {0} /\ NTHREAD \in Nat /\ NTHREAD > NSLOTS
  /\ IMAGE \in Nat \ {0} /\ KERNBASE \in Nat /\ KERNBASE > IMAGE
  /\ Amounts \subseteq Int /\ Limits \subseteq Nat \ {0} /\ MaxTid \in Nat /\ MaxTaken \in Nat
  /\ StackSizes \subseteq 0..100       \* exec2() refuses any other

TSlots == 1..NSLOTS
Main   == 1                       \* where the process itself is
Outside == NSLOTS + 1             \* the parent of the process
Pages  == 0..(KERNBASE - 1)
StackAt(va) == {va, va + 1}

VARIABLES
  thd,         \* ptable.proc
  spare,       \* proc.spare from front to rear
  mapped,      \* pages of the page table they share
  nextTid,
  taken,       \* history: slots given to threads and children
  tpc,         \* where each slot is: in user code, asleep or between two sections
  targ,        \* the slot it creates, the tid it joins, the size it grows to
  parentAsleep,\* the parent of the process sleeps in wait()
  nested,      \* history: a thread has called thread_create()
  wreck        \* what the kernel died of

threadsVars == <<thd, spare, mapped, nextTid, taken, tpc, targ, parentAsleep, nested, wreck>>

FreeSlot == [state |-> "UNUSED", ours |-> FALSE, parent |-> 0, tid |-> 0, tmaker |-> 0,
             sz |-> 0, thdva |-> 0, killed |-> FALSE, limit |-> 0]

ThreadsInit ==
  /\ thd = [s \in TSlots |-> IF s # Main THEN FreeSlot ELSE
              [FreeSlot EXCEPT !.state = "RUNNABLE", !.ours = TRUE, !.parent = Outside,
                               !.tmaker = Main, !.sz = IMAGE]]
  /\ spare = [s \in TSlots |-> <<>>]
  /\ mapped = 0..(IMAGE - 1)
  /\ nextTid = 1 /\ taken = 0
  /\ tpc = [s \in TSlots |-> IF s = Main THEN "user" ELSE "free"]
  /\ targ = [s \in TSlots |-> 0]
  /\ parentAsleep = FALSE
  /\ nested = FALSE
  /\ wreck = "none"

Runs(s, pc) == wreck = "none" /\ thd[s].state = "RUNNABLE" /\ tpc[s] = pc

\* trap(): a killed slot leaves before its next system call.
InUserCode(s) == Runs(s, "user") /\ ~thd[s].killed

Family == {s \in TSlots : thd[s].ours}
Live(s) == thd[s].state \notin {"UNUSED", "ZOMBIE"}

GoTo(s, pc, arg) == tpc' = [tpc EXCEPT ![s] = pc] /\ targ' = [targ EXCEPT ![s] = arg]
InKernel == UNCHANGED <<taken, parentAsleep, nested, wreck>>
Panic(why) == wreck' = why /\ UNCHANGED <<thd, spare, mapped, nextTid, taken, tpc, targ, parentAsleep, nested>>

\* A mutant of the next operator: nobody is woken.
AwakeNobody(t, tid) == t

\* wakeup1() of the channel (void*)tid.
Awake(t, tid) ==
  [s \in TSlots |-> IF t[s].state = "SLEEPING" /\ tpc[s] = "join" /\ targ[s] = tid
                    THEN [t[s] EXCEPT !.state = "RUNNABLE"] ELSE t[s]]

\* thread_family_sz_same()
SameSz(sz) == [s \in TSlots |-> IF thd[s].ours THEN [thd[s] EXCEPT !.sz = sz] ELSE thd[s]]

-----------------------------------------------------------------------------
\* thread_create()

\* allocproc(), which resets neither killed nor sz; stack: kalloc() has a page.
Alloc(s, stack, next) ==
  LET n == Min({m \in TSlots : thd[m].state = "UNUSED"}) IN
  /\ InUserCode(s) /\ taken < MaxTaken /\ taken' = IF stack THEN taken + 1 ELSE taken
  /\ \E m \in TSlots : thd[m].state = "UNUSED"
  /\ thd' = [thd EXCEPT ![n] = [@ EXCEPT !.state = IF stack THEN "EMBRYO" ELSE "UNUSED",
                                         !.ours = FALSE, !.tid = 0, !.tmaker = n, !.limit = 0]]
  /\ spare' = [spare EXCEPT ![n] = <<>>]
  /\ tpc' = [tpc EXCEPT ![n] = "free", ![s] = IF stack THEN next ELSE "user"]
  /\ targ' = [targ EXCEPT ![s] = IF stack THEN n ELSE 0]
  /\ UNCHANGED <<mapped, nextTid, parentAsleep, nested, wreck>>

CreateAlloc(s, stack) == nextTid <= MaxTid /\ Alloc(s, stack, "create")

\* The new slot gets the pid and the parent of its process.
CreateJoinFamily(s) ==
  /\ Runs(s, "create")
  /\ thd' = [thd EXCEPT ![targ[s]].ours = thd[s].ours, ![targ[s]].parent = thd[s].parent]
  /\ GoTo(s, "stack", targ[s])
  /\ UNCHANGED <<spare, mapped, nextTid>> /\ InKernel

\* Where the stack goes: the oldest spare one, or the end of the process.
StackPlace(s) == IF spare[s] # <<>> THEN Head(spare[s]) ELSE thd[s].sz

\* The ring afterwards, and a mutant that does not advance front.
TakeSpareKept(s) == spare
TakeSpare(s) == IF spare[s] # <<>> THEN [spare EXCEPT ![s] = Tail(@)] ELSE spare

\* allocuvm() and what follows it, with the label bad.
CreateStack(s, enough) ==
  LET n == targ[s]
      va == StackPlace(s)
      sz == IF spare[s] # <<>> THEN thd[s].sz ELSE va + 2 IN
  /\ Runs(s, "stack")
  /\ IF ~enough \/ va + 2 >= KERNBASE THEN
       /\ thd' = [thd EXCEPT ![n].state = "UNUSED"]       \* the pid stays
       /\ GoTo(s, "user", 0)
       /\ UNCHANGED <<spare, mapped, nextTid>> /\ InKernel
     ELSE IF StackAt(va) \cap mapped # {} THEN Panic("remap")
     ELSE
       /\ mapped' = mapped \cup StackAt(va)
       /\ spare' = TakeSpare(s)
       /\ thd' = [thd EXCEPT ![s].sz = sz,
                             ![n] = [@ EXCEPT !.state = "RUNNABLE", !.sz = sz, !.thdva = va,
                                              !.tid = nextTid, !.tmaker = s]]
       /\ nextTid' = nextTid + 1
       /\ tpc' = [tpc EXCEPT ![n] = "user", ![s] = "publish"]
       /\ targ' = targ
       /\ nested' = (nested \/ thd[s].tid # 0)
       /\ UNCHANGED <<taken, parentAsleep, wreck>>

CreatePublish(s) ==
  /\ Runs(s, "publish")
  /\ thd' = SameSz(thd[s].sz)
  /\ GoTo(s, "again", targ[s])
  /\ UNCHANGED <<spare, mapped, nextTid>> /\ InKernel

\* The second nThread->state = RUNNABLE, whatever the thread did in between.
CreateAgain(s) ==
  /\ Runs(s, "again")
  /\ thd' = [thd EXCEPT ![targ[s]].state = "RUNNABLE"]
  /\ GoTo(s, "user", 0)
  /\ UNCHANGED <<spare, mapped, nextTid>> /\ InKernel

\* A slot that had exited or was free is scheduled after all.
RunDead(s) ==
  \/ Runs(s, "dead") /\ Panic("zombie exit")
  \/ Runs(s, "free") /\ Panic("freed stack")

-----------------------------------------------------------------------------
\* thread_exit() and thread_join()

\* Abandoned children get initproc, written 0 like no parent at all.
PassedToInit(t, s) == [k \in TSlots |-> IF t[k].parent = s THEN [t[k] EXCEPT !.parent = 0] ELSE t[k]]

\* By a thread, at its end or because it was killed.
ThreadExit(s) ==
  /\ Runs(s, "user") /\ thd[s].tid # 0
  /\ thd' = [PassedToInit(Awake(thd, thd[s].tid), s) EXCEPT ![s].state = "ZOMBIE"]
  /\ GoTo(s, "dead", 0)
  /\ UNCHANGED <<spare, mapped, nextTid>> /\ InKernel

\* What a reaped slot keeps: its tid, its size and who made it.
Reaped(t) == [t EXCEPT !.state = "UNUSED", !.ours = FALSE, !.parent = 0, !.thdva = 0,
                       !.killed = FALSE, !.limit = 0]

\* The ring spare[front..rear): one push too many and it reads as empty.
Push(ring, va) == IF Len(ring) = NTHREAD - 1 THEN <<>> ELSE Append(ring, va)

\* Whose ring gets the stack of a thread that s joins, and a mutant.
RingOfSelf(s) == s
RingOf(s) == thd[s].tmaker

JoinReap(s, t) ==
  /\ thd' = [thd EXCEPT ![t] = Reaped(@)]
  /\ mapped' = mapped \ StackAt(thd[t].thdva)
  /\ spare' = [spare EXCEPT ![RingOf(s)] = Push(@, thd[t].thdva)]
  /\ tpc' = [tpc EXCEPT ![s] = "user", ![t] = "free"]
  /\ targ' = [targ EXCEPT ![s] = 0]

JoinSleep(s, tid) ==
  /\ thd' = [thd EXCEPT ![s].state = "SLEEPING"]
  /\ GoTo(s, "join", tid)
  /\ UNCHANGED <<spare, mapped>>

JoinReturn(s) == GoTo(s, "user", 0) /\ UNCHANGED <<thd, spare, mapped>>

ThreadJoin(s, tid) ==
  LET found == {t \in TSlots : thd[t].tid = tid} IN
  /\ InUserCode(s) \/ (Runs(s, "join") /\ targ[s] = tid)
  /\ \/ found = {} /\ tpc[s] = "join" /\ JoinReturn(s)
     \/ \E t \in found :
          \/ thd[t].state = "UNUSED" /\ tpc[s] = "join" /\ JoinReturn(s)
          \/ thd[t].state = "ZOMBIE" /\ JoinReap(s, t)
          \/ Live(t) /\ thd[s].killed /\ JoinReturn(s)
          \/ Live(t) /\ ~thd[s].killed /\ JoinSleep(s, tid)
  /\ UNCHANGED nextTid /\ InKernel

-----------------------------------------------------------------------------
\* growproc() and setmemorylimit()

\* The section under the lock.  A program gives memory back only when it has
\* joined its threads, whose stacks end its address space.
Grow(s, n) ==
  LET old == thd[s].sz
      new == old + n
      limit == thd[s].limit
      more == old..(new - 1)
      Keep(sz) == GoTo(s, "grown", sz) /\ UNCHANGED <<thd, spare, nextTid>> /\ InKernel IN
  /\ InUserCode(s)
  /\ n < 0 => (new > 0 /\ \A t \in Family \ {s} : thd[t].state = "UNUSED")
  /\ \/ limit > 0 /\ old >= limit /\ Keep(old) /\ mapped' = mapped
     \/ /\ ~(limit > 0 /\ old >= limit) /\ n > 0 /\ new < KERNBASE
        /\ IF more \cap mapped # {} THEN Panic("remap")
           ELSE /\ Keep(new)        \* over the limit: deallocuvm(new + n, new) gives new
                /\ mapped' = IF limit > 0 /\ new > limit
                             THEN (mapped \cup more) \ (new..(new + n - 1)) ELSE mapped \cup more
     \/ ~(limit > 0 /\ old >= limit) /\ n < 0 /\ Keep(new) /\ mapped' = mapped \ (new..(old - 1))

GrowPublish(s) ==
  /\ Runs(s, "grown") /\ thd[s].tid # 0
  /\ thd' = SameSz(targ[s])
  /\ GoTo(s, "set", targ[s])
  /\ UNCHANGED <<spare, mapped, nextTid>> /\ InKernel

\* curproc->sz = sz, outside the lock.
GrowSet(s) ==
  /\ Runs(s, "set") \/ (Runs(s, "grown") /\ thd[s].tid = 0)
  /\ thd' = [thd EXCEPT ![s].sz = targ[s]]
  /\ GoTo(s, "user", 0)
  /\ UNCHANGED <<spare, mapped, nextTid>> /\ InKernel

\* By any process of the system; it finds the slot that made itself.
SetMemoryLimit(limit) ==
  LET own == {s \in Family : thd[s].tmaker = s} IN
  /\ wreck = "none" /\ own # {}
  /\ thd[Min(own)].sz <= limit
  /\ thd' = [thd EXCEPT ![Min(own)].limit = limit]
  /\ UNCHANGED <<spare, mapped, nextTid, tpc, targ>> /\ InKernel

-----------------------------------------------------------------------------
\* fork()

ForkAlloc(s, stack) == Alloc(s, stack, "fork")

\* Another process has taken the slot of the thread that made s: so has its pgdir.
Foreign(m) == ~thd[m].ours /\ thd[m].state # "UNUSED"

\* An entry of the ring is the first of the two pages of a spare stack.  (Once the
\* ring has wrapped, the code also passes over the stale entry at its rear.)
IsSpareAddr(page, ring) == page \in Range(ring)

\* What copyuvmTHD() panics on.
CopyHoles(m) ==
  {page \in 0..(thd[m].sz - 1) : page \notin mapped /\ ~IsSpareAddr(page, spare[m])}

\* The copy is that of the maker's memory.  When memory runs out fork() returns
\* without a release(&ptable.lock).
ForkCopy(s, enough) ==
  LET n == targ[s]
      m == thd[s].tmaker IN
  /\ Runs(s, "fork")
  /\ \/ ~enough /\ Panic("lock held")
     \/ enough /\ (Foreign(m) \/ CopyHoles(m) # {}) /\ Panic("hole")
     \/ /\ enough /\ (Foreign(m) \/ CopyHoles(m) = {})
        /\ thd' = [thd EXCEPT ![n] = [@ EXCEPT !.parent = s, !.tmaker = n, !.sz = 0]]
        /\ tpc' = [tpc EXCEPT ![n] = "other", ![s] = "forked"]
        /\ UNCHANGED <<spare, mapped, nextTid, targ>> /\ InKernel

\* After the open files, without the lock.
ForkReady(s) ==
  /\ Runs(s, "forked")
  /\ thd' = [thd EXCEPT ![targ[s]].state = "RUNNABLE"]
  /\ GoTo(s, "user", 0)
  /\ UNCHANGED <<spare, mapped, nextTid>> /\ InKernel

\* exit() in a child: its parent may sleep in wait().
ChildExits(k) ==
  LET told == [s \in TSlots |-> IF s = thd[k].parent /\ thd[s].state = "SLEEPING" /\ tpc[s] = "wait"
                                THEN [thd[s] EXCEPT !.state = "RUNNABLE"] ELSE thd[s]] IN
  /\ Runs(k, "other")
  /\ thd' = [PassedToInit(told, k) EXCEPT ![k].state = "ZOMBIE"]
  /\ GoTo(k, "dead", 0)
  /\ UNCHANGED <<spare, mapped, nextTid>> /\ InKernel

-----------------------------------------------------------------------------
\* exec(), exec2(), exit(), wait(), kill()

\* thread_cleaner(): every other slot with this pid, the free ones included.
Cleaned(s) ==
  LET gone == Family \ {s}
      waked == [t \in TSlots |->
                  IF thd[t].state = "SLEEPING" /\ tpc[t] = "join" /\ \E g \in gone : thd[g].tid = targ[t]
                  THEN [thd[t] EXCEPT !.state = "RUNNABLE"] ELSE thd[t]]
  IN  [t \in TSlots |-> IF t \in gone THEN [Reaped(thd[t]) EXCEPT !.sz = 0] ELSE waked[t]]

\* A free slot that kept the pid has no kernel stack any more: kfree(0).
CleanerPanics(s) == \E t \in Family \ {s} : thd[t].state = "UNUSED"

Clean(s, next, arg) ==
  IF CleanerPanics(s) THEN Panic("kfree") ELSE
  /\ thd' = Cleaned(s)
  /\ tpc' = [t \in TSlots |-> IF t = s THEN next ELSE IF thd[t].ours THEN "free" ELSE tpc[t]]
  /\ targ' = [targ EXCEPT ![s] = arg]
  /\ UNCHANGED <<spare, mapped, nextTid>> /\ InKernel

Exec(s) == InUserCode(s) /\ thd[s].tid = 0 /\ Clean(s, "exec", 0)

Exec2(s, stacksize) == InUserCode(s) /\ thd[s].tid = 0 /\ Clean(s, "exec2", stacksize)

\* The new image is committed.
Commit(s, pages) ==
  /\ thd' = [thd EXCEPT ![s] = [@ EXCEPT !.sz = pages, !.limit = 0, !.thdva = 0,
                                         !.tid = 0, !.tmaker = s]]
  /\ mapped' = 0..(pages - 1)
  /\ spare' = [spare EXCEPT ![s] = <<>>]

\* Something fails after the cleaning.
ExecBad == UNCHANGED <<thd, mapped, spare>>

ExecDone(s, good) ==
  /\ Runs(s, "exec")
  /\ IF good THEN Commit(s, IMAGE) ELSE ExecBad
  /\ GoTo(s, "user", 0)
  /\ UNCHANGED nextTid /\ InKernel

\* The stack has stacksize pages above the guard, which with no page at all takes
\* the arguments: copyout() refuses it.
Exec2Done(s, good) ==
  LET pages == IMAGE - 1 + targ[s] IN
  /\ Runs(s, "exec2")
  /\ IF good /\ targ[s] > 0 /\ pages < KERNBASE THEN Commit(s, pages) ELSE ExecBad
  /\ GoTo(s, "user", 0)
  /\ UNCHANGED nextTid /\ InKernel

\* exit() of the process or of one of its threads; a killed thread calls thread_exit().
Exit(s) == Runs(s, "user") /\ (thd[s].killed => thd[s].tid = 0) /\ Clean(s, "exit", 0)

ExitZombie(s) ==
  /\ Runs(s, "exit")
  /\ thd' = [PassedToInit(thd, s) EXCEPT ![s].state = "ZOMBIE"]
  /\ GoTo(s, "dead", 0)
  /\ parentAsleep' = FALSE                                \* wakeup1(parent)
  /\ UNCHANGED <<spare, mapped, nextTid, taken, nested, wreck>>

\* wait() in the parent: the first zombie, a thread or not, and the page table with it.
Wait ==
  LET zombies == {s \in TSlots : thd[s].parent = Outside /\ thd[s].state = "ZOMBIE"}
      z == Min(zombies) IN
  /\ wreck = "none" /\ ~parentAsleep
  /\ \E s \in TSlots : thd[s].parent = Outside
  /\ IF zombies = {} THEN parentAsleep' = TRUE /\ UNCHANGED <<thd, spare, mapped, tpc, wreck>>
     ELSE /\ thd' = [thd EXCEPT ![z] = [Reaped(@) EXCEPT !.sz = 0, !.tmaker = 0]]
          /\ spare' = [spare EXCEPT ![z] = <<>>]
          /\ mapped' = {}
          /\ tpc' = [tpc EXCEPT ![z] = "free"]
          /\ wreck' = IF \E s \in Family \ {z} : thd[s].state # "UNUSED" THEN "freed pgdir" ELSE "none"
          /\ parentAsleep' = FALSE
  /\ UNCHANGED <<nextTid, taken, targ, nested>>

\* wait() in the slot w of the process, or in a process that took that slot.
ChildReaped(k) ==
  /\ thd' = [thd EXCEPT ![k] = [Reaped(@) EXCEPT !.sz = 0, !.tmaker = 0]]
  /\ spare' = [spare EXCEPT ![k] = <<>>]

WaitChild(w) ==
  LET kids == {k \in TSlots : thd[k].parent = w}
      zombies == {k \in kids : thd[k].state = "ZOMBIE"} IN
  /\ InUserCode(w) \/ Runs(w, "wait")
  /\ \/ /\ zombies # {} /\ ChildReaped(Min(zombies))
        /\ tpc' = [tpc EXCEPT ![w] = "user", ![Min(zombies)] = "free"]
     \/ /\ zombies = {} /\ (kids = {} \/ thd[w].killed) /\ tpc[w] = "wait"
        /\ tpc' = [tpc EXCEPT ![w] = "user"] /\ UNCHANGED <<thd, spare>>
     \/ /\ zombies = {} /\ kids # {} /\ ~thd[w].killed
        /\ thd' = [thd EXCEPT ![w].state = "SLEEPING"]
        /\ tpc' = [tpc EXCEPT ![w] = "wait"] /\ UNCHANGED spare
  /\ UNCHANGED <<mapped, nextTid, targ>> /\ InKernel

\* By initproc or another process.
WaitElsewhere(k) ==
  LET w == thd[k].parent IN
  /\ wreck = "none" /\ thd[k].state = "ZOMBIE" /\ ~thd[k].ours
  /\ w = 0 \/ (w \in TSlots /\ Runs(w, "other"))
  /\ ChildReaped(k)
  /\ tpc' = [tpc EXCEPT ![k] = "free"]
  /\ UNCHANGED <<mapped, nextTid, targ>> /\ InKernel

Kill ==
  /\ wreck = "none" /\ \E s \in Family : ~thd[s].killed
  /\ thd' = [s \in TSlots |->
               IF thd[s].ours THEN [thd[s] EXCEPT !.killed = TRUE,
                                                  !.state = IF @ = "SLEEPING" THEN "RUNNABLE" ELSE @]
               ELSE thd[s]]
  /\ UNCHANGED <<spare, mapped, nextTid, tpc, targ>> /\ InKernel

-----------------------------------------------------------------------------
ThreadsNext ==
  \/ \E s \in TSlots :
       \/ \E yes \in BOOLEAN : CreateAlloc(s, yes) \/ CreateStack(s, yes) \/ ExecDone(s, yes)
       \/ \E yes \in BOOLEAN : ForkAlloc(s, yes) \/ ForkCopy(s, yes) \/ Exec2Done(s, yes)
       \/ CreateJoinFamily(s) \/ CreatePublish(s) \/ CreateAgain(s) \/ RunDead(s)
       \/ ForkReady(s) \/ ChildExits(s) \/ WaitChild(s) \/ WaitElsewhere(s)
       \/ ThreadExit(s)
       \/ \E tid \in 1..(nextTid - 1) : ThreadJoin(s, tid)
       \/ \E n \in Amounts : Grow(s, n)
       \/ \E stacksize \in StackSizes : Exec2(s, stacksize)
       \/ GrowPublish(s) \/ GrowSet(s)
       \/ Exec(s) \/ Exit(s) \/ ExitZombie(s)
  \/ \E limit \in Limits : SetMemoryLimit(limit)
  \/ Wait
  \/ Kill

ThreadsSpec == ThreadsInit /\ [][ThreadsNext]_threadsVars

-----------------------------------------------------------------------------
\* Types: the slots, the rings, the pages and where each slot is.
ThreadsTypeOK ==
  /\ thd \in [TSlots -> [state : {"UNUSED", "EMBRYO", "SLEEPING", "RUNNABLE", "ZOMBIE"},
                         ours : BOOLEAN, parent : 0..Outside, tid : 0..(nextTid - 1), tmaker : 0..NSLOTS,
                         sz : 0..KERNBASE, thdva : Pages, killed : BOOLEAN, limit : Nat]]
  /\ \A s \in TSlots : spare[s] \in Seq(Pages) /\ Len(spare[s]) < NTHREAD
  /\ mapped \subseteq Pages
  /\ nextTid \in Nat \ {0} /\ taken \in 0..MaxTaken
  /\ tpc \in [TSlots -> {"user", "free", "dead", "create", "stack", "publish", "again",
                         "fork", "forked", "other", "wait",
                         "join", "grown", "set", "exec", "exec2", "exit"}]
  /\ targ \in [TSlots -> Nat]
  /\ parentAsleep \in BOOLEAN /\ nested \in BOOLEAN
  /\ wreck \in {"none", "remap", "kfree", "zombie exit", "freed stack", "freed pgdir",
                "hole", "lock held"}

HasStack(s) == thd[s].ours /\ thd[s].tid # 0 /\ thd[s].state # "UNUSED"

\* The process has no memory limit, and no thread of it is in exit().
Unlimited == thd[Main].ours /\ thd[Main].limit = 0

\* Until the kernel dies of it, every thread that is not yet joined has its two
\* pages mapped and shares them with no other thread; and as long as only the
\* process itself creates threads, no stack in its spare ring is in use or is
\* there twice (thread_create() takes them from the ring, thread_join() puts
\* them back, the cleaner does neither).  With a memory limit none of this is
\* sure: growproc() beyond the limit frees pages it did not allocate, and a
\* stack can lie there.
StacksApart ==
  (wreck = "none" /\ Unlimited) =>
    /\ \A s \in TSlots : HasStack(s) =>
         /\ StackAt(thd[s].thdva) \subseteq mapped
         /\ \A t \in TSlots \ {s} : HasStack(t) => StackAt(thd[s].thdva) \cap StackAt(thd[t].thdva) = {}
         /\ \A i \in DOMAIN spare[Main] : nested \/
              StackAt(thd[s].thdva) \cap StackAt(spare[Main][i]) = {}
    /\ \A i, j \in DOMAIN spare[Main] :
         (i # j /\ ~nested) => StackAt(spare[Main][i]) \cap StackAt(spare[Main][j]) = {}

\* As long as only the process itself creates threads, without a memory limit,
\* every page below its size that is not mapped is a stack in its own ring
\* (between the two halves of a growproc() it is in no other call).  So fork()
\* panics on a missing page only with a spare stack in the ring: "if there is
\* spare list, copy without that area" (proc.c:283) passes over the first page
\* of each and not the second.
HolesSpare ==
  (Unlimited /\ ~nested) =>
    /\ (wreck = "none" /\ tpc[Main] # "grown") =>
         \A page \in 0..(thd[Main].sz - 1) :
           \/ page \in mapped
           \/ \E i \in DOMAIN spare[Main] : page \in StackAt(spare[Main][i])
    /\ wreck = "hole" => spare[Main] # <<>>

\* A slot asleep in thread_join() waits for a thread that has neither exited nor
\* been cleaned away: thread_exit() and thread_cleaner() wake whoever joins it.  A
\* slot or a parent asleep in wait() has a child that lives.  One case is left by the code:
\* the slot of a thread_create() that failed is free and still has its parent, who
\* waits for it when its children are reaped ("Return -1 if this process has no
\* children", proc.c:398).
JoinersWait ==
  wreck = "none" =>
    /\ \A s \in TSlots : thd[s].state = "SLEEPING" =>
         \E t \in TSlots : Live(t) /\ IF tpc[s] = "wait" THEN thd[t].parent = s ELSE thd[t].tid = targ[s]
    /\ parentAsleep => \E s \in TSlots : thd[s].parent = Outside /\ (Live(s) \/ thd[s].state = "UNUSED")
===============================================================================
