------------------------------ MODULE LogProofs ------------------------------
(***************************************************************************)
(* Proofs about Log.tla.                                                   *)
(*                                                                         *)
(* CountInv is inductive: the types of the variables together with the     *)
(* reading of log.outstanding as the number of processes inside a file     *)
(* system call.  The types alone are not inductive, for "outstanding - 1"  *)
(* is a natural number only because the process that ends was counted.     *)
(* AloneInv, SleepInv, OnceInv and OverrunInv strengthen one property each *)
(* of Log.tla in the same way, where it is proved.                         *)
(***************************************************************************)
EXTENDS Log, FiniteSetTheorems, TLAPS

CountInv ==
  /\ TypeOK
  /\ kernel = "up" => outstanding = Cardinality(InOp)
  /\ kernel \in Booting => InOp = {} /\ outstanding = 0

-----------------------------------------------------------------------------
\* How InOp follows the program counters.

\* A step of one process between two points outside a call, or inside one,
\* leaves InOp alone.
LEMMA InOpSame ==
  ASSUME pc \in [Procs -> States], NEW p \in Procs, NEW s \in States,
         pc[p] \in OpStates <=> s \in OpStates, Goto(p, s)
  PROVE  InOp' = InOp
BY DEF InOp, Goto

\* begin_op() adds the process.
LEMMA InOpEnter ==
  ASSUME pc \in [Procs -> States], NEW p \in Procs, NEW s \in OpStates,
         Goto(p, s), s \in States
  PROVE  InOp' = InOp \cup {p}
BY DEF InOp, Goto

\* end_op() removes it.
LEMMA InOpLeave ==
  ASSUME pc \in [Procs -> States], NEW p \in Procs, NEW s \in States,
         s \notin OpStates, Goto(p, s)
  PROVE  InOp' = InOp \ {p}
BY DEF InOp, Goto

\* A wakeup moves sleepers to points that are outside a call as well.
LEMMA WokenState ==
  ASSUME NEW s \in States
  PROVE  Woken(s) \in States /\ (Woken(s) \in OpStates <=> s \in OpStates)
BY DEF Woken, States, Sleeping, OpStates, CommitStates

LEMMA InOpWakeAll ==
  ASSUME pc \in [Procs -> States], NEW p \in Procs, NEW s \in States,
         s \notin OpStates, pc' = WakeAll(p, s)
  PROVE  pc' \in [Procs -> States] /\ InOp' = InOp \ {p}
BY WokenState DEF InOp, WakeAll

\* InOp is finite, so its cardinality is a number and moves by one.
LEMMA InOpFinite == IsFiniteSet(InOp) /\ Cardinality(InOp) \in Nat
BY ProcsAssumption, FS_Subset, FS_CardinalityType DEF InOp

LEMMA InOpAdd ==
  ASSUME NEW p, p \notin InOp
  PROVE  Cardinality(InOp \cup {p}) = Cardinality(InOp) + 1
BY InOpFinite, FS_AddElement

LEMMA InOpRemove ==
  ASSUME NEW p \in InOp
  PROVE  /\ Cardinality(InOp \ {p}) = Cardinality(InOp) - 1
         /\ Cardinality(InOp) >= 1
<1>1. Cardinality(InOp \ {p}) = Cardinality(InOp) - 1
  BY InOpFinite, FS_RemoveElement
<1>2. Cardinality(InOp \ {p}) \in Nat
  BY InOpFinite, FS_RemoveElement, FS_CardinalityType
<1> QED BY <1>1, <1>2, InOpFinite

-----------------------------------------------------------------------------
LEMMA StatesFacts ==
  /\ OpStates \subseteq States /\ CommitStates \subseteq States
  /\ Sleeping \subseteq States /\ {"idle", "begin", "sync"} \subseteq States
  /\ OpStates \cap CommitStates = {} /\ OpStates \cap Sleeping = {}
  /\ {"idle", "begin", "sync"} \cap OpStates = {}
BY DEF States, OpStates, CommitStates, Sleeping

LEMMA CountInvInit == Init => CountInv
<1> SUFFICES ASSUME Init PROVE CountInv
  OBVIOUS
<1>1. TypeOK
  <2>1. lh \in Seq(Blocks) /\ dhead \in Seq(Blocks)
    BY DEF Init
  <2>2. pc \in [Procs -> States] /\ kernel \in Booting
    BY StatesFacts DEF Init, Booting
  <2>3. cache \in [Blocks -> Data \cup {NoData}] /\ held \in [Blocks -> Procs \cup {NoProc}]
    BY DEF Init
  <2> QED BY <2>1, <2>2, <2>3 DEF Init, TypeOK
<1>2. InOp = {}
  BY DEF Init, InOp, OpStates
<1> QED BY <1>1, <1>2 DEF Init, CountInv, Booting

\* Actions that leave log.outstanding alone and take no process into or out of
\* a call: the types have to be checked, and nothing else.
LEMMA CountInvQuiet ==
  ASSUME CountInv, TypeOK', InOp' = InOp, outstanding' = outstanding,
         kernel' = "up" => kernel = "up", kernel' \in Booting => kernel \in Booting
  PROVE  CountInv'
BY DEF CountInv

\* bread() returns data, whichever block it is asked for.
LEMMA ReadData ==
  ASSUME TypeOK
  PROVE  /\ \A b \in Blocks : View(b) \in Data
         /\ \A i \in Nat : LogBlock(i) \in Data
<1>1. \A b \in Blocks : View(b) \in Data
  BY DEF TypeOK, View
<1> QED BY <1>1, BlocksAssumption DEF TypeOK, LogBlock

LEMMA CountInvNext == CountInv /\ [Next]_vars => CountInv'
<1> SUFFICES ASSUME CountInv, [Next]_vars PROVE CountInv'
  OBVIOUS
<1> USE DEF onDisk, bufVars, logVars, procVars
<1>0. TypeOK
  BY DEF CountInv
<1>1. ASSUME NEW p \in Procs, BeginOpSleep(p) PROVE CountInv'
  <2>1. TypeOK'
    BY <1>0, <1>1 DEF BeginOpSleep, TypeOK, Goto, States, OpStates, CommitStates, Sleeping
  <2>2. InOp' = InOp
    BY <1>0, <1>1 DEF BeginOpSleep, TypeOK, Goto, InOp, States, OpStates, CommitStates, Sleeping
  <2> QED BY <2>1, <2>2, <1>1, CountInvQuiet DEF BeginOpSleep, Booting
<1>2. ASSUME NEW p \in Procs, NEW b \in Blocks, NEW v \in Data, Modify(p,b,v) PROVE CountInv'
  <2>1. TypeOK'
    BY <1>0, <1>2 DEF Modify, TypeOK, Goto, States, OpStates, CommitStates, Sleeping
  <2>2. InOp' = InOp
    BY <1>0, <1>2 DEF Modify, TypeOK, Goto, InOp, States, OpStates, CommitStates, Sleeping
  <2> QED BY <2>1, <2>2, <1>2, CountInvQuiet DEF Modify, Booting
<1>3. ASSUME NEW p \in Procs, LogWriteCheck(p) PROVE CountInv'
  <2>1. TypeOK'
    BY <1>0, <1>3 DEF LogWriteCheck, TypeOK, Goto, States, OpStates, CommitStates, Sleeping
  <2>2. InOp' = InOp
    BY <1>0, <1>3 DEF LogWriteCheck, TypeOK, Goto, InOp, States, OpStates, CommitStates, Sleeping
  <2> QED BY <2>1, <2>2, <1>3, CountInvQuiet DEF LogWriteCheck, Booting
<1>4. ASSUME NEW p \in Procs, LogWritePanic(p) PROVE CountInv'
  <2>1. TypeOK'
    BY <1>0, <1>4 DEF LogWritePanic, TypeOK, Goto, States, OpStates, CommitStates, Sleeping, Halted
  <2>2. InOp' = InOp
    BY <1>0, <1>4 DEF LogWritePanic, TypeOK, Goto, InOp, States, OpStates, CommitStates, Sleeping
  <2> QED BY <2>1, <2>2, <1>4, CountInvQuiet DEF LogWritePanic, Booting
<1>5. ASSUME NEW p \in Procs, NEW b \in Blocks, LogWriteAppend(p,b) PROVE CountInv'
  <2>1. TypeOK'
    BY <1>0, <1>5 DEF LogWriteAppend, TypeOK, Goto, States, OpStates, CommitStates, Sleeping
  <2>2. InOp' = InOp
    BY <1>0, <1>5 DEF LogWriteAppend, TypeOK, Goto, InOp, States, OpStates, CommitStates, Sleeping
  <2> QED BY <2>1, <2>2, <1>5, CountInvQuiet DEF LogWriteAppend, Booting
<1>6. ASSUME NEW p \in Procs, NEW b \in Blocks, LogWriteOverflow(p,b) PROVE CountInv'
  <2>1. TypeOK'
    BY <1>0, <1>6 DEF LogWriteOverflow, TypeOK, Goto, States, OpStates, CommitStates, Sleeping, Halted
  <2>2. InOp' = InOp
    BY <1>0, <1>6 DEF LogWriteOverflow, TypeOK, Goto, InOp, States, OpStates, CommitStates, Sleeping
  <2> QED BY <2>1, <2>2, <1>6, CountInvQuiet DEF LogWriteOverflow, Booting
<1>7. ASSUME NEW p \in Procs, CommitStart(p) PROVE CountInv'
  <2>1. TypeOK'
    BY <1>0, <1>7 DEF CommitStart, TypeOK, Goto, States, OpStates, CommitStates, Sleeping
  <2>2. InOp' = InOp
    BY <1>0, <1>7 DEF CommitStart, TypeOK, Goto, InOp, States, OpStates, CommitStates, Sleeping
  <2> QED BY <2>1, <2>2, <1>7, CountInvQuiet DEF CommitStart, Booting
<1>8. ASSUME NEW p \in Procs, WriteLog(p) PROVE CountInv'
  <2>1. TypeOK'
    BY <1>0, <1>8 DEF WriteLog, TypeOK, Goto, States, OpStates, CommitStates, Sleeping, View
  <2>2. InOp' = InOp
    BY <1>0, <1>8 DEF WriteLog, TypeOK, Goto, InOp, States, OpStates, CommitStates, Sleeping
  <2> QED BY <2>1, <2>2, <1>8, CountInvQuiet DEF WriteLog, Booting
<1>9. ASSUME NEW p \in Procs, WriteLogPastEnd(p) PROVE CountInv'
  <2>1. TypeOK'
    <3>1. tail[p] \in Nat /\ lh[tail[p]] \in Blocks
      BY <1>0, <1>9 DEF WriteLogPastEnd, TypeOK
    <3>2. home' \in [Blocks -> Data] /\ cache' \in [Blocks -> Data \cup {NoData}]
      BY <1>0, <1>9, <3>1, ReadData, BlocksAssumption DEF WriteLogPastEnd, TypeOK
    <3> QED
      BY <1>0, <1>9, <3>1, <3>2 DEF WriteLogPastEnd, TypeOK, Goto, States, OpStates,
         CommitStates, Sleeping
  <2>2. InOp' = InOp
    BY <1>0, <1>9 DEF WriteLogPastEnd, TypeOK, Goto, InOp, States, OpStates, CommitStates, Sleeping
  <2> QED BY <2>1, <2>2, <1>9, CountInvQuiet DEF WriteLogPastEnd, Booting
<1>10. ASSUME NEW p \in Procs, WriteLogEnd(p) PROVE CountInv'
  <2>1. TypeOK'
    BY <1>0, <1>10 DEF WriteLogEnd, TypeOK, Goto, States, OpStates, CommitStates, Sleeping
  <2>2. InOp' = InOp
    BY <1>0, <1>10 DEF WriteLogEnd, TypeOK, Goto, InOp, States, OpStates, CommitStates, Sleeping
  <2> QED BY <2>1, <2>2, <1>10, CountInvQuiet DEF WriteLogEnd, Booting
<1>11. ASSUME NEW p \in Procs, WriteHead(p) PROVE CountInv'
  <2>1. TypeOK'
    BY <1>0, <1>11 DEF WriteHead, TypeOK, Goto, States, OpStates, CommitStates, Sleeping
  <2>2. InOp' = InOp
    BY <1>0, <1>11 DEF WriteHead, TypeOK, Goto, InOp, States, OpStates, CommitStates, Sleeping
  <2> QED BY <2>1, <2>2, <1>11, CountInvQuiet DEF WriteHead, Booting
<1>12. ASSUME NEW p \in Procs, Install(p) PROVE CountInv'
  <2>1. TypeOK'
    <3>1. tail[p] \in Nat /\ lh[tail[p]] \in Blocks
      BY <1>0, <1>12 DEF Install, TypeOK
    <3>2. home' \in [Blocks -> Data] /\ cache' \in [Blocks -> Data \cup {NoData}]
      BY <1>0, <1>12, <3>1, ReadData, BlocksAssumption DEF Install, TypeOK
    <3> QED
      BY <1>0, <1>12, <3>1, <3>2 DEF Install, TypeOK, Goto, States, OpStates,
         CommitStates, Sleeping
  <2>2. InOp' = InOp
    BY <1>0, <1>12 DEF Install, TypeOK, Goto, InOp, States, OpStates, CommitStates, Sleeping
  <2> QED BY <2>1, <2>2, <1>12, CountInvQuiet DEF Install, Booting
<1>13. ASSUME NEW p \in Procs, InstallEnd(p) PROVE CountInv'
  <2>1. TypeOK'
    BY <1>0, <1>13 DEF InstallEnd, TypeOK, Goto, States, OpStates, CommitStates, Sleeping
  <2>2. InOp' = InOp
    BY <1>0, <1>13 DEF InstallEnd, TypeOK, Goto, InOp, States, OpStates, CommitStates, Sleeping
  <2> QED BY <2>1, <2>2, <1>13, CountInvQuiet DEF InstallEnd, Booting
<1>14. ASSUME NEW p \in Procs, Clear(p) PROVE CountInv'
  <2>1. TypeOK'
    BY <1>0, <1>14 DEF Clear, TypeOK, Goto, States, OpStates, CommitStates, Sleeping
  <2>2. InOp' = InOp
    BY <1>0, <1>14 DEF Clear, TypeOK, Goto, InOp, States, OpStates, CommitStates, Sleeping
  <2> QED BY <2>1, <2>2, <1>14, CountInvQuiet DEF Clear, Booting
<1>15. ASSUME NEW p \in Procs, SyncSleep(p) PROVE CountInv'
  <2>1. TypeOK'
    BY <1>0, <1>15 DEF SyncSleep, TypeOK, Goto, States, OpStates, CommitStates, Sleeping
  <2>2. InOp' = InOp
    BY <1>0, <1>15 DEF SyncSleep, TypeOK, Goto, InOp, States, OpStates, CommitStates, Sleeping
  <2> QED BY <2>1, <2>2, <1>15, CountInvQuiet DEF SyncSleep, Booting
<1>16. ASSUME NEW p \in Procs, SyncTake(p) PROVE CountInv'
  <2>1. TypeOK'
    BY <1>0, <1>16 DEF SyncTake, TypeOK, Goto, States, OpStates, CommitStates, Sleeping
  <2>2. InOp' = InOp
    BY <1>0, <1>16 DEF SyncTake, TypeOK, Goto, InOp, States, OpStates, CommitStates, Sleeping
  <2> QED BY <2>1, <2>2, <1>16, CountInvQuiet DEF SyncTake, Booting
<1>17. ASSUME NEW p \in Procs, Recover(p) PROVE CountInv'
  <2>1. TypeOK'
    BY <1>0, <1>17 DEF Recover, TypeOK, Goto, States, OpStates, CommitStates, Sleeping, Booting
  <2>2. InOp' = InOp
    BY <1>0, <1>17 DEF Recover, CountInv, TypeOK, Goto, InOp, States, OpStates,
       CommitStates, Sleeping, Booting
  <2> QED BY <2>1, <2>2, <1>17, CountInvQuiet DEF Recover, Booting
<1>18. ASSUME NEW b \in Blocks, Evict(b) PROVE CountInv'
  <2>1. TypeOK'
    BY <1>0, <1>18 DEF Evict, TypeOK, Goto, States, OpStates, CommitStates, Sleeping
  <2>2. InOp' = InOp
    BY <1>0, <1>18 DEF Evict, TypeOK, Goto, InOp, States, OpStates, CommitStates, Sleeping
  <2> QED BY <2>1, <2>2, <1>18, CountInvQuiet DEF Evict, Booting
<1>19. ASSUME NEW p \in Procs, BeginOp(p) PROVE CountInv'
  <2>1. TypeOK'
    BY <1>0, <1>19 DEF BeginOp, TypeOK, Goto, States, OpStates, CommitStates, Sleeping
  <2>2. InOp' = InOp \cup {p} /\ p \notin InOp
    BY <1>0, <1>19 DEF BeginOp, TypeOK, Goto, InOp, States, OpStates, CommitStates, Sleeping
  <2> QED BY <2>1, <2>2, <1>19, InOpAdd DEF BeginOp, CountInv, Booting
<1>20. ASSUME NEW p \in Procs, EndOp(p) PROVE CountInv'
  <2>1. p \in InOp /\ kernel = "up"
    BY <1>20 DEF EndOp, EndOpPanic, EndOpCommit, EndOpDefer, EndOpOthers, InOp, OpStates
  <2>2. outstanding = Cardinality(InOp) /\ outstanding >= 1
    BY <2>1, InOpRemove DEF CountInv
  <2>3. CASE EndOpPanic(p)
    <3>1. TypeOK'
      BY <1>0, <2>2, <2>3 DEF EndOpPanic, TypeOK, Halted
    <3> QED BY <3>1, <2>3 DEF EndOpPanic, CountInv, Booting
  <2>4. CASE EndOpCommit(p)
    <3>1. TypeOK'
      BY <1>0, <2>4 DEF EndOpCommit, TypeOK, Goto, States, OpStates, CommitStates, Sleeping
    <3>2. InOp' = InOp \ {p}
      BY <1>0, <2>4 DEF EndOpCommit, TypeOK, Goto, InOp, States, OpStates, CommitStates, Sleeping
    <3> QED BY <3>1, <3>2, <2>1, <2>2, <2>4, InOpRemove DEF EndOpCommit, CountInv, Booting
  <2>5. CASE EndOpDefer(p)
    <3>1. TypeOK'
      BY <1>0, <2>5 DEF EndOpDefer, TypeOK, Goto, States, OpStates, CommitStates, Sleeping
    <3>2. InOp' = InOp \ {p}
      BY <1>0, <2>5 DEF EndOpDefer, TypeOK, Goto, InOp, States, OpStates, CommitStates, Sleeping
    <3> QED BY <3>1, <3>2, <2>1, <2>2, <2>5, InOpRemove DEF EndOpDefer, CountInv, Booting
  <2>6. CASE EndOpOthers(p)
    <3>1. pc' \in [Procs -> States] /\ InOp' = InOp \ {p}
      BY <1>0, <2>6, InOpWakeAll, StatesFacts DEF EndOpOthers, TypeOK
    <3>2. TypeOK'
      BY <1>0, <2>2, <2>6, <3>1 DEF EndOpOthers, TypeOK
    <3> QED BY <3>1, <3>2, <2>1, <2>2, <2>6, InOpRemove DEF EndOpOthers, CountInv, Booting
  <2> QED BY <1>20, <2>3, <2>4, <2>5, <2>6 DEF EndOp
<1>21. ASSUME NEW p \in Procs, CommitDone(p) \/ SyncDone(p) PROVE CountInv'
  <2>1. PICK s \in {"idle", "sync_sleep"} : pc' = WakeAll(p, s)
    BY <1>21 DEF CommitDone, SyncDone
  <2>2. s \in States /\ s \notin OpStates /\ p \notin InOp
    BY <1>21 DEF CommitDone, SyncDone, InOp, States, OpStates, CommitStates, Sleeping
  <2>3. pc' \in [Procs -> States] /\ InOp' = InOp
    <3>1. pc \in [Procs -> States]
      BY <1>0 DEF TypeOK
    <3>2. pc' \in [Procs -> States] /\ InOp' = InOp \ {p}
      BY <3>1, <2>1, <2>2, InOpWakeAll
    <3> QED BY <3>2, <2>2
  <2>4. TypeOK'
    BY <1>0, <1>21, <2>3 DEF CommitDone, SyncDone, TypeOK
  <2> QED BY <2>3, <2>4, <1>21, CountInvQuiet DEF CommitDone, SyncDone
<1>22. ASSUME NEW p \in Procs, RecoverDone(p) PROVE CountInv'
  <2>1. TypeOK'
    BY <1>0, <1>22, StatesFacts DEF RecoverDone, TypeOK, Goto
  <2>2. InOp = {} /\ outstanding = 0
    BY <1>22 DEF RecoverDone, CountInv, Booting
  <2>3. InOp' = InOp
    BY <1>0, <1>22 DEF RecoverDone, TypeOK, Goto, InOp, States, OpStates, CommitStates, Sleeping
  <2>4. Cardinality(InOp') = 0
    BY <2>2, <2>3, FS_EmptySet
  <2> QED BY <2>1, <2>2, <2>3, <2>4, <1>22 DEF RecoverDone, CountInv, Booting
<1>23. ASSUME Crash PROVE CountInv'
  <2>1. TypeOK'
    <3>1. lh' \in Seq(Blocks)
      BY <1>23 DEF Crash
    <3>2. pc' \in [Procs -> States] /\ kernel' \in Booting
      BY <1>23, StatesFacts DEF Crash, Booting
    <3>3. /\ cache' \in [Blocks -> Data \cup {NoData}]
          /\ held' \in [Blocks -> Procs \cup {NoProc}]
      BY <1>23 DEF Crash
    <3> QED BY <1>0, <1>23, <3>1, <3>2, <3>3 DEF Crash, TypeOK
  <2>2. InOp' = {}
    BY <1>23 DEF Crash, InOp, OpStates
  <2> QED BY <2>1, <2>2, <1>23 DEF Crash, CountInv, Booting
<1>24. CASE UNCHANGED vars
  <2>1. TypeOK'
    BY <1>0, <1>24 DEF vars, TypeOK
  <2>2. InOp' = InOp
    BY <1>24 DEF vars, InOp
  <2> QED BY <2>1, <2>2, <1>24, CountInvQuiet DEF vars
<1> HIDE DEF onDisk, bufVars, logVars, procVars
<1>25. ASSUME NEW p \in Procs, CommitStep(p) PROVE CountInv'
  BY <1>25, <1>7, <1>8, <1>9, <1>10, <1>11, <1>12, <1>13, <1>14, <1>21, <1>22 DEF CommitStep
<1>26. ASSUME NEW p \in Procs, Step(p) PROVE CountInv'
  BY <1>26, <1>25, <1>19, <1>20, <1>1, <1>2, <1>3, <1>4, <1>5, <1>6, <1>15, <1>16, <1>17 DEF Step, LogWrite
<1> QED BY <1>26, <1>18, <1>23, <1>24 DEF Next

\* The variables keep their types; in particular log.outstanding never goes
\* below zero, whatever calls, syncs, commits and crashes interleave.
THEOREM TypeCorrect == Spec => []TypeOK
<1>1. CountInv => TypeOK
  BY DEF CountInv
<1> QED BY <1>1, CountInvInit, CountInvNext, PTL DEF Spec

\* log.outstanding is at all times the number of processes between begin_op()
\* and end_op(), so the test of log_write() for a call outside a transaction
\* never fails.
THEOREM OutstandingCounts == Spec => []OutstandingCount
<1>1. CountInv => OutstandingCount
  BY DEF CountInv, OutstandingCount
<1> QED BY <1>1, CountInvInit, CountInvNext, PTL DEF Spec

-----------------------------------------------------------------------------
(***************************************************************************)
(* Without sync(), as in the xv6 this log was made from, the commits of    *)
(* end_op() are alone.  Three things have to be carried along: who sets    *)
(* log.committing, that a process commits, and that a boot commits nothing *)
(* before it is over.                                                      *)
(***************************************************************************)
NoSync == syncing = {} /\ \A p \in Procs : pc[p] \notin {"sync", "sync_sleep"}

AloneInv ==
  /\ CountInv
  /\ NoSync
  /\ \A p, q \in InCommit : p = q
  /\ InCommit # {} => InOp = {}
  /\ kernel = "up" => (committing <=> InCommit # {})
  /\ kernel \in Booting => ~committing
  /\ kernel = "boot" => InCommit = {}
  /\ kernel \in Halted => InCommit = {}

(***************************************************************************)
(* A process sleeps in begin_op() during a commit, or when the header is   *)
(* full; in the second case some call is still running, because the last   *)
(* call to end leaves a full header to a commit, and a commit leaves an    *)
(* empty one.                                                              *)
(***************************************************************************)
SleepInv ==
  /\ AloneInv
  /\ NoLostWakeup
  /\ (\E p \in Procs : pc[p] \in Sleeping) => committing \/ Len(lh) >= LOGSIZE
  /\ kernel = "up" /\ ~committing /\ outstanding = 0 => Len(lh) < LOGSIZE
  /\ \A p \in Procs : pc[p] \in {"erase_head", "done"} => lh = <<>>
  /\ kernel \in Booting => \A p \in Procs : pc[p] \notin Sleeping

(***************************************************************************)
(* Absorption looks for the block in the whole header, so the header has   *)
(* it once; the header on disk is a copy, and recovery copies it back.     *)
(***************************************************************************)
Once(s) == \A i, j \in 1..Len(s) : s[i] = s[j] => i = j
OnceInv == TypeOK /\ Once(lh) /\ Once(dhead)

LEMMA AloneInit == Init => AloneInv
<1> SUFFICES ASSUME Init PROVE AloneInv
  OBVIOUS
<1>1. CountInv
  BY CountInvInit
<1>2. InCommit = {}
  BY DEF Init, InCommit, CommitStates
<1> QED BY <1>1, <1>2 DEF Init, AloneInv, NoSync, Booting, Halted

\* A step that takes no process into or out of commit() or a call.
LEMMA AloneQuiet ==
  ASSUME AloneInv, CountInv', NoSync', InOp' = InOp, InCommit' = InCommit,
         committing' = committing, kernel' = kernel
  PROVE  AloneInv'
BY DEF AloneInv

\* A process inside a call can halt the machine: nobody is committing.
LEMMA AloneHalt ==
  ASSUME AloneInv, CountInv', NoSync', InCommit' = InCommit, InOp # {},
         kernel' \in Halted
  PROVE  AloneInv'
BY DEF AloneInv, Halted, Booting

LEMMA AloneNext ==
  ASSUME Syncers = {}
  PROVE  AloneInv /\ [Next]_vars => AloneInv'
<1> SUFFICES ASSUME AloneInv, [Next]_vars PROVE AloneInv'
  OBVIOUS
<1> USE DEF onDisk, bufVars, logVars, procVars
<1>1. CountInv' /\ TypeOK /\ NoSync
  BY CountInvNext DEF AloneInv, CountInv
<1>2. pc \in [Procs -> States]
  BY <1>1 DEF TypeOK
<1>3. ASSUME NEW p \in Procs, BeginOpSleep(p) PROVE AloneInv'
  <2>1. InOp' = InOp /\ InCommit' = InCommit /\ NoSync'
    BY <1>1, <1>2, <1>3 DEF BeginOpSleep, Goto, InOp, InCommit, NoSync,
       States, OpStates, CommitStates, Sleeping
  <2> QED BY <1>1, <2>1, <1>3, AloneQuiet DEF BeginOpSleep
<1>4. ASSUME NEW p \in Procs, NEW b \in Blocks, NEW v \in Data, Modify(p,b,v) PROVE AloneInv'
  <2>1. InOp' = InOp /\ InCommit' = InCommit /\ NoSync'
    BY <1>1, <1>2, <1>4 DEF Modify, Goto, InOp, InCommit, NoSync,
       States, OpStates, CommitStates, Sleeping
  <2> QED BY <1>1, <2>1, <1>4, AloneQuiet DEF Modify
<1>5. ASSUME NEW p \in Procs, LogWriteCheck(p) PROVE AloneInv'
  <2>1. InOp' = InOp /\ InCommit' = InCommit /\ NoSync'
    BY <1>1, <1>2, <1>5 DEF LogWriteCheck, Goto, InOp, InCommit, NoSync,
       States, OpStates, CommitStates, Sleeping
  <2> QED BY <1>1, <2>1, <1>5, AloneQuiet DEF LogWriteCheck
<1>6. ASSUME NEW p \in Procs, NEW b \in Blocks, LogWriteAppend(p,b) PROVE AloneInv'
  <2>1. InOp' = InOp /\ InCommit' = InCommit /\ NoSync'
    BY <1>1, <1>2, <1>6 DEF LogWriteAppend, Goto, InOp, InCommit, NoSync,
       States, OpStates, CommitStates, Sleeping
  <2> QED BY <1>1, <2>1, <1>6, AloneQuiet DEF LogWriteAppend
<1>7. ASSUME NEW p \in Procs, CommitStart(p) PROVE AloneInv'
  <2>1. InOp' = InOp /\ InCommit' = InCommit /\ NoSync'
    BY <1>1, <1>2, <1>7 DEF CommitStart, Goto, InOp, InCommit, NoSync,
       States, OpStates, CommitStates, Sleeping
  <2> QED BY <1>1, <2>1, <1>7, AloneQuiet DEF CommitStart
<1>8. ASSUME NEW p \in Procs, WriteLog(p) PROVE AloneInv'
  <2>1. InOp' = InOp /\ InCommit' = InCommit /\ NoSync'
    BY <1>1, <1>2, <1>8 DEF WriteLog, Goto, InOp, InCommit, NoSync,
       States, OpStates, CommitStates, Sleeping
  <2> QED BY <1>1, <2>1, <1>8, AloneQuiet DEF WriteLog
<1>9. ASSUME NEW p \in Procs, WriteLogPastEnd(p) PROVE AloneInv'
  <2>1. InOp' = InOp /\ InCommit' = InCommit /\ NoSync'
    BY <1>1, <1>2, <1>9 DEF WriteLogPastEnd, Goto, InOp, InCommit, NoSync,
       States, OpStates, CommitStates, Sleeping
  <2> QED BY <1>1, <2>1, <1>9, AloneQuiet DEF WriteLogPastEnd
<1>10. ASSUME NEW p \in Procs, WriteLogEnd(p) PROVE AloneInv'
  <2>1. InOp' = InOp /\ InCommit' = InCommit /\ NoSync'
    BY <1>1, <1>2, <1>10 DEF WriteLogEnd, Goto, InOp, InCommit, NoSync,
       States, OpStates, CommitStates, Sleeping
  <2> QED BY <1>1, <2>1, <1>10, AloneQuiet DEF WriteLogEnd
<1>11. ASSUME NEW p \in Procs, WriteHead(p) PROVE AloneInv'
  <2>1. InOp' = InOp /\ InCommit' = InCommit /\ NoSync'
    BY <1>1, <1>2, <1>11 DEF WriteHead, Goto, InOp, InCommit, NoSync,
       States, OpStates, CommitStates, Sleeping
  <2> QED BY <1>1, <2>1, <1>11, AloneQuiet DEF WriteHead
<1>12. ASSUME NEW p \in Procs, Install(p) PROVE AloneInv'
  <2>1. InOp' = InOp /\ InCommit' = InCommit /\ NoSync'
    BY <1>1, <1>2, <1>12 DEF Install, Goto, InOp, InCommit, NoSync,
       States, OpStates, CommitStates, Sleeping
  <2> QED BY <1>1, <2>1, <1>12, AloneQuiet DEF Install
<1>13. ASSUME NEW p \in Procs, InstallEnd(p) PROVE AloneInv'
  <2>1. InOp' = InOp /\ InCommit' = InCommit /\ NoSync'
    BY <1>1, <1>2, <1>13 DEF InstallEnd, Goto, InOp, InCommit, NoSync,
       States, OpStates, CommitStates, Sleeping
  <2> QED BY <1>1, <2>1, <1>13, AloneQuiet DEF InstallEnd
<1>14. ASSUME NEW p \in Procs, Clear(p) PROVE AloneInv'
  <2>1. InOp' = InOp /\ InCommit' = InCommit /\ NoSync'
    BY <1>1, <1>2, <1>14 DEF Clear, Goto, InOp, InCommit, NoSync,
       States, OpStates, CommitStates, Sleeping
  <2> QED BY <1>1, <2>1, <1>14, AloneQuiet DEF Clear
<1>15. ASSUME NEW b \in Blocks, Evict(b) PROVE AloneInv'
  <2>1. InOp' = InOp /\ InCommit' = InCommit /\ NoSync'
    BY <1>1, <1>2, <1>15 DEF Evict, Goto, InOp, InCommit, NoSync,
       States, OpStates, CommitStates, Sleeping
  <2> QED BY <1>1, <2>1, <1>15, AloneQuiet DEF Evict
<1>16. ASSUME NEW p \in Procs, LogWritePanic(p) PROVE AloneInv'
  <2>1. InCommit' = InCommit /\ NoSync' /\ p \in InOp
    BY <1>1, <1>16 DEF LogWritePanic, InOp, InCommit, NoSync, OpStates
  <2> QED BY <1>1, <2>1, <1>16, AloneHalt DEF LogWritePanic, Halted
<1>17. ASSUME NEW p \in Procs, NEW b \in Blocks, LogWriteOverflow(p,b) PROVE AloneInv'
  <2>1. InCommit' = InCommit /\ NoSync' /\ p \in InOp
    BY <1>1, <1>17 DEF LogWriteOverflow, InOp, InCommit, NoSync, OpStates
  <2> QED BY <1>1, <2>1, <1>17, AloneHalt DEF LogWriteOverflow, Halted
<1>18. ASSUME NEW p \in Procs, BeginOp(p) PROVE AloneInv'
  <2>1. InCommit' = InCommit /\ NoSync'
    BY <1>1, <1>2, <1>18 DEF BeginOp, Goto, InCommit, NoSync, States, OpStates, CommitStates, Sleeping
  <2>2. InCommit = {}
    BY <1>18 DEF BeginOp, AloneInv
  <2> QED BY <1>1, <2>1, <2>2, <1>18 DEF BeginOp, AloneInv, Booting, Halted
<1>19. ASSUME NEW p \in Procs, EndOp(p) PROVE AloneInv'
  <2>1. p \in InOp /\ kernel = "up" /\ pc[p] = "op"
    BY <1>19 DEF EndOp, EndOpPanic, EndOpCommit, EndOpDefer, EndOpOthers, InOp, OpStates
  <2>2. ~committing /\ InCommit = {}
    BY <2>1 DEF AloneInv
  <2>3. CASE EndOpCommit(p)
    <3>1. InOp = {p}
      BY <2>1, <2>3, InOpFinite, FS_Singleton DEF EndOpCommit, AloneInv, CountInv
    <3>2. InOp' = {} /\ InCommit' = {p}
      BY <1>2, <2>2, <2>3, <3>1 DEF EndOpCommit, Goto, InOp, InCommit, States, OpStates, CommitStates, Sleeping
    <3>3. NoSync'
      BY <1>1, <1>2, <2>3 DEF EndOpCommit, Goto, NoSync
    <3> QED BY <1>1, <2>3, <3>2, <3>3 DEF EndOpCommit, AloneInv, Booting, Halted
  <2>4. CASE EndOpDefer(p) \/ EndOpOthers(p)
    <3>1. InCommit' = {} /\ NoSync'
      BY <1>1, <1>2, <2>2, <2>4 DEF EndOpDefer, EndOpOthers, Goto, WakeAll, Woken,
         InCommit, NoSync, States, OpStates, CommitStates, Sleeping
    <3> QED BY <1>1, <2>1, <2>2, <2>4, <3>1 DEF EndOpDefer, EndOpOthers, AloneInv,
         Booting, Halted
  <2> QED BY <1>19, <2>2, <2>3, <2>4 DEF EndOp, EndOpPanic
<1>20. ASSUME NEW p \in Procs, CommitDone(p) PROVE AloneInv'
  <2>1. InCommit = {p} /\ InOp = {}
    BY <1>20 DEF CommitDone, AloneInv, InCommit, CommitStates
  <2>2. InCommit' = {} /\ NoSync'
    BY <1>1, <1>2, <1>20, <2>1 DEF CommitDone, WakeAll, Woken, InCommit, NoSync,
       States, OpStates, CommitStates, Sleeping
  <2> QED BY <1>1, <2>2, <1>20 DEF CommitDone, AloneInv, Booting, Halted
<1>21. ASSUME NEW p \in Procs, Recover(p) PROVE AloneInv'
  <2>1. InCommit = {} /\ InOp = {}
    BY <1>1, <1>21 DEF Recover, AloneInv, CountInv, Booting
  <2>2. InCommit' = {p} /\ InOp' = {} /\ NoSync'
    BY <1>1, <1>2, <1>21, <2>1 DEF Recover, Goto, InCommit, InOp, NoSync,
       States, OpStates, CommitStates, Sleeping
  <2> QED BY <1>1, <2>2, <1>21 DEF Recover, AloneInv, Booting, Halted
<1>22. ASSUME NEW p \in Procs, RecoverDone(p) PROVE AloneInv'
  <2>1. InCommit = {p}
    BY <1>22 DEF RecoverDone, AloneInv, InCommit, CommitStates
  <2>2. InCommit' = {} /\ NoSync'
    BY <1>1, <1>2, <1>22, <2>1 DEF RecoverDone, Goto, InCommit, NoSync,
       States, OpStates, CommitStates, Sleeping
  <2> QED BY <1>1, <2>2, <1>22 DEF RecoverDone, AloneInv, Booting, Halted
<1>23. ASSUME Crash PROVE AloneInv'
  <2>1. InCommit' = {} /\ NoSync'
    BY <1>23 DEF Crash, InCommit, NoSync, CommitStates
  <2> QED BY <1>1, <2>1, <1>23 DEF Crash, AloneInv, Booting, Halted
<1>24. CASE UNCHANGED vars
  <2>1. InOp' = InOp /\ InCommit' = InCommit /\ NoSync'
    BY <1>1, <1>24 DEF vars, InOp, InCommit, NoSync
  <2> QED BY <1>1, <2>1, <1>24, AloneQuiet DEF vars
\* Nobody calls sync().
<1>25. ASSUME NEW p \in Procs
       PROVE  ~SyncSleep(p) /\ ~SyncTake(p) /\ ~SyncDone(p)
  BY <1>1 DEF SyncSleep, SyncTake, SyncDone, NoSync
<1> HIDE DEF onDisk, bufVars, logVars, procVars
<1>26. ASSUME NEW p \in Procs, Step(p) PROVE AloneInv'
  <2>1. CASE CommitStep(p)
    BY <2>1, <1>25, <1>7, <1>8, <1>9, <1>10, <1>11,
       <1>12, <1>13, <1>14, <1>20, <1>22 DEF CommitStep
  <2>2. CASE LogWrite(p)
    BY <2>2, <1>5, <1>6, <1>16, <1>17 DEF LogWrite
  <2> QED BY <1>26, <1>25, <2>1, <2>2, <1>18, <1>3, <1>4, <1>19, <1>21 DEF Step
<1> QED BY <1>26, <1>15, <1>23, <1>24 DEF Next

\* log.c:11-14.  With no sync(), a commit runs only when no file system call is
\* active, and one at a time, so it cannot write a half-done call to the disk.
THEOREM CommitsAlone ==
  ASSUME Syncers = {}
  PROVE  Spec => []CommitAlone
<1>1. AloneInv => CommitAlone
  <2> SUFFICES ASSUME AloneInv, InCommit # {} PROVE CommitAlone
    BY DEF CommitAlone
  <2>1. InOp = {} /\ kernel \notin Halted /\ TypeOK
    BY DEF AloneInv, CountInv
  <2>2. CASE kernel = "up"
    BY <2>1, <2>2, FS_EmptySet DEF AloneInv, CountInv, CommitAlone
  <2>3. CASE kernel \in Booting
    BY <2>1, <2>3 DEF AloneInv, CountInv, CommitAlone
  <2> QED BY <2>1, <2>2, <2>3 DEF TypeOK
<1> QED BY <1>1, AloneInit, AloneNext, PTL DEF Spec

-----------------------------------------------------------------------------
LEMMA SleepInit == Init => SleepInv
<1> SUFFICES ASSUME Init PROVE SleepInv
  OBVIOUS
<1>1. AloneInv
  BY AloneInit
<1>2. \A p \in Procs : pc[p] \notin Sleeping \cup {"erase_head", "done"}
  BY DEF Init, Sleeping
<1>3. Len(lh) = 0 /\ Len(lh) < LOGSIZE
  BY SizeAssumption DEF Init
<1> QED BY <1>1, <1>2, <1>3 DEF Init, SleepInv, NoLostWakeup

\* A step that wakes nobody, puts nobody to sleep, and leaves the counts and
\* the length of the header alone.
LEMMA SleepQuiet ==
  ASSUME SleepInv, AloneInv',
         \A p \in Procs : pc'[p] \in Sleeping => pc[p] \in Sleeping,
         \A p \in Procs : pc'[p] \in {"erase_head", "done"} => lh' = <<>>,
         lh' = lh, outstanding' = outstanding, committing' = committing,
         kernel' = "up" => kernel = "up", kernel' \in Booting => kernel \in Booting
  PROVE  SleepInv'
<1>1. NoLostWakeup'
  BY DEF SleepInv, NoLostWakeup
<1> QED BY <1>1 DEF SleepInv

LEMMA SleepNext ==
  ASSUME Syncers = {}
  PROVE  SleepInv /\ [Next]_vars => SleepInv'
<1> SUFFICES ASSUME SleepInv, [Next]_vars PROVE SleepInv'
  OBVIOUS
<1> USE DEF onDisk, bufVars, logVars, procVars
<1>1. AloneInv' /\ AloneInv /\ CountInv /\ TypeOK /\ NoSync
  BY AloneNext DEF SleepInv, AloneInv, CountInv
<1>2. pc \in [Procs -> States]
  BY <1>1 DEF TypeOK
<1>3. Len(lh) \in Nat /\ LOGSIZE \in Nat /\ MAXOPBLOCKS \in Nat /\ MAXOPBLOCKS >= 1
  BY <1>1, SizeAssumption DEF TypeOK
\* While a process is in a call, nobody is in commit().
<1>4. ASSUME InOp # {} PROVE \A q \in Procs : pc[q] \notin {"erase_head", "done"}
  BY <1>1, <1>4 DEF AloneInv, InCommit, CommitStates
<1>5. ASSUME NEW p \in Procs, NEW b \in Blocks, NEW v \in Data, Modify(p,b,v) PROVE SleepInv'
  <2>1. /\ \A q \in Procs : pc'[q] \in Sleeping => pc[q] \in Sleeping
        /\ \A q \in Procs : pc'[q] \in {"erase_head", "done"} => lh' = <<>>
    BY <1>1, <1>2, <1>5 DEF Modify, Goto, SleepInv, TypeOK, Sleeping
  <2> QED BY <1>1, <2>1, <1>5, SleepQuiet DEF Modify, Booting, Halted
<1>6. ASSUME NEW p \in Procs, LogWriteCheck(p) PROVE SleepInv'
  <2>1. /\ \A q \in Procs : pc'[q] \in Sleeping => pc[q] \in Sleeping
        /\ \A q \in Procs : pc'[q] \in {"erase_head", "done"} => lh' = <<>>
    BY <1>1, <1>2, <1>6 DEF LogWriteCheck, Goto, SleepInv, TypeOK, Sleeping
  <2> QED BY <1>1, <2>1, <1>6, SleepQuiet DEF LogWriteCheck, Booting, Halted
<1>7. ASSUME NEW p \in Procs, LogWritePanic(p) PROVE SleepInv'
  <2>1. /\ \A q \in Procs : pc'[q] \in Sleeping => pc[q] \in Sleeping
        /\ \A q \in Procs : pc'[q] \in {"erase_head", "done"} => lh' = <<>>
    BY <1>1, <1>2, <1>7 DEF LogWritePanic, Goto, SleepInv, TypeOK, Sleeping
  <2> QED BY <1>1, <2>1, <1>7, SleepQuiet DEF LogWritePanic, Booting, Halted
<1>8. ASSUME NEW p \in Procs, NEW b \in Blocks, LogWriteOverflow(p,b) PROVE SleepInv'
  <2>1. /\ \A q \in Procs : pc'[q] \in Sleeping => pc[q] \in Sleeping
        /\ \A q \in Procs : pc'[q] \in {"erase_head", "done"} => lh' = <<>>
    BY <1>1, <1>2, <1>8 DEF LogWriteOverflow, Goto, SleepInv, TypeOK, Sleeping
  <2> QED BY <1>1, <2>1, <1>8, SleepQuiet DEF LogWriteOverflow, Booting, Halted
<1>9. ASSUME NEW p \in Procs, CommitStart(p) PROVE SleepInv'
  <2>1. /\ \A q \in Procs : pc'[q] \in Sleeping => pc[q] \in Sleeping
        /\ \A q \in Procs : pc'[q] \in {"erase_head", "done"} => lh' = <<>>
    BY <1>1, <1>2, <1>3, <1>9 DEF CommitStart, Goto, SleepInv, TypeOK, Sleeping
  <2> QED BY <1>1, <2>1, <1>9, SleepQuiet DEF CommitStart, Booting, Halted
<1>10. ASSUME NEW p \in Procs, WriteLog(p) PROVE SleepInv'
  <2>1. /\ \A q \in Procs : pc'[q] \in Sleeping => pc[q] \in Sleeping
        /\ \A q \in Procs : pc'[q] \in {"erase_head", "done"} => lh' = <<>>
    BY <1>1, <1>2, <1>10 DEF WriteLog, Goto, SleepInv, TypeOK, Sleeping
  <2> QED BY <1>1, <2>1, <1>10, SleepQuiet DEF WriteLog, Booting, Halted
<1>11. ASSUME NEW p \in Procs, WriteLogPastEnd(p) PROVE SleepInv'
  <2>1. /\ \A q \in Procs : pc'[q] \in Sleeping => pc[q] \in Sleeping
        /\ \A q \in Procs : pc'[q] \in {"erase_head", "done"} => lh' = <<>>
    BY <1>1, <1>2, <1>11 DEF WriteLogPastEnd, Goto, SleepInv, TypeOK, Sleeping
  <2> QED BY <1>1, <2>1, <1>11, SleepQuiet DEF WriteLogPastEnd, Booting, Halted
<1>12. ASSUME NEW p \in Procs, WriteLogEnd(p) PROVE SleepInv'
  <2>1. /\ \A q \in Procs : pc'[q] \in Sleeping => pc[q] \in Sleeping
        /\ \A q \in Procs : pc'[q] \in {"erase_head", "done"} => lh' = <<>>
    BY <1>1, <1>2, <1>12 DEF WriteLogEnd, Goto, SleepInv, TypeOK, Sleeping
  <2> QED BY <1>1, <2>1, <1>12, SleepQuiet DEF WriteLogEnd, Booting, Halted
<1>13. ASSUME NEW p \in Procs, WriteHead(p) PROVE SleepInv'
  <2>1. /\ \A q \in Procs : pc'[q] \in Sleeping => pc[q] \in Sleeping
        /\ \A q \in Procs : pc'[q] \in {"erase_head", "done"} => lh' = <<>>
    BY <1>1, <1>2, <1>13 DEF WriteHead, Goto, SleepInv, TypeOK, Sleeping
  <2> QED BY <1>1, <2>1, <1>13, SleepQuiet DEF WriteHead, Booting, Halted
<1>14. ASSUME NEW p \in Procs, Install(p) PROVE SleepInv'
  <2>1. /\ \A q \in Procs : pc'[q] \in Sleeping => pc[q] \in Sleeping
        /\ \A q \in Procs : pc'[q] \in {"erase_head", "done"} => lh' = <<>>
    BY <1>1, <1>2, <1>14 DEF Install, Goto, SleepInv, TypeOK, Sleeping
  <2> QED BY <1>1, <2>1, <1>14, SleepQuiet DEF Install, Booting, Halted
<1>15. ASSUME NEW p \in Procs, InstallEnd(p) PROVE SleepInv'
  <2>1. /\ \A q \in Procs : pc'[q] \in Sleeping => pc[q] \in Sleeping
        /\ \A q \in Procs : pc'[q] \in {"erase_head", "done"} => lh' = <<>>
    BY <1>1, <1>2, <1>15 DEF InstallEnd, Goto, SleepInv, TypeOK, Sleeping
  <2> QED BY <1>1, <2>1, <1>15, SleepQuiet DEF InstallEnd, Booting, Halted
<1>16. ASSUME NEW b \in Blocks, Evict(b) PROVE SleepInv'
  <2>1. /\ \A q \in Procs : pc'[q] \in Sleeping => pc[q] \in Sleeping
        /\ \A q \in Procs : pc'[q] \in {"erase_head", "done"} => lh' = <<>>
    BY <1>1, <1>2, <1>16 DEF Evict, Goto, SleepInv, TypeOK, Sleeping
  <2> QED BY <1>1, <2>1, <1>16, SleepQuiet DEF Evict, Booting, Halted
<1>17. ASSUME NEW p \in Procs, NEW b \in Blocks, LogWriteAppend(p,b) PROVE SleepInv'
  <2>1. p \in InOp /\ outstanding >= 1
    BY <1>1, <1>17, InOpRemove DEF LogWriteAppend, InOp, OpStates, CountInv
  <2>2. Len(lh') >= Len(lh)
    BY <1>1, <1>17 DEF LogWriteAppend, TypeOK
  <2>3. Len(lh') \in Nat
    BY <1>1 DEF AloneInv, CountInv, TypeOK
  <2>4. \A q \in Procs : /\ pc'[q] \in Sleeping <=> pc[q] \in Sleeping
                         /\ pc'[q] \notin {"erase_head", "done"}
    BY <1>2, <1>4, <1>17, <2>1 DEF LogWriteAppend, Goto, Sleeping
  <2>5. NoLostWakeup'
    BY <1>1, <2>1, <1>17 DEF LogWriteAppend, NoLostWakeup, TypeOK
  <2>6. (\E q \in Procs : pc'[q] \in Sleeping) => committing' \/ Len(lh') >= LOGSIZE
    <3>1. committing' = committing
      BY <1>17 DEF LogWriteAppend
    <3>2. Len(lh) >= LOGSIZE => Len(lh') >= LOGSIZE
      BY <1>3, <2>2, <2>3
    <3> QED BY <3>1, <3>2, <2>4 DEF SleepInv
  <2> QED BY <1>1, <1>17, <2>1, <2>4, <2>5, <2>6
          DEF LogWriteAppend, SleepInv, Booting
<1>18. ASSUME NEW p \in Procs, BeginOp(p) PROVE SleepInv'
  <2>1. InCommit = {} /\ outstanding' >= 1
    BY <1>1, <1>18 DEF BeginOp, AloneInv, TypeOK
  <2>2. \A q \in Procs : /\ pc'[q] \in Sleeping => pc[q] \in Sleeping
                         /\ pc'[q] \notin {"erase_head", "done"}
    BY <1>2, <1>18, <2>1 DEF BeginOp, Goto, InCommit, Sleeping, CommitStates
  <2>3. NoLostWakeup'
    BY <2>1, <1>18 DEF BeginOp, NoLostWakeup, TypeOK
  <2> QED BY <1>1, <1>18, <2>1, <2>2, <2>3 DEF BeginOp, SleepInv, Booting
<1>19. ASSUME NEW p \in Procs, BeginOpSleep(p) PROVE SleepInv'
  <2>1. committing \/ outstanding > 0
    BY <1>1, <1>3, <1>19 DEF BeginOpSleep, SleepInv, TypeOK
  <2>2. \A q \in Procs : pc'[q] \in {"erase_head", "done"} => pc[q] \in {"erase_head", "done"}
    BY <1>2, <1>19 DEF BeginOpSleep, Goto
  <2>3. NoLostWakeup'
    BY <2>1, <1>19 DEF BeginOpSleep, NoLostWakeup
  <2> QED BY <1>1, <1>19, <2>2, <2>3 DEF BeginOpSleep, SleepInv, Booting
<1>20. ASSUME NEW p \in Procs, EndOp(p) PROVE SleepInv'
  <2>1. p \in InOp /\ kernel = "up" /\ pc[p] = "op"
    BY <1>20 DEF EndOp, EndOpPanic, EndOpCommit, EndOpDefer, EndOpOthers, InOp, OpStates
  <2>2. ~committing /\ \A q \in Procs : pc[q] \notin {"erase_head", "done"}
    BY <2>1, <1>1, <1>4 DEF AloneInv
  <2>3. CASE EndOpCommit(p)
    <3>1. \A q \in Procs : /\ pc'[q] \in Sleeping => pc[q] \in Sleeping
                           /\ pc'[q] \notin {"erase_head", "done"}
      BY <1>2, <2>2, <2>3 DEF EndOpCommit, Goto, Sleeping
    <3> QED BY <1>1, <2>3, <3>1 DEF EndOpCommit, SleepInv, NoLostWakeup, Booting
  \* Nobody can be asleep: the header is not full.
  <2>4. CASE EndOpDefer(p)
    <3>1. Len(lh) < LOGSIZE
      BY <1>3, <2>4 DEF EndOpDefer
    <3>2. \A q \in Procs : pc'[q] \notin Sleeping \cup {"erase_head", "done"}
      BY <1>2, <1>3, <2>2, <2>4, <3>1 DEF EndOpDefer, SleepInv, Goto, Sleeping
    <3> QED BY <1>1, <2>4, <3>1, <3>2 DEF EndOpDefer, SleepInv, NoLostWakeup, Booting
  <2>5. CASE EndOpOthers(p)
    <3>1. \A q \in Procs : pc'[q] \notin Sleeping \cup {"erase_head", "done"}
      BY <1>2, <2>2, <2>5 DEF EndOpOthers, WakeAll, Woken, Sleeping
    <3>2. outstanding' # 0
      BY <1>1, <2>5 DEF EndOpOthers, TypeOK
    <3> QED BY <1>1, <2>5, <3>1, <3>2 DEF EndOpOthers, SleepInv, NoLostWakeup, Booting
  <2> QED BY <1>20, <2>2, <2>3, <2>4, <2>5 DEF EndOp, EndOpPanic
<1>21. ASSUME NEW p \in Procs, Clear(p) PROVE SleepInv'
  <2>1. \A q \in Procs : pc'[q] \in Sleeping => pc[q] \in Sleeping
    BY <1>2, <1>21 DEF Clear, Goto, Sleeping
  <2>2. Len(lh') = 0 /\ Len(lh') < LOGSIZE
    BY SizeAssumption, <1>21 DEF Clear
  <2>3. kernel = "up" => committing
    BY <1>1, <1>21 DEF Clear, AloneInv, InCommit, CommitStates
  <2>4. kernel # "up" => \A q \in Procs : pc'[q] \notin Sleeping
    BY <1>21, <2>1 DEF Clear, SleepInv, Booting
  <2> QED BY <1>1, <1>21, <2>1, <2>2, <2>3, <2>4
          DEF Clear, SleepInv, NoLostWakeup, Booting
<1>22. ASSUME NEW p \in Procs, CommitDone(p) PROVE SleepInv'
  <2>1. lh = <<>> /\ Len(lh) < LOGSIZE
    <3>1. lh = <<>>
      BY <1>22 DEF CommitDone, SleepInv
    <3> QED BY <3>1, SizeAssumption
  <2>2. \A q \in Procs : pc'[q] \notin Sleeping
    BY <1>2, <1>22 DEF CommitDone, WakeAll, Woken, Sleeping
  <2> QED BY <1>1, <1>22, <2>1, <2>2 DEF CommitDone, SleepInv, NoLostWakeup, Booting
<1>23. ASSUME NEW p \in Procs, Recover(p) PROVE SleepInv'
  <2>1. \A q \in Procs : pc[q] \notin {"erase_head", "done"}
    BY <1>1, <1>23 DEF Recover, AloneInv, InCommit, CommitStates
  <2>2. \A q \in Procs : pc'[q] \notin Sleeping \cup {"erase_head", "done"}
    BY <1>2, <1>23, <2>1 DEF Recover, Goto, SleepInv, Sleeping, Booting
  <2> QED BY <1>1, <1>23, <2>2 DEF Recover, SleepInv, NoLostWakeup, Booting
<1>24. ASSUME NEW p \in Procs, RecoverDone(p) PROVE SleepInv'
  <2>1. lh' = <<>> /\ Len(lh') < LOGSIZE
    <3>1. lh' = <<>>
      BY <1>24 DEF RecoverDone, SleepInv
    <3> QED BY <3>1, SizeAssumption
  <2>2. \A q \in Procs : pc'[q] \notin Sleeping
    BY <1>2, <1>24 DEF RecoverDone, Goto, SleepInv, Sleeping, Booting
  <2> QED BY <1>1, <1>24, <2>1, <2>2 DEF RecoverDone, SleepInv, NoLostWakeup, Booting
<1>25. ASSUME Crash PROVE SleepInv'
  <2>1. \A q \in Procs : pc'[q] \notin Sleeping \cup {"erase_head", "done"}
    BY <1>25 DEF Crash, Sleeping
  <2> QED BY <1>1, <1>25, <2>1 DEF Crash, SleepInv, NoLostWakeup
<1>26. CASE UNCHANGED vars
  <2>1. \A q \in Procs : pc'[q] \in {"erase_head", "done"} => lh' = <<>>
    BY <1>26 DEF vars, SleepInv
  <2> QED BY <1>1, <2>1, <1>26, SleepQuiet DEF vars
<1>27. ASSUME NEW p \in Procs
       PROVE  ~SyncSleep(p) /\ ~SyncTake(p) /\ ~SyncDone(p)
  BY <1>1 DEF SyncSleep, SyncTake, SyncDone, NoSync
<1> HIDE DEF onDisk, bufVars, logVars, procVars
<1>28. ASSUME NEW p \in Procs, Step(p) PROVE SleepInv'
  <2>1. CASE CommitStep(p)
    BY <2>1, <1>27, <1>9, <1>10, <1>11, <1>12, <1>13,
       <1>14, <1>15, <1>21, <1>22, <1>24 DEF CommitStep
  <2>2. CASE LogWrite(p)
    BY <2>2, <1>6, <1>17, <1>7, <1>8 DEF LogWrite
  <2> QED BY <1>28, <1>27, <2>1, <2>2, <1>18, <1>19, <1>5, <1>20, <1>23 DEF Step
<1> QED BY <1>28, <1>16, <1>25, <1>26 DEF Next

\* With no sync(), a process asleep in begin_op() always has a commit or a
\* running call that will wake it, although the last call to end wakes nobody
\* when it leaves the transaction open (end_op(), log.c:195-205).
THEOREM WakeupsKept ==
  ASSUME Syncers = {}
  PROVE  Spec => []NoLostWakeup
<1>1. SleepInv => NoLostWakeup
  BY DEF SleepInv
<1> QED BY <1>1, SleepInit, SleepNext, PTL DEF Spec

-----------------------------------------------------------------------------
LEMMA OnceInit == Init => OnceInv
<1> SUFFICES ASSUME Init PROVE OnceInv
  OBVIOUS
<1>1. TypeOK
  BY CountInvInit DEF CountInv
<1> QED BY <1>1 DEF Init, OnceInv, Once

\* Appending a block the header does not list keeps the header free of
\* repetitions.
LEMMA OnceAppend ==
  ASSUME NEW s \in Seq(Blocks), NEW b \in Blocks, b \notin Logged(s), Once(s)
  PROVE  Once(Append(s, b))
BY DEF Once, Logged

LEMMA OnceNext == CountInv /\ OnceInv /\ [Next]_vars => OnceInv'
<1> SUFFICES ASSUME CountInv, OnceInv, [Next]_vars PROVE OnceInv'
  OBVIOUS
<1>1. TypeOK' /\ TypeOK
  BY CountInvNext DEF CountInv
<1>2. ASSUME NEW p \in Procs, NEW b \in Blocks, LogWriteAppend(p, b) PROVE OnceInv'
  BY <1>1, <1>2, OnceAppend DEF LogWriteAppend, OnceInv, onDisk, TypeOK
<1>3. ASSUME NEW p \in Procs, WriteHead(p) \/ Recover(p) PROVE OnceInv'
  BY <1>1, <1>3 DEF WriteHead, Recover, OnceInv, onDisk, logVars
<1>4. ASSUME Crash \/ \E p \in Procs : Clear(p) PROVE OnceInv'
  BY <1>1, <1>4 DEF Crash, Clear, OnceInv, Once, onDisk
<1>5. ASSUME UNCHANGED <<lh, dhead>> PROVE OnceInv'
  BY <1>1, <1>5 DEF OnceInv
<1>6. ASSUME NEW p \in Procs, CommitStep(p) PROVE OnceInv'
  <2> USE DEF onDisk, logVars
  <2>1. CASE CommitStart(p) \/ WriteLog(p) \/ WriteLogPastEnd(p) \/ WriteLogEnd(p)
    BY <2>1, <1>5 DEF CommitStart, WriteLog, WriteLogPastEnd, WriteLogEnd
  <2>2. CASE Install(p) \/ InstallEnd(p) \/ CommitDone(p) \/ SyncDone(p) \/ RecoverDone(p)
    BY <2>2, <1>5 DEF Install, InstallEnd, CommitDone, SyncDone, RecoverDone
  <2> QED BY <1>6, <1>3, <1>4, <2>1, <2>2 DEF CommitStep
<1>7. ASSUME NEW p \in Procs, Step(p) PROVE OnceInv'
  <2> USE DEF onDisk, logVars
  <2>1. CASE LogWrite(p)
    BY <2>1, <1>2, <1>5 DEF LogWrite, LogWriteCheck, LogWritePanic, LogWriteOverflow
  <2>2. CASE EndOp(p)
    BY <2>2, <1>5 DEF EndOp, EndOpPanic, EndOpCommit, EndOpDefer, EndOpOthers
  <2>3. CASE BeginOp(p) \/ BeginOpSleep(p) \/ SyncSleep(p) \/ SyncTake(p)
    BY <2>3, <1>5 DEF BeginOp, BeginOpSleep, SyncSleep, SyncTake
  <2>4. CASE \E b \in Blocks, v \in Data : Modify(p, b, v)
    BY <2>4, <1>5 DEF Modify
  <2> QED BY <1>7, <1>3, <1>6, <2>1, <2>2, <2>3, <2>4 DEF Step
<1>8. CASE UNCHANGED vars \/ \E b \in Blocks : Evict(b)
  BY <1>8, <1>5 DEF vars, Evict, onDisk, logVars
<1> QED BY <1>7, <1>4, <1>8 DEF Next

\* Whatever calls, syncs and commits interleave, the log never has a block
\* twice, so a transaction takes no more room than the blocks it changes.
THEOREM AbsorbsOnce == Spec => []AbsorbedOnce
<1>1. OnceInv => AbsorbedOnce
  BY DEF OnceInv, Once, AbsorbedOnce
<1> QED BY <1>1, CountInvInit, CountInvNext, OnceInit, OnceNext, PTL DEF Spec

-----------------------------------------------------------------------------
(***************************************************************************)
(* How far the unlocked test lets the log overrun its area.  A process     *)
(* that passes the test finds room for one block and is then one of those  *)
(* past it, which are at most all; appending moves one from the second     *)
(* count to the first.  The header on disk is carried along, for recovery  *)
(* copies it back.                                                         *)
(***************************************************************************)
Checked == {p \in Procs : pc[p] = "checked"}
Bound   == nlog - 2 + Cardinality(Procs)
OverrunInv == Len(lh) + Cardinality(Checked) <= Bound /\ Len(dhead) <= Bound

LEMMA CheckedFinite ==
  /\ IsFiniteSet(Checked) /\ Cardinality(Checked) \in Nat /\ Cardinality(Checked) <= Cardinality(Procs)
  /\ Cardinality(Procs) \in Nat /\ Bound \in Nat
BY ProcsAssumption, SizeAssumption, FS_Subset, FS_CardinalityType DEF Checked, Bound, nlog

LEMMA OverrunInit == Init => OverrunInv
<1> SUFFICES ASSUME Init PROVE OverrunInv
  OBVIOUS
<1>1. Checked = {}
  BY DEF Init, Checked
<1> QED BY <1>1, CheckedFinite, FS_EmptySet DEF Init, OverrunInv

\* No process passes the test, and no header grows.
LEMMA OverrunQuiet ==
  ASSUME TypeOK, OverrunInv, Checked' \subseteq Checked,
         lh' \in {lh, <<>>}, dhead' \in {lh, dhead}
  PROVE  OverrunInv'
<1>1. Cardinality(Checked') \in Nat /\ Cardinality(Checked') <= Cardinality(Checked)
  BY CheckedFinite, FS_Subset, FS_CardinalityType
<1>2. Len(lh) \in Nat /\ Len(dhead) \in Nat /\ Len(lh') \in Nat /\ Len(lh') <= Len(lh)
  BY DEF TypeOK
<1>3. Bound' = Bound
  BY DEF Bound, nlog
<1> QED BY <1>1, <1>2, <1>3, CheckedFinite DEF OverrunInv

LEMMA OverrunNext == CountInv /\ OverrunInv /\ [Next]_vars => OverrunInv'
<1> SUFFICES ASSUME CountInv, OverrunInv, [Next]_vars PROVE OverrunInv'
  OBVIOUS
<1> USE DEF onDisk, logVars, procVars
<1>1. TypeOK /\ TypeOK' /\ pc \in [Procs -> States] /\ lh \in Seq(Blocks) /\ Len(lh) \in Nat
  BY CountInvNext DEF CountInv, TypeOK
<1>2. Bound' = Bound
  BY DEF Bound, nlog
<1>3. ASSUME NEW p \in Procs, LogWriteCheck(p) PROVE OverrunInv'
  <2>1. Checked' = Checked \cup {p} /\ p \notin Checked
    BY <1>1, <1>3 DEF LogWriteCheck, Goto, Checked
  <2>2. Cardinality(Checked') = Cardinality(Checked) + 1
    BY <2>1, CheckedFinite, FS_AddElement
  <2>3. Checked' \subseteq Procs /\ Cardinality(Checked') <= Cardinality(Procs)
    BY <2>1, ProcsAssumption, FS_Subset DEF Checked
  <2>4. Len(lh) <= nlog - 2 /\ lh' = lh /\ dhead' = dhead
    BY <1>1, <1>3, SizeAssumption DEF LogWriteCheck, Full, nlog
  <2> QED BY <1>1, <1>2, <2>2, <2>3, <2>4, CheckedFinite, SizeAssumption DEF OverrunInv, Bound, nlog
<1>4. ASSUME NEW p \in Procs, NEW b \in Blocks, LogWriteAppend(p, b) PROVE OverrunInv'
  <2>1. Checked' = Checked \ {p} /\ p \in Checked
    BY <1>1, <1>4 DEF LogWriteAppend, Goto, Checked
  <2>2. Cardinality(Checked') = Cardinality(Checked) - 1
    BY <2>1, CheckedFinite, FS_RemoveElement
  <2>3. Len(lh') <= Len(lh) + 1 /\ Len(lh') \in Nat /\ dhead' = dhead
    BY <1>1, <1>4 DEF LogWriteAppend
  <2> QED BY <1>1, <1>2, <2>2, <2>3, CheckedFinite DEF OverrunInv
<1>5. ASSUME NEW p \in Procs, Recover(p) PROVE OverrunInv'
  <2>1. Checked = {} /\ Checked' = {}
    BY <1>1, <1>5 DEF Recover, Goto, Checked, CountInv, Booting, InOp, OpStates
  <2> QED BY <1>2, <1>5, <2>1, CheckedFinite, FS_EmptySet DEF Recover, OverrunInv, TypeOK, CountInv
<1>6. ASSUME Crash PROVE OverrunInv'
  <2>1. Checked' = {}
    BY <1>6 DEF Crash, Checked
  <2> QED BY <1>1, <1>6, <2>1, OverrunQuiet DEF Crash
<1>7. ASSUME NEW p \in Procs, CommitStep(p) PROVE OverrunInv'
  <2>1. CASE CommitStart(p) \/ WriteLog(p) \/ WriteLogPastEnd(p) \/ WriteLogEnd(p)
    <3>1. Checked' \subseteq Checked
      BY <1>1, <2>1 DEF CommitStart, WriteLog, WriteLogPastEnd, WriteLogEnd, Goto, Checked
    <3> QED BY <1>1, <2>1, <3>1, OverrunQuiet DEF CommitStart, WriteLog, WriteLogPastEnd, WriteLogEnd
  <2>2. CASE WriteHead(p) \/ Install(p) \/ InstallEnd(p) \/ Clear(p) \/ RecoverDone(p)
    <3>1. Checked' \subseteq Checked
      BY <1>1, <2>2 DEF WriteHead, Install, InstallEnd, Clear, RecoverDone, Goto, Checked
    <3> QED BY <1>1, <2>2, <3>1, OverrunQuiet DEF WriteHead, Install, InstallEnd, Clear, RecoverDone
  <2>3. CASE CommitDone(p) \/ SyncDone(p)
    <3>1. Checked' \subseteq Checked
      BY <1>1, <2>3 DEF CommitDone, SyncDone, WakeAll, Woken, Checked
    <3> QED BY <1>1, <2>3, <3>1, OverrunQuiet DEF CommitDone, SyncDone
  <2> QED BY <1>7, <2>1, <2>2, <2>3 DEF CommitStep
<1>8. ASSUME NEW p \in Procs, EndOp(p) PROVE OverrunInv'
  <2>1. Checked' \subseteq Checked
    BY <1>1, <1>8 DEF EndOp, EndOpPanic, EndOpCommit, EndOpDefer, EndOpOthers, Goto, WakeAll, Woken, Checked
  <2> QED BY <1>1, <1>8, <2>1, OverrunQuiet DEF EndOp, EndOpPanic, EndOpCommit, EndOpDefer, EndOpOthers
<1>9. ASSUME NEW p \in Procs,
             BeginOp(p) \/ BeginOpSleep(p) \/ SyncSleep(p) \/ SyncTake(p) \/ LogWritePanic(p)
               \/ \E b \in Blocks : LogWriteOverflow(p, b) \/ \E v \in Data : Modify(p, b, v)
      PROVE  OverrunInv'
  <2>1. Checked' \subseteq Checked
    BY <1>1, <1>9 DEF BeginOp, BeginOpSleep, SyncSleep, SyncTake, LogWritePanic, LogWriteOverflow,
       Modify, Goto, Checked
  <2> QED BY <1>1, <1>9, <2>1, OverrunQuiet DEF BeginOp, BeginOpSleep, SyncSleep, SyncTake, LogWritePanic,
       LogWriteOverflow, Modify
<1>10. ASSUME NEW p \in Procs, Step(p) PROVE OverrunInv'
  BY <1>10, <1>3, <1>4, <1>5, <1>7, <1>8, <1>9 DEF Step, LogWrite
<1>11. CASE UNCHANGED vars \/ \E b \in Blocks : Evict(b)
  <2>1. Checked' \subseteq Checked
    BY <1>11 DEF vars, Evict, Checked
  <2> QED BY <1>1, <1>11, <2>1, OverrunQuiet DEF vars, Evict
<1> QED BY <1>6, <1>10, <1>11 DEF Next

\* The log runs past its area by no more blocks than there are processes, less
\* one, however many pass the unlocked test of log_write() together.
THEOREM OverrunBounded == Spec => []OverrunBound
<1>1. CountInv /\ OverrunInv => OverrunBound
  <2> SUFFICES ASSUME CountInv, OverrunInv PROVE OverrunBound
    OBVIOUS
  <2> QED BY DEF OverrunInv, OverrunBound, Bound, Checked
<1> QED BY <1>1, CountInvInit, CountInvNext, OverrunInit, OverrunNext, PTL DEF Spec

-----------------------------------------------------------------------------
(***************************************************************************)
(* The log as an atomic disk.  The refinement rests on two facts the code  *)
(* takes for granted: that commits are alone, and that a transaction fits  *)
(* the log area.  Under them DiskInv is inductive.  It says what the cache *)
(* may differ from the disk in, and what each stage of a commit or of a    *)
(* recovery has already copied.                                            *)
(***************************************************************************)
Fits == Len(lh) <= nlog - 1

\* A process holds a buffer from bread() to brelse() only, and one at a time.
HeldInv ==
  \A b \in Blocks : held[b] # NoProc =>
    /\ pc[held[b]] \in {"modified", "checked"}
    /\ \A c \in Blocks : held[c] = held[b] => c = b

\* A buffer that is neither pinned nor locked shows what is on the disk.
CacheInv ==
  /\ \A b \in Blocks : b \notin dirty /\ held[b] = NoProc => View(b) = home[b]
  /\ dirty \subseteq Logged(lh)

Copied(s)    == \A i \in 1..Len(s) : slot[i] = View(s[i])
Installed(s) == \A i \in 1..Len(s) : home[s[i]] = slot[i]

PhaseInv(p) ==
  /\ pc[p] \in {"commit", "write_log", "write_head"} => kernel = "up" /\ dhead = <<>>
  /\ pc[p] = "write_log" => \A i \in 1..Len(lh) : i < tail[p] => slot[i] = View(lh[i])
  /\ pc[p] = "write_head" => Copied(lh)
  /\ pc[p] \in {"install", "clear"} => dhead = lh
  /\ pc[p] = "install" /\ kernel = "up" => Copied(lh)
  /\ pc[p] = "install" =>
       \A i \in 1..Len(lh) : i < tail[p] => home[lh[i]] = slot[i] /\ lh[i] \notin dirty
  /\ pc[p] \in {"clear", "erase_head"} => Installed(dhead)
  /\ pc[p] \in {"erase_head", "done"} => lh = <<>>
  /\ pc[p] = "done" => dhead = <<>>
  /\ pc[p] \in {"clear", "erase_head", "done"} => dirty = {}

Running == kernel \in Booting \cup {"up"}

DiskInv ==
  /\ CountInv /\ OnceInv
  /\ Len(dhead) <= nlog - 1
  /\ Running => CacheInv /\ HeldInv
  /\ Running => \A p \in InCommit : PhaseInv(p)
  /\ kernel = "up" /\ InCommit = {} => dhead = <<>>
  /\ kernel \in Booting => dirty = {}
  /\ kernel = "boot" => lh = <<>> /\ InCommit = {}

LEMMA DiskInvInit == Init => DiskInv
<1> SUFFICES ASSUME Init PROVE DiskInv
  OBVIOUS
<1>1. CountInv /\ OnceInv
  BY CountInvInit, OnceInit
<1>2. Len(dhead) = 0 /\ Len(dhead) <= nlog - 1
  BY SizeAssumption DEF Init, nlog
<1>3. InCommit = {}
  BY DEF Init, InCommit, CommitStates
<1>4. CacheInv /\ HeldInv
  BY DEF Init, CacheInv, HeldInv, View
<1> QED BY <1>1, <1>2, <1>3, <1>4 DEF Init, DiskInv, Booting

\* A step that leaves the disk, the cache, the header and the stages of commits
\* alone, and lets no buffer lose its owner.
LEMMA DiskQuiet ==
  ASSUME DiskInv, CountInv', OnceInv', UNCHANGED <<onDisk, bufVars, lh>>,
         InCommit' = InCommit,
         \A p \in InCommit : pc'[p] = pc[p] /\ tail'[p] = tail[p],
         \A b \in Blocks : held[b] # NoProc => pc'[held[b]] \in {"modified", "checked"},
         Running' => kernel' = kernel
  PROVE  DiskInv'
<1> USE DEF onDisk, bufVars
<1>1. ASSUME Running' PROVE CacheInv' /\ HeldInv'
  BY <1>1 DEF Running, DiskInv, CacheInv, HeldInv, View, Logged
<1>2. ASSUME Running', NEW p \in InCommit' PROVE PhaseInv(p)'
  BY <1>2 DEF Running, DiskInv, PhaseInv, Copied, Installed, View
<1> QED BY <1>1, <1>2 DEF DiskInv, nlog, Booting, Running

\* While a process commits or recovers, nobody is in a call and no buffer is
\* locked between two steps.
LEMMA CommitterAlone ==
  ASSUME DiskInv, CommitAlone, NEW p \in InCommit, Running
  PROVE  /\ InOp = {} /\ InCommit = {p}
         /\ \A b \in Blocks : held[b] = NoProc
         /\ \A b \in Blocks : b \notin dirty => View(b) = home[b]
<1>1. InOp = {} /\ InCommit = {p}
  BY DEF CommitAlone
<1>2. ASSUME NEW b \in Blocks, held[b] # NoProc PROVE FALSE
  <2>1. held[b] \in Procs /\ pc[held[b]] \in {"modified", "checked"}
    BY <1>2 DEF DiskInv, HeldInv, CountInv, TypeOK
  <2> QED BY <1>1, <2>1 DEF InOp, OpStates
<1> QED BY <1>1, <1>2 DEF DiskInv, CacheInv

\* A step inside commit() or recover_from_log() by the process p.
LEMMA CommitterNext ==
  ASSUME DiskInv, CommitAlone, CountInv', OnceInv', NEW p \in InCommit, Running,
         Goto(p, pc'[p]), pc'[p] \in CommitStates,
         Len(dhead') <= nlog - 1, UNCHANGED <<held, kernel>>, CacheInv', PhaseInv(p)',
         kernel \in Booting => dirty' = {}
  PROVE  DiskInv'
<1>1. InCommit = {p} /\ \A b \in Blocks : held[b] = NoProc
  BY CommitterAlone
<1>2. InCommit' = {p}
  BY <1>1 DEF Goto, InCommit, DiskInv, CountInv, TypeOK
<1>3. HeldInv'
  BY <1>1 DEF HeldInv
<1> QED BY <1>1, <1>2, <1>3 DEF DiskInv, nlog, Running, Booting

LEMMA DiskCommitStep ==
  ASSUME DiskInv, CountInv', OnceInv', CommitAlone, Fits, NEW p \in Procs, CommitStep(p)
  PROVE  DiskInv'
<1> USE DEF onDisk, bufVars, logVars, procVars
<1>0. TypeOK /\ pc \in [Procs -> States] /\ tail \in [Procs -> Nat] /\ lh \in Seq(Blocks)
      /\ dhead \in Seq(Blocks) /\ Len(lh) \in Nat /\ Len(dhead) \in Nat
  BY DEF DiskInv, CountInv, TypeOK
<1>1. p \in InCommit /\ Running
  BY <1>0 DEF CommitStep, CommitStart, WriteLog, WriteLogPastEnd, WriteLogEnd, WriteHead, Install,
     InstallEnd, Clear, CommitDone, SyncDone, RecoverDone, InCommit, CommitStates, Running, Booting
<1>2. /\ InCommit = {p} /\ InOp = {} /\ PhaseInv(p) /\ CacheInv
      /\ \A b \in Blocks : held[b] = NoProc
      /\ \A b \in Blocks : b \notin dirty => View(b) = home[b]
  BY <1>1, CommitterAlone DEF DiskInv
<1>3. \A i \in 1..Len(lh) : i \in Slots /\ lh[i] \in Blocks /\ LogBlock(i) = slot[i]
  BY <1>0, SizeAssumption DEF Fits, Slots, nlog, LogBlock
<1>4. CASE CommitStart(p)
  <2>1. CacheInv'
    BY <1>2, <1>4 DEF CommitStart, CacheInv, View
  <2>2. PhaseInv(p)'
    <3>1. dhead = <<>> /\ kernel = "up" /\ pc[p] = "commit"
      BY <1>2, <1>4 DEF CommitStart, PhaseInv
    <3>2. CASE Len(lh) > 0
      <4>1. pc'[p] = "write_log" /\ tail'[p] = 1
        BY <1>0, <1>4, <3>2 DEF CommitStart, Goto
      <4> QED BY <1>4, <3>1, <4>1 DEF CommitStart, PhaseInv
    <3>3. CASE ~(Len(lh) > 0)
      <4>1. pc'[p] = "done" /\ lh = <<>>
        BY <1>0, <1>4, <3>3 DEF CommitStart, Goto
      <4>2. dirty = {}
        BY <1>2, <4>1 DEF CacheInv, Logged
      <4> QED BY <1>4, <3>1, <4>1, <4>2 DEF CommitStart, PhaseInv
    <3> QED BY <3>2, <3>3
  <2>3. Goto(p, pc'[p]) /\ pc'[p] \in CommitStates
    BY <1>0, <1>4 DEF CommitStart, Goto, CommitStates
  <2> QED BY <1>1, <1>4, <2>1, <2>2, <2>3, CommitterNext DEF CommitStart, DiskInv
<1>5. CASE WriteLog(p)
  <2> DEFINE i == tail[p]
  <2>1. i \in 1..Len(lh) /\ lh[i] \in Blocks /\ i \in Slots
    BY <1>3, <1>5 DEF WriteLog
  <2>2. \A b \in Blocks : View(b)' = View(b)
    BY <1>0, <1>5, <2>1, ValuesAssumption DEF WriteLog, View, TypeOK
  <2>3. CacheInv'
    BY <1>2, <1>5, <2>2 DEF WriteLog, CacheInv
  <2>4. PhaseInv(p)'
    <3>1. pc'[p] = "write_log" /\ tail'[p] = i + 1 /\ kernel' = "up" /\ dhead' = <<>> /\ lh' = lh
      BY <1>0, <1>2, <1>5 DEF WriteLog, PhaseInv
    <3>2. ASSUME NEW j \in 1..Len(lh), j < i + 1 PROVE slot'[j] = View(lh[j])'
      <4>1. View(lh[j])' = View(lh[j])
        BY <1>3, <2>2, <1>5 DEF WriteLog, View
      <4>2. slot' = [slot EXCEPT ![i] = View(lh[i])] /\ slot \in [Slots -> Data]
        BY <1>0, <1>5 DEF WriteLog, TypeOK
      <4>3. j # i => slot[j] = View(lh[j])
        BY <1>0, <1>2, <1>5, <3>2 DEF WriteLog, PhaseInv
      <4> QED BY <1>3, <2>1, <4>1, <4>2, <4>3
    <3> QED BY <3>1, <3>2 DEF PhaseInv
  <2>5. Goto(p, pc'[p]) /\ pc'[p] \in CommitStates
    BY <1>0, <1>5 DEF WriteLog, Goto, CommitStates
  <2> QED BY <1>1, <1>5, <2>3, <2>4, <2>5, CommitterNext DEF WriteLog, DiskInv, Booting
<1>6. CASE WriteLogPastEnd(p)
  BY <1>3, <1>6 DEF WriteLogPastEnd
<1>7. CASE WriteLogEnd(p)
  <2>1. CacheInv'
    BY <1>2, <1>7 DEF WriteLogEnd, CacheInv, View
  <2>2. Copied(lh)
    BY <1>0, <1>2, <1>7 DEF WriteLogEnd, PhaseInv, Copied
  <2>3. PhaseInv(p)'
    <3>1. pc'[p] = "write_head"
      BY <1>0, <1>7 DEF WriteLogEnd, Goto
    <3> QED BY <1>2, <1>7, <2>2, <3>1 DEF WriteLogEnd, PhaseInv, Copied, View
  <2>4. Goto(p, pc'[p]) /\ pc'[p] \in CommitStates
    BY <1>0, <1>7 DEF WriteLogEnd, Goto, CommitStates
  <2> QED BY <1>1, <1>7, <2>1, <2>3, <2>4, CommitterNext DEF WriteLogEnd, DiskInv, Booting
<1>8. CASE WriteHead(p)
  <2>1. CacheInv'
    BY <1>2, <1>8 DEF WriteHead, CacheInv, View
  <2>2. Len(dhead') <= nlog - 1
    BY <1>8 DEF WriteHead, Fits
  <2>3. PhaseInv(p)'
    <3>1. CASE pc[p] = "write_head"
      <4>1. pc'[p] = "install" /\ tail'[p] = 1 /\ dhead' = lh /\ lh' = lh
        BY <1>0, <1>8, <3>1 DEF WriteHead, Goto
      <4>2. Copied(lh)'
        BY <1>2, <1>8, <3>1 DEF WriteHead, PhaseInv, Copied, View
      <4> QED BY <4>1, <4>2 DEF PhaseInv
    <3>2. CASE pc[p] = "erase_head"
      <4>1. pc'[p] = "done" /\ lh' = <<>> /\ dhead' = <<>> /\ dirty' = {}
        BY <1>0, <1>2, <1>8, <3>2 DEF WriteHead, Goto, PhaseInv
      <4> QED BY <4>1 DEF PhaseInv
    <3> QED BY <1>8, <3>1, <3>2 DEF WriteHead
  <2>4. Goto(p, pc'[p]) /\ pc'[p] \in CommitStates
    BY <1>0, <1>8 DEF WriteHead, Goto, CommitStates
  <2> QED BY <1>1, <1>8, <2>1, <2>2, <2>3, <2>4, CommitterNext DEF WriteHead, DiskInv
<1>9. CASE Install(p)
  <2>1. PICK i \in 1..Len(lh), a \in Blocks : i = tail[p] /\ a = lh[i] /\ LogBlock(i) = slot[i]
    BY <1>3, <1>9 DEF Install
  <2>2. /\ home' = [home EXCEPT ![a] = slot[i]] /\ cache' = [cache EXCEPT ![a] = slot[i]]
        /\ dirty' = dirty \ {a} /\ tail'[p] = i + 1
        /\ UNCHANGED <<slot, dhead, held, lh, pc, kernel>>
    BY <1>0, <1>9, <2>1 DEF Install
  <2>3. slot[i] \in Data
    BY <1>0, <1>3, <2>1 DEF TypeOK
  <2>4. /\ home'[a] = slot[i] /\ View(a)' = slot[i]
        /\ \A b \in Blocks : b # a => home'[b] = home[b] /\ View(b)' = View(b)
    BY <1>0, <2>1, <2>2, <2>3, ValuesAssumption DEF TypeOK, View
  <2>5. CacheInv'
    BY <1>2, <2>2, <2>4 DEF CacheInv
  <2>6. \A j, k \in 1..Len(lh) : lh[j] = lh[k] => j = k
    BY DEF DiskInv, OnceInv, Once
  <2>7. PhaseInv(p)'
    <3>1. pc'[p] = "install" /\ dhead' = lh'
      BY <1>2, <1>9, <2>2 DEF Install, PhaseInv
    <3>2. kernel' = "up" => Copied(lh)'
      <4>1. kernel = "up" => Copied(lh)
        BY <1>2, <1>9 DEF Install, PhaseInv
      <4>2. ASSUME NEW j \in 1..Len(lh), slot[j] = View(lh[j]) PROVE slot'[j] = View(lh[j])'
        <5>1. View(lh[j])' = IF lh[j] = a THEN slot[i] ELSE View(lh[j])
          BY <1>3, <2>2, <2>4 DEF View
        <5>2. lh[j] = a => j = i
          BY <2>1, <2>6
        <5>3. slot'[j] = slot[j]
          BY <2>2
        <5> QED BY <4>2, <5>1, <5>2, <5>3
      <4> QED BY <2>2, <4>1, <4>2 DEF Copied
    <3>3. \A j \in 1..Len(lh) : j < i + 1 => home'[lh[j]] = slot'[j] /\ lh[j] \notin dirty'
      <4>1. \A j \in 1..Len(lh) : j < i => home[lh[j]] = slot[j] /\ lh[j] \notin dirty
        BY <1>2, <1>9, <2>1 DEF Install, PhaseInv
      <4>2. ASSUME NEW j \in 1..Len(lh), j < i + 1
            PROVE  home'[lh[j]] = slot'[j] /\ lh[j] \notin dirty'
        <5>1. CASE j = i
          BY <2>1, <2>2, <2>4, <5>1
        <5>2. CASE j # i
          <6>1. j < i /\ lh[j] # a /\ lh[j] \in Blocks
            BY <1>0, <1>3, <2>1, <2>6, <4>2, <5>2
          <6> QED BY <2>2, <2>4, <4>1, <6>1
        <5> QED BY <5>1, <5>2
      <4> QED BY <4>2
    <3> QED BY <2>2, <3>1, <3>2, <3>3 DEF PhaseInv
  <2>8. Goto(p, pc'[p]) /\ pc'[p] \in CommitStates
    BY <1>0, <1>9 DEF Install, Goto, CommitStates
  <2>9. kernel \in Booting => dirty' = {}
    BY <2>2 DEF DiskInv
  <2> QED BY <1>1, <2>2, <2>5, <2>7, <2>8, <2>9, CommitterNext DEF DiskInv
<1>10. CASE InstallEnd(p)
  <2>1. CacheInv'
    BY <1>2, <1>10 DEF InstallEnd, CacheInv, View
  <2>2. dhead = lh /\ Installed(lh) /\ \A j \in 1..Len(lh) : lh[j] \notin dirty
    BY <1>0, <1>2, <1>10 DEF InstallEnd, PhaseInv, Installed
  <2>3. dirty = {}
    BY <1>2, <2>2 DEF CacheInv, Logged
  <2>4. PhaseInv(p)'
    <3>1. pc'[p] = "clear" /\ dhead' = lh' /\ dirty' = {} /\ Installed(dhead)'
      BY <1>0, <1>10, <2>2, <2>3 DEF InstallEnd, Goto, Installed
    <3> QED BY <3>1 DEF PhaseInv
  <2>5. Goto(p, pc'[p]) /\ pc'[p] \in CommitStates
    BY <1>0, <1>10 DEF InstallEnd, Goto, CommitStates
  <2> QED BY <1>1, <1>10, <2>1, <2>4, <2>5, CommitterNext DEF InstallEnd, DiskInv
<1>11. CASE Clear(p)
  <2>1. dirty = {} /\ Installed(dhead)
    BY <1>2, <1>11 DEF Clear, PhaseInv
  <2>2. CacheInv'
    BY <1>2, <1>11, <2>1 DEF Clear, CacheInv, View
  <2>3. PhaseInv(p)'
    <3>1. pc'[p] = "erase_head" /\ lh' = <<>> /\ dirty' = {} /\ Installed(dhead)'
      BY <1>0, <1>11, <2>1 DEF Clear, Goto, Installed
    <3> QED BY <3>1 DEF PhaseInv
  <2>4. Goto(p, pc'[p]) /\ pc'[p] \in CommitStates
    BY <1>0, <1>11 DEF Clear, Goto, CommitStates
  <2> QED BY <1>1, <1>11, <2>2, <2>3, <2>4, CommitterNext DEF Clear, DiskInv
<1>12. CASE CommitDone(p) \/ SyncDone(p) \/ RecoverDone(p)
  <2>1. dhead = <<>> /\ lh = <<>> /\ dirty = {} /\ pc[p] = "done"
    BY <1>2, <1>12 DEF CommitDone, SyncDone, RecoverDone, PhaseInv
  <2>2. pc'[p] \notin CommitStates /\ \A q \in Procs \ {p} : pc'[q] \in CommitStates => pc[q] \in CommitStates
    BY <1>0, <1>12 DEF CommitDone, SyncDone, RecoverDone, Goto, WakeAll, Woken, CommitStates
  <2>3. InCommit' = {}
    BY <1>2, <2>2 DEF InCommit
  <2>4. kernel' = "up" /\ UNCHANGED <<onDisk, bufVars, lh>>
    BY <1>12 DEF CommitDone, SyncDone, RecoverDone
  <2>5. CacheInv' /\ HeldInv'
    BY <1>2, <2>4 DEF CacheInv, HeldInv, View
  <2> QED BY <2>1, <2>3, <2>4, <2>5 DEF DiskInv, nlog, Booting, Running
<1> QED BY <1>4, <1>5, <1>6, <1>7, <1>8, <1>9, <1>10, <1>11, <1>12 DEF CommitStep

\* Steps of file system calls and of a boot.
LEMMA DiskCallStep ==
  ASSUME DiskInv, CountInv', OnceInv', CommitAlone, CommitAlone', NEW p \in Procs,
         Step(p), ~CommitStep(p)
  PROVE  DiskInv'
<1> USE DEF onDisk, bufVars, logVars, procVars
<1>0. TypeOK /\ pc \in [Procs -> States] /\ lh \in Seq(Blocks) /\ Len(lh) \in Nat
  BY DEF DiskInv, CountInv, TypeOK
<1>1. \A b \in Blocks : held[b] # NoProc => held[b] \in Procs
  BY <1>0 DEF TypeOK
\* A call that runs keeps everyone out of commit().
<1>2. ASSUME pc[p] \in OpStates PROVE InCommit = {} /\ (kernel = "up" => dhead = <<>>)
  BY <1>2 DEF DiskInv, CommitAlone, InOp
<1>3. CASE BeginOp(p) \/ BeginOpSleep(p) \/ SyncSleep(p) \/ LogWriteCheck(p)
  <2>1. kernel = "up" /\ pc[p] \in {"idle", "begin", "modified"}
        /\ UNCHANGED <<onDisk, bufVars, lh, kernel, tail>>
    BY <1>3 DEF BeginOp, BeginOpSleep, SyncSleep, LogWriteCheck
  <2>2. /\ pc'[p] \in {"op", "begin_sleep", "sync_sleep", "checked"}
        /\ pc[p] = "modified" => pc'[p] = "checked"
        /\ \A q \in Procs : q # p => pc'[q] = pc[q]
    BY <1>0, <1>3 DEF BeginOp, BeginOpSleep, SyncSleep, LogWriteCheck, Goto
  <2>3. InCommit' = InCommit /\ \A q \in InCommit : pc'[q] = pc[q]
    BY <2>1, <2>2 DEF InCommit, CommitStates
  <2>4. \A b \in Blocks : held[b] # NoProc => pc'[held[b]] \in {"modified", "checked"}
    BY <1>1, <2>1, <2>2 DEF DiskInv, HeldInv, Running
  <2> QED BY <2>1, <2>3, <2>4, DiskQuiet
<1>4. CASE LogWritePanic(p) \/ (\E b \in Blocks : LogWriteOverflow(p, b)) \/ EndOpPanic(p)
  <2>1. kernel' \in Halted /\ UNCHANGED <<onDisk, bufVars, lh, pc, tail>>
    BY <1>4 DEF LogWritePanic, LogWriteOverflow, EndOpPanic, Halted
  <2> QED BY <2>1 DEF DiskInv, nlog, Running, Booting, Halted
<1>5. ASSUME NEW b \in Blocks, NEW v \in Data, Modify(p, b, v) PROVE DiskInv'
  <2>1. kernel = "up" /\ pc[p] = "op" /\ InCommit = {} /\ dhead = <<>>
    BY <1>2, <1>5 DEF Modify, OpStates
  <2>2. pc'[p] = "modified" /\ \A q \in Procs : q # p => pc'[q] = pc[q]
    BY <1>0, <1>5 DEF Modify, Goto
  <2>3. /\ held'[b] = p /\ \A c \in Blocks : c # b => held'[c] = held[c] /\ cache'[c] = cache[c]
        /\ p # NoProc
    BY <1>0, <1>5, ValuesAssumption DEF Modify, TypeOK
  <2>4. \A c \in Blocks : held[c] # p
    BY <1>0, <2>1, ValuesAssumption DEF DiskInv, HeldInv, Running
  <2>5. HeldInv'
    BY <1>1, <2>1, <2>2, <2>3, <2>4 DEF DiskInv, HeldInv, Running
  <2>6. CacheInv'
    BY <1>5, <2>1, <2>3 DEF Modify, DiskInv, CacheInv, Running, View
  <2>7. InCommit' = {}
    BY <2>1, <2>2 DEF InCommit, CommitStates
  <2> QED BY <1>5, <2>1, <2>5, <2>6, <2>7 DEF Modify, DiskInv, nlog, Running, Booting
<1>6. ASSUME NEW b \in Blocks, LogWriteAppend(p, b) PROVE DiskInv'
  <2>1. kernel = "up" /\ pc[p] = "checked" /\ held[b] = p /\ InCommit = {} /\ dhead = <<>>
    BY <1>2, <1>6 DEF LogWriteAppend, OpStates
  <2>2. pc'[p] = "op" /\ \A q \in Procs : q # p => pc'[q] = pc[q]
    BY <1>0, <1>6 DEF LogWriteAppend, Goto
  <2>3. held'[b] = NoProc /\ \A c \in Blocks : c # b => held'[c] = held[c]
    BY <1>0, <1>6 DEF LogWriteAppend, TypeOK
  <2>4. \A c \in Blocks : held[c] = p => c = b
    BY <2>1, ValuesAssumption DEF DiskInv, HeldInv, Running
  <2>5. HeldInv'
    BY <1>1, <2>1, <2>2, <2>3, <2>4 DEF DiskInv, HeldInv, Running
  <2>6. dirty' = dirty \cup {b} /\ UNCHANGED <<home, cache, dhead, kernel>>
    BY <1>6 DEF LogWriteAppend
  <2>7. Logged(lh) \cup {b} \subseteq Logged(lh')
    <3>1. CASE b \in Logged(lh)
      BY <1>6, <3>1 DEF LogWriteAppend
    <3>2. CASE b \notin Logged(lh)
      <4>1. lh' = Append(lh, b)
        BY <1>6, <3>2 DEF LogWriteAppend
      <4>2. /\ Len(lh') = Len(lh) + 1 /\ lh'[Len(lh) + 1] = b
            /\ \A i \in 1..Len(lh) : lh'[i] = lh[i]
        BY <1>0, <4>1
      <4> QED BY <1>0, <4>2 DEF Logged
    <3> QED BY <3>1, <3>2
  <2>8. CacheInv'
    <3>1. dirty' \subseteq Logged(lh')
      BY <2>1, <2>6, <2>7 DEF DiskInv, CacheInv, Running
    <3>2. \A c \in Blocks : c \notin dirty' /\ held'[c] = NoProc => View(c)' = home'[c]
      BY <2>1, <2>3, <2>6 DEF DiskInv, CacheInv, Running, View
    <3> QED BY <3>1, <3>2 DEF CacheInv
  <2>9. InCommit' = {}
    BY <2>1, <2>2 DEF InCommit, CommitStates
  <2> QED BY <2>1, <2>5, <2>6, <2>8, <2>9 DEF DiskInv, nlog, Running, Booting
<1>7. CASE EndOpDefer(p) \/ EndOpOthers(p)
  <2>1. kernel = "up" /\ pc[p] = "op" /\ InCommit = {}
        /\ UNCHANGED <<onDisk, bufVars, lh, kernel, tail>>
    BY <1>2, <1>7 DEF EndOpDefer, EndOpOthers, OpStates
  <2>2. \A q \in Procs : /\ pc'[q] \notin CommitStates
                         /\ pc[q] \in {"modified", "checked"} => pc'[q] = pc[q]
    BY <1>0, <1>7, <2>1 DEF EndOpDefer, EndOpOthers, Goto, WakeAll, Woken, InCommit, CommitStates
  <2>3. InCommit' = InCommit
    BY <2>1, <2>2 DEF InCommit
  <2>4. \A b \in Blocks : held[b] # NoProc => pc'[held[b]] \in {"modified", "checked"}
    BY <1>1, <2>1, <2>2 DEF DiskInv, HeldInv, Running
  <2> QED BY <2>1, <2>3, <2>4, DiskQuiet
\* A commit begins: the header on disk is still empty.
<1>8. CASE EndOpCommit(p) \/ SyncTake(p)
  <2>1. kernel = "up" /\ pc[p] \in {"op", "idle", "sync"}
        /\ UNCHANGED <<onDisk, bufVars, lh, kernel>> /\ pc' = [pc EXCEPT ![p] = "commit"]
    BY <1>8 DEF EndOpCommit, SyncTake, Goto
  <2>2. pc'[p] = "commit" /\ \A q \in Procs : q # p => pc'[q] = pc[q]
    BY <1>0, <2>1
  <2>3. InCommit' = InCommit \cup {p} /\ p \notin InCommit
    BY <2>1, <2>2 DEF InCommit, CommitStates
  <2>4. InCommit' = {p}
    BY <2>3 DEF CommitAlone
  <2>5. dhead = <<>>
    BY <2>1, <2>3, <2>4 DEF DiskInv
  <2>6. HeldInv'
    BY <1>1, <2>1, <2>2, ValuesAssumption DEF DiskInv, HeldInv, Running
  <2>7. CacheInv'
    BY <2>1 DEF DiskInv, CacheInv, Running, View
  <2>8. PhaseInv(p)'
    BY <2>1, <2>2, <2>5 DEF PhaseInv
  <2> QED BY <2>1, <2>4, <2>6, <2>7, <2>8 DEF DiskInv, nlog, Running, Booting
<1>9. CASE Recover(p)
  <2>1. kernel = "boot" /\ kernel' = "recover" /\ lh' = dhead /\ InCommit = {} /\ dirty = {}
        /\ UNCHANGED <<onDisk, bufVars>>
    BY <1>9 DEF Recover, DiskInv, Booting
  <2>2. pc'[p] = "install" /\ tail'[p] = 1 /\ \A q \in Procs : q # p => pc'[q] = pc[q]
    BY <1>0, <1>9 DEF Recover, Goto, TypeOK
  <2>3. InCommit' = {p} /\ \A b \in Blocks : held[b] = NoProc
    <3>1. InCommit' = {p}
      BY <2>1, <2>2 DEF InCommit, CommitStates
    <3>2. InOp = {}
      BY <2>1 DEF DiskInv, CountInv, Booting
    <3> QED BY <1>1, <2>1, <3>1, <3>2 DEF DiskInv, HeldInv, Running, Booting, InOp, OpStates
  <2>4. CacheInv' /\ HeldInv'
    BY <2>1, <2>3 DEF DiskInv, CacheInv, HeldInv, Running, Booting, View
  <2>5. PhaseInv(p)'
    BY <2>1, <2>2 DEF PhaseInv
  <2> QED BY <2>1, <2>3, <2>4, <2>5 DEF DiskInv, nlog, Running, Booting
<1> QED BY <1>3, <1>4, <1>5, <1>6, <1>7, <1>8, <1>9 DEF Step, LogWrite, EndOp

\* The buffer cache drops a block; power is lost; nothing happens.
LEMMA DiskOtherStep ==
  ASSUME DiskInv, CountInv', OnceInv', Crash \/ (\E b \in Blocks : Evict(b)) \/ UNCHANGED vars
  PROVE  DiskInv'
<1> USE DEF onDisk, bufVars, logVars, procVars
<1>1. TypeOK /\ \A b \in Blocks : held[b] # NoProc => held[b] \in Procs
  BY DEF DiskInv, CountInv, TypeOK
<1>2. CASE Crash
  <2>1. lh' = <<>> /\ dirty' = {} /\ kernel' = "boot" /\ UNCHANGED onDisk /\ InCommit' = {}
    BY <1>2 DEF Crash, InCommit, CommitStates
  <2>2. CacheInv' /\ HeldInv'
    BY <1>2 DEF Crash, CacheInv, HeldInv, View
  <2> QED BY <2>1, <2>2 DEF DiskInv, nlog, Running, Booting
<1>3. ASSUME NEW b \in Blocks, Evict(b) PROVE DiskInv'
  <2>1. kernel = "up" /\ b \notin dirty /\ held[b] = NoProc /\ cache' = [cache EXCEPT ![b] = NoData]
        /\ UNCHANGED <<onDisk, dirty, held, logVars, procVars, kernel>>
    BY <1>3 DEF Evict
  <2>2. \A c \in Blocks : View(c)' = View(c)
    BY <1>1, <2>1 DEF DiskInv, CacheInv, Running, View, TypeOK
  <2>3. CacheInv' /\ HeldInv' /\ InCommit' = InCommit
    BY <2>1, <2>2 DEF DiskInv, CacheInv, HeldInv, Running, InCommit
  <2>4. ASSUME NEW q \in InCommit PROVE PhaseInv(q)'
    <3>1. PhaseInv(q)
      BY <2>1 DEF DiskInv, Running
    <3>2. \A i \in 1..Len(lh) : View(lh[i])' = View(lh[i])
      BY <1>1, <2>1, <2>2 DEF TypeOK, View
    <3>3. Copied(lh) => Copied(lh)'
      BY <2>1, <3>2 DEF Copied
    <3>4. Installed(dhead) => Installed(dhead)'
      BY <2>1 DEF Installed
    <3> QED BY <2>1, <3>1, <3>2, <3>3, <3>4 DEF PhaseInv
  <2> QED BY <2>1, <2>3, <2>4 DEF DiskInv, nlog, Running, Booting
<1>4. CASE UNCHANGED vars
  <2>1. InCommit' = InCommit /\ UNCHANGED <<onDisk, bufVars, lh, pc, tail, kernel>>
    BY <1>4 DEF vars, InCommit
  <2>2. DiskInv' <=> DiskInv
    BY <1>4, <2>1 DEF DiskInv, CacheInv, HeldInv, PhaseInv, Copied, Installed, View, Running
  <2> QED BY <2>2
<1> QED BY <1>2, <1>3, <1>4

LEMMA DiskInvNext ==
  DiskInv /\ CommitAlone /\ CommitAlone' /\ Fits /\ [Next]_vars => DiskInv'
<1> SUFFICES ASSUME DiskInv, CommitAlone, CommitAlone', Fits, [Next]_vars PROVE DiskInv'
  OBVIOUS
<1>1. CountInv' /\ OnceInv'
  BY CountInvNext, OnceNext DEF DiskInv
<1>2. ASSUME NEW p \in Procs, Step(p) PROVE DiskInv'
  BY <1>1, <1>2, DiskCommitStep, DiskCallStep
<1> QED BY <1>1, <1>2, DiskOtherStep DEF Next

-----------------------------------------------------------------------------
(***************************************************************************)
(* What a reboot finds, when the header on disk fits the log area: the     *)
(* data of each block it lists are in a slot.                              *)
(***************************************************************************)
Image ==
  [b \in Blocks |-> IF b \in Logged(dhead)
                    THEN slot[CHOOSE i \in 1..Len(dhead) : dhead[i] = b]
                    ELSE home[b]]

LEMMA RecoveredImage == DiskInv => Recovered = Image
<1> SUFFICES ASSUME DiskInv PROVE Recovered = Image
  OBVIOUS
<1>1. dhead \in Seq(Blocks) /\ Len(dhead) \in Nat /\ Len(dhead) <= nlog - 1
  BY DEF DiskInv, CountInv, TypeOK
<1>2. ASSUME NEW b \in Logged(dhead)
      PROVE  LET i == CHOOSE i \in 1..Len(dhead) : dhead[i] = b
             IN  LogBlock(i) = slot[i]
  <2>1. PICK i \in 1..Len(dhead) : i = CHOOSE j \in 1..Len(dhead) : dhead[j] = b
    BY DEF Logged
  <2>2. i \in Slots
    BY <1>1, <2>1, SizeAssumption DEF Slots, nlog
  <2> QED BY <2>1, <2>2 DEF LogBlock
<1> QED BY <1>2 DEF Recovered, Image

\* The place of a listed block in the header.
LEMMA ListedAt ==
  ASSUME NEW b \in Logged(dhead)
  PROVE  LET i == CHOOSE i \in 1..Len(dhead) : dhead[i] = b
         IN  i \in 1..Len(dhead) /\ dhead[i] = b
BY DEF Logged

\* With an empty header, or a header whose blocks are all installed, a reboot
\* finds the home blocks.
LEMMA ImageHome ==
  Installed(dhead) => Image = [b \in Blocks |-> home[b]]
<1> SUFFICES ASSUME Installed(dhead), NEW b \in Blocks, b \in Logged(dhead) PROVE Image[b] = home[b]
  BY DEF Image
<1> QED BY ListedAt DEF Image, Installed

\* With the header of a transaction whose blocks are all in the log, a reboot
\* finds what the running kernel shows.
LEMMA ImageView ==
  ASSUME Copied(dhead), \A b \in Blocks : b \notin Logged(dhead) => View(b) = home[b]
  PROVE  Image = [b \in Blocks |-> View(b)]
<1> SUFFICES ASSUME NEW b \in Blocks PROVE Image[b] = View(b)
  BY DEF Image
<1>1. CASE b \in Logged(dhead)
  BY <1>1, ListedAt DEF Image, Copied
<1> QED BY <1>1 DEF Image

\* What the running kernel shows; before it runs, what it will find.
Working == IF kernel \in Booting THEN Recovered ELSE [b \in Blocks |-> View(b)]

\* A step that keeps the image keeps what a reboot finds.
LEMMA StableKept ==
  ASSUME DiskInv, DiskInv', Image' = Image
  PROVE  Recovered' = Recovered
<1>1. (DiskInv => Recovered = Image)'
  BY RecoveredImage, PTL
<1> QED BY <1>1, RecoveredImage

LEMMA SameDisk ==
  ASSUME DiskInv, DiskInv', UNCHANGED <<onDisk, cache>>,
         kernel' \in Booting <=> kernel \in Booting
  PROVE  Recovered' = Recovered /\ Working' = Working
<1>1. Image' = Image
  BY DEF onDisk, Image, Logged
<1>2. Recovered' = Recovered
  BY <1>1, StableKept
<1> QED BY <1>2 DEF Working, View, onDisk

\* Recovery and the running kernel show the same once nothing is pinned.
LEMMA NothingPinned ==
  ASSUME DiskInv, CommitAlone, Running, NEW p \in InCommit, dirty = {}
  PROVE  [b \in Blocks |-> View(b)] = [b \in Blocks |-> home[b]]
BY CommitterAlone

\* The actions of calls and the tests of commits map to the beginning, the
\* writes and the end of abstract operations, or to nothing.
LEMMA CallMaps ==
  ASSUME DiskInv, DiskInv', CommitAlone, NEW p \in Procs, Step(p), ~CommitStep(p)
  PROVE  Promised!Next \/ UNCHANGED <<Recovered, Working, InOp>>
<1> USE DEF onDisk, bufVars, logVars, procVars
<1>0. TypeOK /\ TypeOK' /\ pc \in [Procs -> States]
  BY DEF DiskInv, CountInv, TypeOK
<1>1. CASE BeginOp(p)
  <2>1. InOp' = InOp \cup {p}
    BY <1>0, <1>1, InOpEnter, StatesFacts DEF BeginOp, OpStates
  <2>2. Recovered' = Recovered /\ Working' = Working
    BY <1>1, SameDisk DEF BeginOp
  <2> QED BY <2>1, <2>2 DEF Working, Promised!Next, Promised!Begin
<1>2. CASE EndOpCommit(p) \/ EndOpDefer(p) \/ EndOpOthers(p)
  <2>1. p \in InOp
    BY <1>2 DEF EndOpCommit, EndOpDefer, EndOpOthers, InOp, OpStates
  <2>2. InOp' = InOp \ {p}
    <3>1. CASE EndOpCommit(p) \/ EndOpDefer(p)
      BY <1>0, <3>1, InOpLeave, StatesFacts DEF EndOpCommit, EndOpDefer, CommitStates
    <3>2. CASE EndOpOthers(p)
      BY <1>0, <3>2, InOpWakeAll, StatesFacts DEF EndOpOthers
    <3> QED BY <1>2, <3>1, <3>2
  <2>3. Recovered' = Recovered /\ Working' = Working
    BY <1>2, SameDisk DEF EndOpCommit, EndOpDefer, EndOpOthers
  <2> QED BY <2>1, <2>2, <2>3 DEF Working, Promised!Next, Promised!End
<1>3. ASSUME NEW b \in Blocks, NEW v \in Data, Modify(p, b, v) PROVE Promised!Next
  <2>1. kernel = "up" /\ kernel' = "up" /\ pc[p] = "op" /\ cache' = [cache EXCEPT ![b] = v]
        /\ UNCHANGED onDisk /\ Goto(p, "modified")
    BY <1>3 DEF Modify
  <2>2. InOp' = InOp /\ p \in InOp
    BY <1>0, <2>1, InOpSame, StatesFacts DEF InOp, OpStates
  <2>3. Image' = Image
    BY <2>1 DEF Image, Logged
  <2>4. Recovered' = Recovered
    BY <2>3, StableKept
  <2>5. Working' = [Working EXCEPT ![b] = v]
    BY <1>0, <2>1, ValuesAssumption DEF Working, Booting, View, TypeOK
  <2> QED BY <2>2, <2>4, <2>5 DEF Working, Promised!Next, Promised!Write
<1>4. CASE Recover(p)
  <2>1. InOp' = InOp
    BY <1>4 DEF Recover, DiskInv, CountInv, Booting
  <2>2. Recovered' = Recovered /\ Working' = Working
    BY <1>4, SameDisk DEF Recover, Booting
  <2> QED BY <2>1, <2>2
<1>5. CASE LogWritePanic(p) \/ (\E b \in Blocks : LogWriteOverflow(p, b)) \/ EndOpPanic(p)
  <2>1. kernel = "up" /\ kernel' \in Halted /\ UNCHANGED <<onDisk, cache, pc>>
    BY <1>5 DEF LogWritePanic, LogWriteOverflow, EndOpPanic, Halted
  <2>2. InOp' = InOp
    BY <2>1 DEF InOp
  <2>3. Recovered' = Recovered /\ Working' = Working
    BY <2>1, SameDisk DEF Halted, Booting
  <2> QED BY <2>2, <2>3
<1>6. CASE \/ BeginOpSleep(p) \/ SyncSleep(p) \/ LogWriteCheck(p) \/ SyncTake(p)
           \/ \E b \in Blocks : LogWriteAppend(p, b)
  <2>1. PICK s \in States : /\ UNCHANGED <<onDisk, cache, kernel>> /\ Goto(p, s)
                            /\ pc[p] \in OpStates <=> s \in OpStates
    BY <1>6, StatesFacts DEF BeginOpSleep, SyncSleep, LogWriteCheck, SyncTake, LogWriteAppend,
       OpStates, CommitStates, Sleeping
  <2>2. InOp' = InOp
    BY <1>0, <2>1, InOpSame
  <2>3. Recovered' = Recovered /\ Working' = Working
    BY <2>1, SameDisk
  <2> QED BY <2>2, <2>3
<1> QED BY <1>1, <1>2, <1>3, <1>4, <1>5, <1>6 DEF Step, LogWrite, EndOp

\* The steps of a commit change nothing that can be seen, on the disk or in the
\* kernel, except the one that writes the header: it makes durable everything
\* the kernel shows.
LEMMA CommitMaps ==
  ASSUME DiskInv, DiskInv', CommitAlone, Fits, NEW p \in Procs, CommitStep(p)
  PROVE  Promised!Next \/ UNCHANGED <<Recovered, Working, InOp>>
<1> USE DEF onDisk, bufVars, logVars, procVars
<1>0. TypeOK /\ pc \in [Procs -> States] /\ lh \in Seq(Blocks) /\ Len(lh) \in Nat
  BY DEF DiskInv, CountInv, TypeOK
<1>1. p \in InCommit /\ Running
  BY <1>0 DEF CommitStep, CommitStart, WriteLog, WriteLogPastEnd, WriteLogEnd, WriteHead, Install,
     InstallEnd, Clear, CommitDone, SyncDone, RecoverDone, InCommit, CommitStates, Running, Booting
<1>2. InOp = {} /\ PhaseInv(p) /\ dirty \subseteq Logged(lh)
      /\ \A b \in Blocks : b \notin dirty => View(b) = home[b]
  BY <1>1, CommitterAlone DEF DiskInv, CacheInv
<1>3. \A i \in 1..Len(lh) : i \in Slots /\ lh[i] \in Blocks /\ LogBlock(i) = slot[i]
  BY <1>0, SizeAssumption DEF Fits, Slots, nlog, LogBlock
<1>4. InOp' = InOp
  <2>1. \A q \in Procs : pc'[q] \in OpStates => pc[q] \in OpStates
    BY <1>0 DEF CommitStep, CommitStart, WriteLog, WriteLogPastEnd, WriteLogEnd, WriteHead, Install,
       InstallEnd, Clear, CommitDone, SyncDone, RecoverDone, Goto, WakeAll, Woken, OpStates
  <2> QED BY <1>2, <2>1 DEF InOp
<1>5. CASE CommitStart(p) \/ WriteLogEnd(p) \/ InstallEnd(p) \/ Clear(p) \/ CommitDone(p) \/ SyncDone(p)
  <2>1. UNCHANGED <<onDisk, cache, kernel>>
    BY <1>5 DEF CommitStart, WriteLogEnd, InstallEnd, Clear, CommitDone, SyncDone
  <2> QED BY <1>4, <2>1, SameDisk
<1>6. CASE WriteLogPastEnd(p)
  BY <1>3, <1>6 DEF WriteLogPastEnd
<1>7. CASE WriteLog(p)
  <2>1. kernel = "up" /\ UNCHANGED <<home, dhead, kernel>> /\ dhead = <<>> /\ lh[tail[p]] \in Blocks
        /\ cache' = [cache EXCEPT ![lh[tail[p]]] = View(lh[tail[p]])]
    BY <1>2, <1>3, <1>7 DEF WriteLog, PhaseInv
  <2>2. Recovered' = Recovered
    <3>1. Image' = Image
      BY <2>1 DEF Image, Logged
    <3> QED BY <3>1, StableKept
  <2>3. \A b \in Blocks : View(b)' = View(b)
    BY <1>0, <2>1, ValuesAssumption DEF View, TypeOK
  <2> QED BY <1>4, <2>1, <2>2, <2>3 DEF Working, Booting
<1>8. CASE Install(p)
  <2>1. PICK i \in 1..Len(lh), a \in Blocks : i = tail[p] /\ a = lh[i] /\ LogBlock(i) = slot[i]
    BY <1>3, <1>8 DEF Install
  <2>2. /\ home' = [home EXCEPT ![a] = slot[i]] /\ cache' = [cache EXCEPT ![a] = slot[i]]
        /\ UNCHANGED <<slot, dhead, kernel>> /\ dhead = lh /\ a \in Logged(dhead)
    BY <1>2, <1>8, <2>1 DEF Install, PhaseInv, Logged
  <2>3. Recovered' = Recovered
    <3>1. Image' = Image
      BY <2>2 DEF Image, Logged
    <3> QED BY <3>1, StableKept
  <2>4. Working' = Working
    <3>1. CASE kernel = "up"
      <4>1. slot[i] = View(a) /\ slot[i] \in Data
        BY <1>0, <1>2, <1>3, <1>8, <2>1, <3>1 DEF Install, PhaseInv, Copied, TypeOK
      <4>2. \A b \in Blocks : View(b)' = View(b)
        BY <1>0, <2>2, <4>1, ValuesAssumption DEF View, TypeOK
      <4> QED BY <2>2, <3>1, <4>2 DEF Working, Booting
    <3>2. CASE kernel = "recover"
      BY <2>2, <2>3, <3>2 DEF Working, Booting
    <3> QED BY <1>8, <3>1, <3>2 DEF Install
  <2> QED BY <1>4, <2>3, <2>4
<1>9. CASE WriteHead(p)
  <2>1. dhead' = lh /\ UNCHANGED <<home, slot, cache, kernel>> /\ pc[p] \in {"write_head", "erase_head"}
    BY <1>9 DEF WriteHead
  <2>2. Recovered = Image /\ Recovered' = Image'
    <3>1. (DiskInv => Recovered = Image)'
      BY RecoveredImage, PTL
    <3> QED BY <3>1, RecoveredImage
  <2>3. CASE pc[p] = "write_head"
    <3>1. Copied(dhead)' /\ kernel = "up"
      BY <1>2, <2>1, <2>3 DEF PhaseInv, Copied, View
    <3>2. (\A b \in Blocks : b \notin Logged(dhead) => View(b) = home[b])'
      BY <1>2, <2>1 DEF View, Logged
    <3>3. Image' = [b \in Blocks |-> View(b)]'
      <4>1. (Copied(dhead) /\ (\A b \in Blocks : b \notin Logged(dhead) => View(b) = home[b])
               => Image = [b \in Blocks |-> View(b)])'
        BY ImageView, PTL
      <4> QED BY <3>1, <3>2, <4>1
    <3>4. Recovered' = Working /\ Working' = Working
      BY <2>1, <2>2, <3>1, <3>3 DEF Working, Booting, View
    <3> QED BY <1>2, <1>4, <3>4 DEF Working, Promised!Next, Promised!Commit
  <2>4. CASE pc[p] = "erase_head"
    <3>1. Installed(dhead) /\ dhead' = <<>> /\ dirty = {}
      BY <1>2, <2>1, <2>4 DEF PhaseInv
    <3>2. Image' = Image
      <4>1. Image = [b \in Blocks |-> home[b]]
        BY <3>1, ImageHome
      <4>2. Image' = [b \in Blocks |-> home[b]]
        BY <2>1, <3>1 DEF Image, Logged
      <4> QED BY <4>1, <4>2
    <3>3. Working' = Working
      BY <2>1, <2>2, <3>2 DEF Working, View
    <3> QED BY <1>4, <2>2, <3>2, <3>3
  <2> QED BY <2>1, <2>3, <2>4
<1>10. CASE RecoverDone(p)
  <2>1. kernel = "recover" /\ kernel' = "up" /\ UNCHANGED <<onDisk, cache>> /\ dirty = {} /\ dhead = <<>>
    BY <1>2, <1>10 DEF RecoverDone, PhaseInv
  <2>2. Recovered' = Recovered
    <3>1. Image' = Image
      BY <2>1 DEF Image, Logged
    <3> QED BY <3>1, StableKept
  <2>3. Recovered = [b \in Blocks |-> home[b]]
    BY <2>1, RecoveredImage DEF Image, Logged
  <2>4. [b \in Blocks |-> View(b)]' = [b \in Blocks |-> home[b]]
    BY <1>2, <2>1 DEF View
  <2>5. Working' = Working
    BY <2>1, <2>3, <2>4 DEF Working, Booting
  <2> QED BY <1>4, <2>2, <2>5
<1> QED BY <1>5, <1>6, <1>7, <1>8, <1>9, <1>10 DEF CommitStep

LEMMA OtherMaps ==
  ASSUME DiskInv, DiskInv', Crash \/ (\E b \in Blocks : Evict(b)) \/ UNCHANGED vars
  PROVE  Promised!Next \/ UNCHANGED <<Recovered, Working, InOp>>
<1> USE DEF onDisk, bufVars, logVars, procVars
<1>1. CASE Crash
  <2>1. UNCHANGED onDisk /\ kernel' = "boot" /\ InOp' = {}
    BY <1>1 DEF Crash, InOp, OpStates
  <2>2. Image' = Image
    BY <2>1 DEF Image, Logged
  <2>3. Recovered' = Recovered /\ Working' = Recovered
    BY <2>1, <2>2, StableKept DEF Working, Booting
  <2> QED BY <2>1, <2>3 DEF Working, Promised!Next, Promised!Crash
<1>2. ASSUME NEW b \in Blocks, Evict(b) PROVE UNCHANGED <<Recovered, Working, InOp>>
  <2>1. kernel = "up" /\ b \notin dirty /\ held[b] = NoProc /\ cache' = [cache EXCEPT ![b] = NoData]
        /\ UNCHANGED <<onDisk, pc, kernel>>
    BY <1>2 DEF Evict
  <2>2. Image' = Image
    BY <2>1 DEF Image, Logged
  <2>3. \A c \in Blocks : View(c)' = View(c)
    BY <2>1 DEF DiskInv, CacheInv, Running, View, CountInv, TypeOK
  <2> QED BY <2>1, <2>2, <2>3, StableKept DEF Working, Booting, InOp
<1>3. CASE UNCHANGED vars
  <2>1. UNCHANGED <<onDisk, cache, pc, kernel>>
    BY <1>3 DEF vars
  <2> QED BY <2>1, SameDisk DEF InOp
<1> QED BY <1>1, <1>2, <1>3

LEMMA DiskInitMaps == Init => Promised!Init
<1> SUFFICES ASSUME Init PROVE Promised!Init
  OBVIOUS
<1>1. Recovered = [b \in Blocks |-> home[b]]
  BY DiskInvInit, RecoveredImage DEF Init, Image, Logged
<1>2. Recovered \in [Blocks -> Data]
  BY <1>1 DEF Init
<1>3. InOp = {} /\ kernel \in Booting
  BY DEF Init, InOp, OpStates, Booting
<1> QED BY <1>2, <1>3 DEF Promised!Init

LEMMA DiskNextMaps ==
  DiskInv /\ DiskInv' /\ CommitAlone /\ Fits /\ [Next]_vars => [Promised!Next]_(Promised!diskVars)
<1> SUFFICES ASSUME DiskInv, DiskInv', CommitAlone, Fits, [Next]_vars
             PROVE  Promised!Next \/ UNCHANGED <<Recovered, Working, InOp>>
  BY DEF Promised!diskVars, Working
<1>1. ASSUME NEW p \in Procs, Step(p)
      PROVE  Promised!Next \/ UNCHANGED <<Recovered, Working, InOp>>
  BY <1>1, CallMaps, CommitMaps
<1> QED BY <1>1, OtherMaps DEF Next

\* log.c:11-26.  As long as commits are alone and no transaction outgrows the
\* log area, the log is an atomic disk: the image a reboot finds changes at the
\* commit point only, to all that was written, and never inside a call.
THEOREM CommitsAtomically == Spec /\ []CommitAlone /\ []Fits => AtomicCommit
<1>1. Spec /\ []CommitAlone /\ []Fits => []DiskInv
  BY DiskInvInit, DiskInvNext, PTL DEF Spec
<1>2. DiskInv /\ DiskInv' /\ CommitAlone /\ Fits /\ [Next]_vars => [Promised!Next]_(Promised!diskVars)
  BY DiskNextMaps
<1> QED BY <1>1, <1>2, DiskInitMaps, PTL DEF Spec, AtomicCommit, Promised!Spec

\* log.c:11-14.  With no sync() the commits are alone, so that only the size of
\* a transaction has to be watched.
THEOREM AtomicWithoutSync ==
  ASSUME Syncers = {}
  PROVE  Spec /\ []Fits => AtomicCommit
<1>1. Spec => []CommitAlone
  BY CommitsAlone
<1> QED BY <1>1, CommitsAtomically, PTL

\* sync() has committed all that was written before when it returns a count
\* (log.c:283-307), under the same two conditions.
THEOREM SyncsAll == Spec /\ []CommitAlone /\ []Fits => SyncDurable
<1>1. Spec /\ []CommitAlone /\ []Fits => []DiskInv
  BY DiskInvInit, DiskInvNext, PTL DEF Spec
<1> DEFINE Durable == \A p \in Procs : SyncDone(p) /\ pc'[p] = "idle" =>
                         Recovered' = [b \in Blocks |-> View(b)']
<1>2. ASSUME DiskInv, DiskInv', CommitAlone, NEW p \in Procs, SyncDone(p)
      PROVE  Recovered' = [b \in Blocks |-> View(b)']
  <2>1. kernel = "up" /\ UNCHANGED <<home, slot, dhead, cache>> /\ pc[p] = "done"
    BY <1>2 DEF SyncDone, onDisk, bufVars
  <2>2. p \in InCommit /\ Running
    BY <2>1 DEF InCommit, CommitStates, Running
  <2>3. dhead = <<>> /\ dirty = {}
    BY <1>2, <2>1, <2>2 DEF DiskInv, PhaseInv
  <2>4. [b \in Blocks |-> View(b)] = [b \in Blocks |-> home[b]]
    BY <1>2, <2>2, <2>3, NothingPinned
  <2>5. Recovered = [b \in Blocks |-> home[b]]
    BY <1>2, <2>3, RecoveredImage, ImageHome DEF Installed
  <2>6. Recovered' = Recovered
    BY <1>2, <2>1, StableKept DEF Image, Logged
  <2>7. [b \in Blocks |-> View(b)'] = [b \in Blocks |-> View(b)]
    BY <2>1 DEF View
  <2> QED BY <2>4, <2>5, <2>6, <2>7
<1>3. DiskInv /\ DiskInv' /\ CommitAlone => Durable
  BY <1>2
<1> QED BY <1>1, <1>3, PTL DEF SyncDurable

-----------------------------------------------------------------------------
\* A machine that has halted has stopped inside a call.
HaltInv == CountInv /\ (kernel \in Halted => InOp # {})

LEMMA HaltInit == Init => HaltInv
<1> SUFFICES ASSUME Init PROVE HaltInv
  OBVIOUS
<1> QED BY CountInvInit DEF Init, HaltInv, Halted

LEMMA HaltNext == HaltInv /\ [Next]_vars => HaltInv'
<1> SUFFICES ASSUME HaltInv, [Next]_vars PROVE HaltInv'
  OBVIOUS
<1> USE DEF Halted
<1>1. CountInv /\ CountInv'
  BY CountInvNext DEF HaltInv
<1>2. ASSUME UNCHANGED <<pc, kernel>> PROVE HaltInv'
  BY <1>1, <1>2 DEF HaltInv, InOp
<1>3. ASSUME NEW p \in Procs, pc[p] \in OpStates, UNCHANGED pc PROVE HaltInv'
  BY <1>1, <1>3 DEF HaltInv, InOp
<1>4. ASSUME kernel' \in {"up", "recover", "boot"} PROVE HaltInv'
  BY <1>1, <1>4 DEF HaltInv
<1>5. ASSUME NEW p \in Procs, Step(p) PROVE HaltInv'
  <2>1. CASE LogWritePanic(p) \/ (\E b \in Blocks : LogWriteOverflow(p, b)) \/ EndOpPanic(p)
    BY <1>3, <2>1 DEF LogWritePanic, LogWriteOverflow, EndOpPanic, procVars, OpStates
  <2>2. CASE CommitStep(p)
    BY <1>4, <2>2 DEF CommitStep, CommitStart, WriteLog, WriteLogPastEnd, WriteLogEnd, WriteHead,
       Install, InstallEnd, Clear, CommitDone, SyncDone, RecoverDone
  <2>3. CASE BeginOp(p) \/ BeginOpSleep(p) \/ SyncSleep(p) \/ SyncTake(p) \/ Recover(p) \/ LogWriteCheck(p)
    BY <1>4, <2>3 DEF BeginOp, BeginOpSleep, SyncSleep, SyncTake, Recover, LogWriteCheck
  <2>4. CASE EndOpCommit(p) \/ EndOpDefer(p) \/ EndOpOthers(p)
    BY <1>4, <2>4 DEF EndOpCommit, EndOpDefer, EndOpOthers
  <2>5. CASE \E b \in Blocks : LogWriteAppend(p, b) \/ \E v \in Data : Modify(p, b, v)
    BY <1>4, <2>5 DEF LogWriteAppend, Modify
  <2> QED BY <1>5, <2>1, <2>2, <2>3, <2>4, <2>5 DEF Step, LogWrite, EndOp
<1>6. CASE Crash \/ \E b \in Blocks : Evict(b)
  BY <1>4, <1>6 DEF Crash, Evict
<1>7. CASE UNCHANGED vars
  BY <1>2, <1>7 DEF vars, procVars
<1> QED BY <1>5, <1>6, <1>7 DEF Next

\* One process cannot race with itself: its commits are alone, and the test of
\* log_write() keeps its transactions inside the log area.
LEMMA SingleAlone ==
  ASSUME NEW p, Procs = {p}
  PROVE  /\ HaltInv => CommitAlone
         /\ CountInv /\ OverrunBound => Fits
<1>1. ASSUME HaltInv, InCommit # {} PROVE CommitAlone
  <2>1. InCommit = {p} /\ InOp = {}
    BY <1>1 DEF InCommit, InOp, OpStates, CommitStates
  <2>2. outstanding = 0
    BY <1>1, <2>1, FS_EmptySet DEF HaltInv, CountInv, TypeOK
  <2> QED BY <2>1, <2>2 DEF CommitAlone
<1>2. ASSUME CountInv, OverrunBound PROVE Fits
  <2>1. Cardinality(Procs) = 1
    BY FS_Singleton
  <2>2. Cardinality({q \in Procs : pc[q] = "checked"}) \in Nat
    BY CheckedFinite DEF Checked
  <2> QED BY <1>2, <2>1, <2>2, SizeAssumption DEF OverrunBound, Fits, CountInv, TypeOK, nlog
<1> QED BY <1>1, <1>2 DEF CommitAlone

\* A process that has the file system to itself needs no condition: its calls
\* and its syncs are atomic and durable, wherever a crash falls.
THEOREM AtomicForOne ==
  ASSUME NEW p, Procs = {p}
  PROVE  Spec => AtomicCommit /\ SyncDurable
<1>1. Spec => []HaltInv
  BY HaltInit, HaltNext, PTL DEF Spec
<1>2. Spec => []OverrunBound
  BY OverrunBounded
<1>3. (HaltInv => CommitAlone) /\ (CountInv /\ OverrunBound => Fits)
  BY SingleAlone
<1>4. HaltInv => CountInv
  BY DEF HaltInv
<1> QED BY <1>1, <1>2, <1>3, <1>4, CommitsAtomically, SyncsAll, PTL
=============================================================================
