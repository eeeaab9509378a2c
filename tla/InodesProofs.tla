----------------------------- MODULE InodesProofs -----------------------------
(***************************************************************************)
(* Inodes: the reference counts are right, nlink covers every entry, what  *)
(* is in use is not freed, and who waits in a circle waits in iput().      *)
(*                                                                         *)
(* The invariant is a conjunction of parts, each about one idea; a part is *)
(* preserved because of the others.                                        *)
(***************************************************************************)
EXTENDS Inodes, FiniteSetTheorems, FunctionTheorems, SequenceTheorems, TLAPS

-----------------------------------------------------------------------------
\* The parts of the invariant.

CallNames == {"none", "open", "open_target", "chdir", "link", "link_new", "unlink", "create",
              "mkdir", "symlink"}
Locals ==
  [pc : {"idle", "walk", "last", "exists", "parent", "made", "unlink", "unlinked", "unlock", "undo"},
   call : [name : CallNames, path : Paths, new : Paths, write : BOOLEAN],
   path : Seq(DEntries), name : DEntries \cup {""},
   ip : 0..NINODES, dp : 0..NINODES, old : 0..NINODES, puts : Seq(Inums), dropping : BOOLEAN]

Typed ==
  /\ inode \in [Inums -> Node]
  /\ iref \in [Inums -> Nat] /\ ivalid \in [Inums -> BOOLEAN]
  /\ ilocked \in [Inums -> Procs \cup {Unlocked}]
  /\ cwd \in [Procs -> Inums] /\ opened \in [Procs -> 0..NINODES]
  /\ loc \in [Procs -> Locals]
  /\ raced \subseteq Inums

\* What the local variables of a call are at each place.
Shape(l) ==
  /\ Len(l.puts) <= 2 /\ (l.dropping => l.puts # <<>>)
  /\ l.ip # None <=> l.pc \in {"walk", "last", "exists", "made", "unlink", "unlinked"}
  /\ l.dp # None <=> l.pc \in {"parent", "unlink", "unlock"}
  /\ l.pc = "walk" => l.path # <<>>
  /\ l.pc = "parent" => l.name \in DEntries
  /\ l.pc = "unlink" => l.name \in DNames
  /\ l.old # None => l.pc \in {"walk", "parent", "unlock", "undo"}
  /\ l.pc = "undo" => l.old # None
  /\ l.pc \in {"walk", "parent"} => (l.old # None <=> l.call.name = "link_new")
Shaped == \A p \in Procs : Shape(loc[p])

\* ip->ref counts the pointers.
Counted == \A i \in Inums : iref[i] = RefCount(i)

\* An inode of which the last link is gone has a pointer that will be put, and
\* that iput() will find to be the last one.
Firm(i) == \E q \in Procs, k \in 1..7 : Pointers(q)[k] = i /\ ~(k = 6 /\ loc[q].dropping)
WillBeFreed ==
  \A i \in Inums : inode[i].type # "free" /\ inode[i].nlink = 0 /\ i \notin raced => ivalid[i] /\ Firm(i)

\* Pointers to inodes that are free: one that ".." gave, and one that is put.
AliveAt(p) ==
  \A k \in 1..7 :
    LET x == Pointers(p)[k] IN
    x # None /\ inode[x].type = "free" =>
      k = 6 \/ (k = 3 /\ loc[p].name = ".." /\ loc[p].pc \in {"walk", "last", "exists"})
Alive == \A p \in Procs : AliveAt(p)
FreeNotValid == \A i \in Inums : inode[i].type = "free" => ~ivalid[i]

\* Who holds which lock; the inode is read then.
HasLocked(p, x) ==
  \/ loc[p].pc \in {"unlink", "unlock"} /\ x = loc[p].dp
  \/ loc[p].pc \in {"made", "unlinked"} /\ x = loc[p].ip
Locked ==
  /\ \A x \in Inums, p \in Procs : ilocked[x] = p <=> HasLocked(p, x)
  /\ \A x \in Inums : ilocked[x] # Unlocked => ivalid[x] /\ inode[x].type # "free"

\* What a call knows of its inodes.
KnownAt(p) ==
  /\ loc[p].pc \in {"parent", "unlink", "unlock"} => inode[loc[p].dp].type = "dir"
  /\ loc[p].old # None => inode[loc[p].old].type # "dir"
  /\ loc[p].pc = "unlink" => inode[loc[p].dp].ent[loc[p].name] = loc[p].ip
  /\ loc[p].call.name \in {"open", "open_target", "create"} => opened[p] = None
Known == \A p \in Procs : KnownAt(p)

\* nlink covers the entries, the links a call has counted before they exist and
\* those it has still to take back.
Pending(i) == {p \in Procs : loc[p].old = i \/ (loc[p].pc = "unlinked" /\ loc[p].ip = i)}
Base(i) == IF i = Root THEN 1 ELSE 0
Covered ==
  \A i \in Inums : inode[i].nlink >= Cardinality(LinksOf(inode, i)) + Cardinality(Pending(i)) + Base(i)

OneTree == EntriesOfDirs(inode) /\ DotDotUp(inode) /\ NoCircle(inode)

\* The panic.
Panicked ==
  ipanic # "none" => \E p \in Procs :
    Wanted(p) # None /\ inode[Wanted(p)].type = "free" /\ loc[p].name = ".."

IInv ==
  /\ Typed /\ Shaped /\ Counted /\ WillBeFreed /\ Alive /\ FreeNotValid
  /\ Locked /\ Known /\ Covered /\ OneTree /\ Panicked

-----------------------------------------------------------------------------
\* Counting pointers.

B(x, i) == IF x = i THEN 1 ELSE 0
Refs(p, i) == B(Pointers(p)[1], i) + B(Pointers(p)[2], i) + B(Pointers(p)[3], i) + B(Pointers(p)[4], i)
              + B(Pointers(p)[5], i) + B(Pointers(p)[6], i) + B(Pointers(p)[7], i)
OthersRefs(p, i) == {r \in (Procs \ {p}) \X (1..7) : Pointers(r[1])[r[2]] = i}
SomeSlots(p, f, n, i) == {r \in {p} \X (1..n) : f[r[2]] = i}

LEMMA NoInum == NINODES \in Nat \ {0} /\ Root \in Inums /\ None \notin Inums /\ 0..NINODES = Inums \cup {None}
<1>1. NINODES \in Nat \ {0}
  BY InodesFinite
<1> QED  BY <1>1 DEF None, Root, Inums

LEMMA SlotStep ==
  ASSUME NEW p, NEW f, NEW n \in Nat, NEW i, IsFiniteSet(SomeSlots(p, f, n, i))
  PROVE  /\ IsFiniteSet(SomeSlots(p, f, n + 1, i))
         /\ Cardinality(SomeSlots(p, f, n + 1, i)) = Cardinality(SomeSlots(p, f, n, i)) + B(f[n + 1], i)
<1> DEFINE S == SomeSlots(p, f, n, i)  e == <<p, n + 1>>
<1>1. e \notin S
  BY DEF SomeSlots
<1>2. CASE f[n + 1] = i
  <2>1. SomeSlots(p, f, n + 1, i) = S \cup {e}
    BY <1>2, SMT DEF SomeSlots
  <2> QED  BY <1>1, <1>2, <2>1, FS_AddElement DEF B
<1>3. CASE f[n + 1] # i
  <2>1. SomeSlots(p, f, n + 1, i) = S
    BY <1>3, SMT DEF SomeSlots
  <2> QED  BY <1>3, <2>1, FS_CardinalityType DEF B
<1> QED  BY <1>2, <1>3

LEMMA AllSlots ==
  ASSUME NEW p, NEW f, NEW i
  PROVE  /\ IsFiniteSet(SomeSlots(p, f, 7, i))
         /\ Cardinality(SomeSlots(p, f, 7, i)) =
              B(f[1], i) + B(f[2], i) + B(f[3], i) + B(f[4], i) + B(f[5], i) + B(f[6], i) + B(f[7], i)
<1> DEFINE S(n) == SomeSlots(p, f, n, i)
<1>0. IsFiniteSet(S(0)) /\ Cardinality(S(0)) = 0
  <2>1. S(0) = {}
    BY SMT DEF SomeSlots
  <2> QED  BY <2>1, FS_EmptySet
<1>1. IsFiniteSet(S(1)) /\ Cardinality(S(1)) = B(f[1], i)
  BY <1>0, SlotStep, 0 + 1 = 1 DEF B
<1>2. IsFiniteSet(S(2)) /\ Cardinality(S(2)) = B(f[1], i) + B(f[2], i)
  BY <1>1, SlotStep, 1 + 1 = 2
<1>3. IsFiniteSet(S(3)) /\ Cardinality(S(3)) = B(f[1], i) + B(f[2], i) + B(f[3], i)
  BY <1>2, SlotStep, 2 + 1 = 3
<1>4. IsFiniteSet(S(4)) /\ Cardinality(S(4)) = B(f[1], i) + B(f[2], i) + B(f[3], i) + B(f[4], i)
  BY <1>3, SlotStep, 3 + 1 = 4
<1>5. IsFiniteSet(S(5)) /\ Cardinality(S(5)) = B(f[1], i) + B(f[2], i) + B(f[3], i) + B(f[4], i) + B(f[5], i)
  BY <1>4, SlotStep, 4 + 1 = 5
<1>6. IsFiniteSet(S(6)) /\ Cardinality(S(6)) = B(f[1], i) + B(f[2], i) + B(f[3], i) + B(f[4], i) + B(f[5], i) + B(f[6], i)
  BY <1>5, SlotStep, 5 + 1 = 6
<1> QED  BY <1>6, SlotStep, 6 + 1 = 7

\* The pointers to an inode are those of one process and those of the others.
RefsSplit ==
  \A p \in Procs, i \in Inums :
    /\ Cardinality(OthersRefs(p, i)) \in Nat /\ Refs(p, i) \in Nat
    /\ RefCount(i) = Cardinality(OthersRefs(p, i)) + Refs(p, i)

LEMMA RefsSplitAlways == RefsSplit
<1> SUFFICES ASSUME NEW p \in Procs, NEW i \in Inums
             PROVE  /\ Cardinality(OthersRefs(p, i)) \in Nat /\ Refs(p, i) \in Nat
                    /\ RefCount(i) = Cardinality(OthersRefs(p, i)) + Refs(p, i)
  BY DEF RefsSplit
<1> DEFINE f == Pointers(p)
           all == {r \in Procs \X (1..7) : Pointers(r[1])[r[2]] = i}
           one == SomeSlots(p, f, 7, i)
           others == OthersRefs(p, i)
<1>1. IsFiniteSet(one) /\ Cardinality(one) = Refs(p, i)
  BY AllSlots DEF Refs
<1>2. IsFiniteSet(others)
  <2>0. IsFiniteSet(Procs) /\ IsFiniteSet(1..7)
    <3>1. IsFiniteSet(1..7)
      <4>1. \A a, b \in Int : IsFiniteSet(a..b)
        BY FS_Interval
      <4>2. 1 \in Int /\ 7 \in Int
        OBVIOUS
      <4> QED  BY <4>1, <4>2, Zenon
    <3> QED  BY <3>1, InodesFinite
  <2>1. IsFiniteSet(Procs \X (1..7))
    BY <2>0, FS_Product
  <2>2. others \subseteq Procs \X (1..7)
    BY DEF OthersRefs
  <2> QED  BY <2>1, <2>2, FS_Subset
<1>3. all = others \cup one /\ others \cap one = {}
  BY DEF OthersRefs, SomeSlots
<1>4. Cardinality(all) = Cardinality(others) + Cardinality(one) - Cardinality({})
  BY <1>1, <1>2, <1>3, FS_Union
<1>5. Cardinality(others) \in Nat /\ Refs(p, i) \in Nat
  BY <1>1, <1>2, FS_CardinalityType
<1>6. RefCount(i) = Cardinality(all)
  BY DEF RefCount
<1> QED  BY <1>1, <1>4, <1>5, <1>6, FS_EmptySet

\* A process has a pointer to i if it counts for one.
PointersCount == \A p \in Procs, i \in Inums : Refs(p, i) > 0 <=> \E k \in 1..7 : Pointers(p)[k] = i

LEMMA PointersCountAlways == PointersCount
<1> SUFFICES ASSUME NEW p \in Procs, NEW i \in Inums
             PROVE  Refs(p, i) > 0 <=> \E k \in 1..7 : Pointers(p)[k] = i
  BY DEF PointersCount
<1> DEFINE f == Pointers(p)
<1>1. (\E k \in 1..7 : f[k] = i) <=>
        f[1] = i \/ f[2] = i \/ f[3] = i \/ f[4] = i \/ f[5] = i \/ f[6] = i \/ f[7] = i
  <2> HIDE DEF f
  <2>1. \A k \in 1..7 : k = 1 \/ k = 2 \/ k = 3 \/ k = 4 \/ k = 5 \/ k = 6 \/ k = 7
    OBVIOUS
  <2> QED  BY <2>1
<1> QED  BY <1>1, SMT DEF Refs, B

-----------------------------------------------------------------------------
\* A step of process p besides iput(): it takes a pointer to g, if that is an
\* inode, and keeps or puts the ones it has.

Others(p) == \A q \in Procs \ {p} : cwd'[q] = cwd[q] /\ opened'[q] = opened[q] /\ loc'[q] = loc[q]

LEMMA OthersPoint ==
  ASSUME NEW p \in Procs, Others(p)
  PROVE  /\ \A q \in Procs \ {p} : Pointers(q)' = Pointers(q)
         /\ \A i \in Inums : RefCount(i)' = RefCount(i) - Refs(p, i) + Refs(p, i)'
         /\ \A i \in Inums : RefCount(i) \in Nat /\ Refs(p, i) \in Nat /\ Refs(p, i)' \in Nat
<1>1. ASSUME NEW q \in Procs \ {p} PROVE Pointers(q)' = Pointers(q)
  BY DEF Others, Pointers, ToPut
<1>2. \A i \in Inums : OthersRefs(p, i)' = OthersRefs(p, i)
  BY <1>1 DEF OthersRefs
<1>3. RefsSplit'
  BY RefsSplitAlways, PTL
<1>4. \A i \in Inums : /\ Cardinality(OthersRefs(p, i))' \in Nat /\ Refs(p, i)' \in Nat
                       /\ RefCount(i)' = Cardinality(OthersRefs(p, i))' + Refs(p, i)'
  BY <1>3 DEF RefsSplit
<1>5. \A i \in Inums : /\ Cardinality(OthersRefs(p, i)) \in Nat /\ Refs(p, i) \in Nat
                       /\ RefCount(i) = Cardinality(OthersRefs(p, i)) + Refs(p, i)
  BY RefsSplitAlways DEF RefsSplit
<1> QED  BY <1>1, <1>2, <1>4, <1>5

Moves(p, g) ==
  /\ Others(p) /\ iref' = Got(g)
  /\ ~loc[p].dropping /\ ~loc'[p].dropping
  /\ \A i \in Inums : Refs(p, i)' = Refs(p, i) + B(g, i)
  /\ raced' = raced

\* The pointers of p and their number, by the variables.
Five(p, i) == B(cwd[p], i) + B(opened[p], i) + B(loc[p].ip, i) + B(loc[p].dp, i) + B(loc[p].old, i)
PutsB(q, i) == (IF 1 <= Len(q) THEN B(q[1], i) ELSE 0) + (IF 2 <= Len(q) THEN B(q[2], i) ELSE 0)
RefsForm == \A p \in Procs, i \in Inums : Refs(p, i) = Five(p, i) + PutsB(loc[p].puts, i)

LEMMA PutsBIs ==
  /\ \A i : PutsB(<<>>, i) = 0
  /\ \A x, i : PutsB(<<x>>, i) = B(x, i)
  /\ \A x, y, i : PutsB(<<x, y>>, i) = B(x, i) + B(y, i)
BY DEF PutsB, B

LEMMA RefsFormAlways == RefsForm
<1> SUFFICES ASSUME NEW p \in Procs, NEW i \in Inums
             PROVE  Refs(p, i) = Five(p, i) + PutsB(loc[p].puts, i)
  BY DEF RefsForm
<1>1. B(None, i) = 0
  <2>1. i # None
    BY NoInum
  <2> QED  BY <2>1 DEF B
<1>2. Refs(p, i) = Five(p, i) + B(ToPut(p, 1), i) + B(ToPut(p, 2), i)
  BY DEF Refs, Five, Pointers
<1>3. \A x : B(x, i) \in {0, 1}
  BY DEF B
<1>4. /\ B(ToPut(p, 1), i) = IF 1 <= Len(loc[p].puts) THEN B(loc[p].puts[1], i) ELSE 0
      /\ B(ToPut(p, 2), i) = IF 2 <= Len(loc[p].puts) THEN B(loc[p].puts[2], i) ELSE 0
  BY <1>1 DEF ToPut
<1> QED  BY <1>2, <1>3, <1>4 DEF PutsB, Five

LEMMA MoveCounted ==
  ASSUME Typed, Counted, NEW p \in Procs, NEW g, Moves(p, g)
  PROVE  Counted'
<1> SUFFICES ASSUME NEW i \in Inums PROVE iref'[i] = RefCount(i)'
  BY DEF Counted
<1>1. iref'[i] = iref[i] + B(g, i)
  BY DEF Moves, Got, B, Typed
<1>2. Refs(p, i)' = Refs(p, i) + B(g, i) /\ Others(p)
  BY DEF Moves
<1> QED  BY <1>1, <1>2, OthersPoint DEF Counted, B

\* What a pointer implies: the inode has references.
LEMMA PointedReferenced ==
  ASSUME Counted, NEW p \in Procs, NEW i \in Inums, NEW k \in 1..7, Pointers(p)[k] = i
  PROVE  iref[i] > 0
<1>1. Refs(p, i) > 0
  BY PointersCountAlways DEF PointersCount
<1> QED  BY <1>1, RefsSplitAlways DEF RefsSplit, Counted

ValidKept ==
  \A x \in Inums : /\ ivalid[x] /\ iref[x] > 0 => ivalid'[x]
                   /\ ivalid'[x] /\ ~ivalid[x] => inode'[x].type # "free"

\* Types stay, but of inodes that are allocated; no link is lost but of an inode
\* that p will put; and an inode under the lock of another process is left alone.
NodesKept(p) ==
  \A x \in Inums :
    /\ inode[x].type # "free" => inode'[x].type = inode[x].type
    /\ \/ inode'[x].type = inode[x].type /\ inode'[x].nlink = inode[x].nlink
       \/ inode'[x].nlink # 0
       \/ ivalid'[x] /\ Refs(p, x)' > 0
    /\ ilocked[x] \notin {Unlocked, p} => inode'[x].ent = inode[x].ent

LEMMA MoveWillBeFreed ==
  ASSUME Typed, Counted, WillBeFreed, NEW p \in Procs, NEW g, Moves(p, g), ValidKept, NodesKept(p)
  PROVE  WillBeFreed'
<1> SUFFICES ASSUME NEW i \in Inums, inode'[i].type # "free", inode'[i].nlink = 0, i \notin raced
             PROVE  ivalid'[i] /\ Firm(i)'
  BY DEF WillBeFreed, Moves
<1>1. ASSUME Refs(p, i)' > 0 PROVE Firm(i)'
  <2>1. \E k \in 1..7 : Pointers(p)'[k] = i
    <3>1. PointersCount'
      BY PointersCountAlways, PTL
    <3> QED  BY <1>1, <3>1 DEF PointersCount
  <2> QED  BY <2>1 DEF Firm, Moves
<1>2. CASE ivalid'[i] /\ Refs(p, i)' > 0
  BY <1>1, <1>2
<1>3. CASE inode'[i].type = inode[i].type /\ inode'[i].nlink = inode[i].nlink
  <2>1. ivalid[i] /\ Firm(i)
    BY <1>3 DEF WillBeFreed
  <2>2. PICK q \in Procs, k \in 1..7 : Pointers(q)[k] = i /\ ~(k = 6 /\ loc[q].dropping)
    BY <2>1 DEF Firm
  <2>3. ivalid'[i]
    BY <2>1, <2>2, PointedReferenced DEF ValidKept
  <2>4. CASE q = p
    <3>1. Refs(p, i) > 0 /\ Refs(p, i) \in Nat
      BY <2>2, <2>4, PointersCountAlways, RefsSplitAlways DEF RefsSplit, PointersCount
    <3>2. Refs(p, i)' > 0
      BY <3>1 DEF Moves, B
    <3> QED  BY <1>1, <2>3, <3>2
  <2>5. CASE q # p
    <3>1. Pointers(q)' = Pointers(q) /\ loc'[q] = loc[q]
      BY <2>5, OthersPoint DEF Moves, Others
    <3> QED  BY <2>2, <2>3, <3>1 DEF Firm
  <2> QED  BY <2>4, <2>5
<1> QED  BY <1>2, <1>3 DEF NodesKept

\* The locks p takes and releases, and what it knows after its step.
LocksMoved(p) ==
  \A x \in Inums :
    /\ ilocked'[x] = p <=> HasLocked(p, x)'
    /\ ilocked'[x] = p => ivalid'[x] /\ inode'[x].type # "free"
    /\ ilocked'[x] # ilocked[x] => ilocked[x] \in {Unlocked, p} /\ ilocked'[x] \in {Unlocked, p}

\* What holds of p alone after its step.
LocalsMoved(p) == Shape(loc[p])' /\ AliveAt(p)' /\ KnownAt(p)'

LEMMA PointersTyped ==
  ASSUME Typed, NEW p \in Procs
  PROVE  /\ loc[p] \in Locals
         /\ loc[p].ip \in 0..NINODES /\ loc[p].dp \in 0..NINODES /\ loc[p].old \in 0..NINODES
         /\ loc[p].puts \in Seq(Inums) /\ cwd[p] \in Inums /\ opened[p] \in 0..NINODES
         /\ \A k \in 1..7 : Pointers(p)[k] \in 0..NINODES
<1>1. loc[p] \in Locals /\ cwd[p] \in Inums /\ opened[p] \in 0..NINODES
  BY DEF Typed
<1>2. /\ loc[p].ip \in 0..NINODES /\ loc[p].dp \in 0..NINODES /\ loc[p].old \in 0..NINODES
      /\ loc[p].puts \in Seq(Inums)
  BY <1>1 DEF Locals
<1>3. ToPut(p, 1) \in 0..NINODES /\ ToPut(p, 2) \in 0..NINODES
  BY <1>2, NoInum DEF ToPut
<1>4. \A k \in 1..7 : k = 1 \/ k = 2 \/ k = 3 \/ k = 4 \/ k = 5 \/ k = 6 \/ k = 7
  OBVIOUS
<1>5. ASSUME NEW k \in 1..7 PROVE Pointers(p)[k] \in 0..NINODES
  <2>1. cwd[p] \in 0..NINODES
    BY <1>1, NoInum
  <2>2. /\ Pointers(p)[1] = cwd[p] /\ Pointers(p)[2] = opened[p] /\ Pointers(p)[3] = loc[p].ip
        /\ Pointers(p)[4] = loc[p].dp /\ Pointers(p)[5] = loc[p].old
        /\ Pointers(p)[6] = ToPut(p, 1) /\ Pointers(p)[7] = ToPut(p, 2)
    BY DEF Pointers
  <2> QED  BY <1>1, <1>2, <1>3, <1>4, <2>1, <2>2
<1> QED  BY <1>1, <1>2, <1>5

LEMMA MoveAlive ==
  ASSUME Typed, Alive, NEW p \in Procs, Others(p), NodesKept(p), AliveAt(p)'
  PROVE  Alive'
<1> SUFFICES ASSUME NEW q \in Procs, q # p PROVE AliveAt(q)'
  BY DEF Alive
<1>1. Pointers(q)' = Pointers(q) /\ loc'[q] = loc[q]
  BY OthersPoint DEF Others
<1>2. \A x \in Inums : inode'[x].type = "free" => inode[x].type = "free"
  BY DEF NodesKept
<1>3. AliveAt(q)
  BY DEF Alive
<1>4. \A k \in 1..7 : Pointers(q)[k] # None => Pointers(q)[k] \in Inums
  BY PointersTyped, NoInum
<1> QED  BY <1>1, <1>2, <1>3, <1>4 DEF AliveAt

\* A lock is of an inode to which its holder has a pointer.
LEMMA LockedPointed ==
  ASSUME Typed, Counted, Locked, NEW q \in Procs, NEW x \in Inums, ilocked[x] = q
  PROVE  iref[x] > 0 /\ ivalid[x] /\ inode[x].type # "free" /\ (x = loc[q].dp \/ x = loc[q].ip)
<1>1. HasLocked(q, x)
  BY DEF Locked
<1>2. x = loc[q].dp \/ x = loc[q].ip
  BY <1>1 DEF HasLocked
<1>3. Pointers(q)[3] = x \/ Pointers(q)[4] = x
  BY <1>2 DEF Pointers
<1>4. iref[x] > 0
  BY <1>3, PointedReferenced, 3 \in 1..7, 4 \in 1..7
<1>5. ilocked[x] # Unlocked
  BY InodesFinite
<1> QED  BY <1>2, <1>4, <1>5 DEF Locked

LEMMA MoveLocked ==
  ASSUME Typed, Typed', Counted, Locked, NEW p \in Procs, Others(p), NodesKept(p), ValidKept, LocksMoved(p)
  PROVE  Locked'
<1>1. ASSUME NEW x \in Inums, NEW q \in Procs PROVE ilocked'[x] = q <=> HasLocked(q, x)'
  <2>1. CASE q = p
    BY <2>1 DEF LocksMoved
  <2>2. CASE q # p
    <3>1. HasLocked(q, x)' <=> HasLocked(q, x)
      BY <2>2 DEF HasLocked, Others
    <3>2. ilocked'[x] # ilocked[x] => ilocked[x] \in {Unlocked, p} /\ ilocked'[x] \in {Unlocked, p}
      BY DEF LocksMoved
    <3>3. q \notin {Unlocked, p}
      BY <2>2, InodesFinite
    <3>4. ilocked'[x] = q <=> ilocked[x] = q
      BY <3>2, <3>3
    <3> QED  BY <3>1, <3>4 DEF Locked
  <2> QED  BY <2>1, <2>2
<1>2. ASSUME NEW x \in Inums, ilocked'[x] # Unlocked PROVE ivalid'[x] /\ inode'[x].type # "free"
  <2>1. CASE ilocked'[x] = p
    BY <2>1 DEF LocksMoved
  <2>2. CASE ilocked'[x] # p
    <3>1. ilocked[x] = ilocked'[x] /\ ilocked[x] \in Procs
      BY <1>2, <2>2 DEF LocksMoved, Typed
    <3>2. iref[x] > 0 /\ ivalid[x] /\ inode[x].type # "free"
      BY <3>1, LockedPointed
    <3> QED  BY <3>2 DEF ValidKept, NodesKept
  <2> QED  BY <2>1, <2>2
<1> QED  BY <1>1, <1>2 DEF Locked

LEMMA MoveKnown ==
  ASSUME Typed, Shaped, Alive, Locked, Known, NEW p \in Procs, Others(p), NodesKept(p), KnownAt(p)'
  PROVE  Known'
<1> SUFFICES ASSUME NEW q \in Procs, q # p PROVE KnownAt(q)'
  BY DEF Known
<1>1. loc'[q] = loc[q] /\ opened'[q] = opened[q] /\ KnownAt(q) /\ Shape(loc[q])
  BY DEF Others, Known, Shaped
<1>2. \A k \in {4, 5} : Pointers(q)[k] # None => inode[Pointers(q)[k]].type # "free"
  BY DEF Alive, AliveAt
<1>3. /\ loc[q].dp # None => loc[q].dp \in Inums /\ inode[loc[q].dp].type # "free"
      /\ loc[q].old # None => loc[q].old \in Inums /\ inode[loc[q].old].type # "free"
  BY <1>2, PointersTyped, NoInum DEF Pointers
<1>4. /\ loc[q].dp # None => inode'[loc[q].dp].type = inode[loc[q].dp].type
      /\ loc[q].old # None => inode'[loc[q].old].type = inode[loc[q].old].type
  BY <1>3 DEF NodesKept
<1>5. ASSUME loc[q].pc = "unlink" PROVE inode'[loc[q].dp].ent = inode[loc[q].dp].ent
  <2>1. loc[q].dp \in Inums /\ ilocked[loc[q].dp] = q
    BY <1>1, <1>3, <1>5 DEF Shape, Locked, HasLocked
  <2>2. q # Unlocked
    BY InodesFinite
  <2> QED  BY <2>1, <2>2 DEF NodesKept
<1>6. loc[q].pc \in {"parent", "unlink", "unlock"} => loc[q].dp # None
  BY <1>1 DEF Shape
<1> QED  BY <1>1, <1>4, <1>5, <1>6 DEF KnownAt

\* All of it.
LEMMA MoveStep ==
  ASSUME IInv, NEW p \in Procs, NEW g, Typed', Moves(p, g), ValidKept, NodesKept(p), LocksMoved(p),
         LocalsMoved(p), Covered', OneTree', ipanic' = "none"
  PROVE  IInv'
<1> USE DEF LocalsMoved
<1>1. /\ Typed /\ Shaped /\ Counted /\ WillBeFreed /\ Alive /\ FreeNotValid
      /\ Locked /\ Known
  BY DEF IInv
<1>2. Others(p)
  BY DEF Moves
<1>3. Counted'
  BY <1>1, MoveCounted
<1>4. WillBeFreed'
  BY <1>1, MoveWillBeFreed
<1>5. Alive'
  BY <1>1, <1>2, MoveAlive
<1>6. Locked'
  BY <1>1, <1>2, MoveLocked
<1>7. Known'
  BY <1>1, <1>2, MoveKnown
<1>8. Shaped'
  <2> SUFFICES ASSUME NEW q \in Procs, q # p PROVE Shape(loc[q])'
    BY DEF Shaped
  <2>1. loc'[q] = loc[q] /\ Shape(loc[q])
    BY <1>1, <1>2 DEF Others, Shaped
  <2> QED  BY <2>1
<1>9. FreeNotValid'
  BY <1>1 DEF FreeNotValid, ValidKept, NodesKept
<1>10. Panicked'
  BY DEF Panicked
<1> QED  BY <1>3, <1>4, <1>5, <1>6, <1>7, <1>8, <1>9, <1>10 DEF IInv

-----------------------------------------------------------------------------
\* The records of local variables that the actions build.

Is(l, pc, ip, dp, old, puts) ==
  l.pc = pc /\ l.ip = ip /\ l.dp = dp /\ l.old = old /\ l.puts = puts /\ l.dropping = FALSE

LEMMA ToPutSeqs ==
  /\ <<>> \in Seq(Inums) /\ Len(<<>>) <= 2
  /\ \A i \in Inums : <<i>> \in Seq(Inums) /\ Len(<<i>>) <= 2 /\ <<i>> # <<>>
  /\ \A i, j \in Inums : <<i, j>> \in Seq(Inums) /\ Len(<<i, j>>) <= 2 /\ <<i, j>> # <<>>
OBVIOUS

LEMMA Restricted ==
  ASSUME NEW S, NEW T, NEW s \in Seq(S), \A k \in 1..Len(s) : s[k] \in T
  PROVE  s \in Seq(T)
<1>1. Len(s) \in Nat /\ s \in [1..Len(s) -> S]
  BY LenProperties
<1>2. s \in [1..Len(s) -> T]
  BY <1>1
<1> QED  BY <1>1, <1>2, SeqDef

LEMMA RestTyped == ASSUME NEW path \in Paths PROVE Rest(path) \in Seq(DEntries)
<1> DEFINE S == DEntries \cup {"/"}
<1>1. path \in Seq(S) /\ \A k \in 2..Len(path) : path[k] # "/"
  BY DEF Paths
<1>2. \A k \in 1..Len(path) : path[k] \in S
  BY <1>1, ElementOfSeq
<1>3. CASE Absolute(path)
  <2>1. path # <<>> /\ Rest(path) = Tail(path)
    BY <1>3 DEF Absolute, Rest
  <2>2. /\ Tail(path) \in Seq(S) /\ Len(Tail(path)) = Len(path) - 1
        /\ \A i \in 1..Len(Tail(path)) : Tail(path)[i] = path[i + 1]
    BY <1>1, <2>1, HeadTailProperties
  <2>3. Len(path) \in Nat /\ Len(Tail(path)) \in Nat
    BY <1>1, <2>2, LenProperties
  <2>4. ASSUME NEW i \in 1..Len(Tail(path)) PROVE Tail(path)[i] \in DEntries
    <3>1. i + 1 \in 2..Len(path) /\ i + 1 \in 1..Len(path)
      BY <2>2, <2>3
    <3> QED  BY <1>1, <1>2, <2>2, <3>1
  <2> QED  BY <2>1, <2>2, <2>4, Restricted
<1>4. CASE ~Absolute(path)
  <2>1. Rest(path) = path /\ (path # <<>> => Head(path) # "/")
    BY <1>4 DEF Absolute, Rest
  <2>2. ASSUME NEW k \in 1..Len(path) PROVE path[k] \in DEntries
    <3>1. Len(path) \in Nat
      BY <1>1, LenProperties
    <3>2. CASE k = 1
      <4>1. path # <<>> /\ Head(path) = path[1]
        BY <1>1, <3>1, <3>2
      <4> QED  BY <1>2, <2>1, <3>2, <4>1
    <3>3. CASE k # 1
      BY <1>1, <1>2, <3>1, <3>3
    <3> QED  BY <3>2, <3>3
  <2> QED  BY <1>1, <2>1, <2>2, Restricted
<1> QED  BY <1>3, <1>4

LEMMA NoLocalsIs ==
  /\ NoLocals \in Locals /\ Is(NoLocals, "idle", None, None, None, <<>>) /\ Shape(NoLocals)
  /\ NoLocals.call.name = "none"
<1>1. <<>> \in Paths
  BY DEF Paths
<1>2. None \in 0..NINODES
  BY NoInum
<1>3. NoLocals \in Locals
  BY <1>1, <1>2 DEF NoLocals, NoCall, Locals, CallNames
<1>4. Is(NoLocals, "idle", None, None, None, <<>>)
  BY DEF NoLocals, Is
<1>5. NoLocals.call.name = "none"
  BY DEF NoLocals, NoCall
<1> QED  BY <1>3, <1>4, <1>5 DEF Is, Shape

LEMMA DoneIs ==
  ASSUME NEW puts \in Seq(Inums), Len(puts) <= 2
  PROVE  /\ Done(puts) \in Locals /\ Is(Done(puts), "idle", None, None, None, puts) /\ Shape(Done(puts))
         /\ Done(puts).call.name = "none"
<1>1. Done(puts) \in Locals
  BY NoLocalsIs DEF Done, Locals
<1>2. Is(Done(puts), "idle", None, None, None, puts) /\ Done(puts).call.name = "none"
  BY NoLocalsIs DEF Done, Locals, Is
<1> QED  BY <1>1, <1>2 DEF Is, Shape

LEMMA FailedIs ==
  ASSUME NEW puts \in Seq(Inums), Len(puts) <= 2, NEW old \in 0..NINODES
  PROVE  /\ Failed(old, puts) \in Locals /\ Shape(Failed(old, puts))
         /\ Is(Failed(old, puts), IF old = None THEN "idle" ELSE "undo", None, None, old, puts)
         /\ Failed(old, puts).call.name = "none"
<1>1. CASE old = None
  BY <1>1, DoneIs DEF Failed
<1>2. CASE old # None
  <2> DEFINE r == [NoLocals EXCEPT !.pc = "undo", !.old = old, !.puts = puts]
  <2>1. Failed(old, puts) = r
    BY <1>2 DEF Failed
  <2>2. r \in Locals
    BY NoLocalsIs DEF Locals
  <2>3. Is(r, "undo", None, None, old, puts) /\ r.call.name = "none"
    BY NoLocalsIs DEF Locals, Is
  <2>4. Shape(r)
    BY <1>2, <2>2, <2>3 DEF Is, Shape
  <2> QED  BY <1>2, <2>1, <2>2, <2>3, <2>4
<1> QED  BY <1>1, <1>2

\* namex() is entered with a start, or the call fails.
LEMMA EnteredIs ==
  ASSUME NEW l \in Locals, Is(l, l.pc, l.ip, None, l.old, l.puts), Len(l.puts) <= 2,
         l.old # None <=> l.call.name = "link_new",
         NEW path \in Seq(DEntries), NEW i \in Inums
  PROVE  LET r == Entered(l, path, i) IN
         /\ r \in Locals /\ Shape(r) /\ r.call.name \in {l.call.name, "none"}
         /\ \/ /\ Is(r, IF path = <<>> THEN "last" ELSE "walk", i, None, l.old, l.puts)
            \/ /\ path = <<>> /\ WantsParent(l.call)
               /\ Is(r, IF l.old = None THEN "idle" ELSE "undo", None, None, l.old, <<i>>)
<1> DEFINE r == Entered(l, path, i)
<1>1. CASE path = <<>> /\ WantsParent(l.call)
  <2>1. r = Failed(l.old, <<i>>)
    BY <1>1 DEF Entered
  <2>2. l.old \in 0..NINODES /\ <<i>> \in Seq(Inums) /\ Len(<<i>>) <= 2
    BY ToPutSeqs DEF Locals
  <2> QED  BY <1>1, <2>1, <2>2, FailedIs
<1>2. CASE ~(path = <<>> /\ WantsParent(l.call))
  <2> DEFINE pc == IF path = <<>> THEN "last" ELSE "walk"
  <2>1. r = [l EXCEPT !.pc = pc, !.path = path, !.name = "", !.ip = i]
    BY <1>2 DEF Entered
  <2>2. i # None /\ i \in 0..NINODES
    BY NoInum
  <2>3. r \in Locals
    <3>1. pc \in {"last", "walk"} /\ "" \in DEntries \cup {""}
      OBVIOUS
    <3> HIDE DEF pc
    <3> QED  BY <2>1, <2>2, <3>1 DEF Locals
  <2>4. Is(r, pc, i, None, l.old, l.puts) /\ r.path = path /\ r.call = l.call
    BY <2>1 DEF Locals, Is
  <2>5. l.call.name = "link_new" => path # <<>>
    BY <1>2 DEF WantsParent
  <2>6. Shape(r)
    BY <2>2, <2>3, <2>4, <2>5 DEF Is, Shape
  <2> QED  BY <2>3, <2>4, <2>6
<1> QED  BY <1>1, <1>2

-----------------------------------------------------------------------------
\* Parts of the conditions of MoveStep that many actions share.

Live(x) == x # None => inode[x].type # "free"
AliveForm ==
  \A p \in Procs :
    AliveAt(p) <=>
      /\ Live(cwd[p]) /\ Live(opened[p]) /\ Live(loc[p].dp) /\ Live(loc[p].old) /\ Live(ToPut(p, 2))
      /\ Live(loc[p].ip) \/ (loc[p].name = ".." /\ loc[p].pc \in {"walk", "last", "exists"})

LEMMA AliveFormAlways == AliveForm
<1> SUFFICES ASSUME NEW p \in Procs
             PROVE  AliveAt(p) <=>
      /\ Live(cwd[p]) /\ Live(opened[p]) /\ Live(loc[p].dp) /\ Live(loc[p].old) /\ Live(ToPut(p, 2))
      /\ Live(loc[p].ip) \/ (loc[p].name = ".." /\ loc[p].pc \in {"walk", "last", "exists"})
  BY DEF AliveForm
<1> DEFINE f == Pointers(p)
           dots == loc[p].name = ".." /\ loc[p].pc \in {"walk", "last", "exists"}
<1>1. AliveAt(p) <=> \A k \in 1..7 : Live(f[k]) \/ k = 6 \/ (k = 3 /\ dots)
  BY DEF AliveAt, Live
<1>2. f[1] = cwd[p] /\ f[2] = opened[p] /\ f[3] = loc[p].ip /\ f[4] = loc[p].dp /\ f[5] = loc[p].old /\ f[7] = ToPut(p, 2)
  BY DEF Pointers
<1> HIDE DEF f, dots
<1>3. (\A k \in 1..7 : Live(f[k]) \/ k = 6 \/ (k = 3 /\ dots)) <=>
        Live(f[1]) /\ Live(f[2]) /\ (Live(f[3]) \/ dots) /\ Live(f[4]) /\ Live(f[5]) /\ Live(f[7])
  <2>1. \A k \in 1..7 : k = 1 \/ k = 2 \/ k = 3 \/ k = 4 \/ k = 5 \/ k = 6 \/ k = 7
    OBVIOUS
  <2>2. 1 \in 1..7 /\ 2 \in 1..7 /\ 3 \in 1..7 /\ 4 \in 1..7 /\ 5 \in 1..7 /\ 7 \in 1..7
    OBVIOUS
  <2> QED  BY <2>1, <2>2
<1> QED  BY <1>1, <1>2, <1>3 DEF dots

LEMMA SetLocals ==
  ASSUME Typed, NEW p \in Procs, NEW r \in Locals, Set(p, r)
  PROVE  loc' \in [Procs -> Locals] /\ loc'[p] = r /\ \A q \in Procs \ {p} : loc'[q] = loc[q]
BY DEF Typed, Set

LEMMA LoadedKept ==
  ASSUME Typed, NEW i \in Inums, NEW j, ivalid' = Loaded(i, j), inode'[i].type # "free"
  PROVE  ValidKept /\ ivalid' \in [Inums -> BOOLEAN] /\ ivalid'[i]
<1>1. ivalid \in [Inums -> BOOLEAN]
  BY DEF Typed
<1>2. /\ ivalid' \in [Inums -> BOOLEAN]
      /\ \A k \in Inums : ivalid'[k] = IF k = i THEN TRUE ELSE IF k = j /\ iref[k] = 0 THEN FALSE ELSE ivalid[k]
  BY <1>1 DEF Loaded
<1>3. \A x \in Inums : iref[x] > 0 => iref[x] # 0
  BY DEF Typed
<1>4. ASSUME NEW x \in Inums
      PROVE  /\ ivalid[x] /\ iref[x] > 0 => ivalid'[x]
             /\ ivalid'[x] /\ ~ivalid[x] => inode'[x].type # "free"
  BY <1>2, <1>3, Zenon
<1>5. ivalid'[i]
  BY <1>2, Zenon
<1> QED  BY <1>2, <1>4, <1>5, Zenon DEF ValidKept

LEMMA LocksQuiet ==
  ASSUME Typed, Counted, Locked, NEW p \in Procs, ilocked' = ilocked, ValidKept, NodesKept(p),
         \A x \in Inums : HasLocked(p, x)' <=> HasLocked(p, x)
  PROVE  LocksMoved(p)
<1> SUFFICES ASSUME NEW x \in Inums
             PROVE  /\ ilocked'[x] = p <=> HasLocked(p, x)'
                    /\ ilocked'[x] = p => ivalid'[x] /\ inode'[x].type # "free"
                    /\ ilocked'[x] # ilocked[x] => ilocked[x] \in {Unlocked, p} /\ ilocked'[x] \in {Unlocked, p}
  BY DEF LocksMoved
<1>1. ilocked'[x] = p <=> HasLocked(p, x)'
  BY DEF Locked
<1>2. ASSUME ilocked[x] = p PROVE ivalid'[x] /\ inode'[x].type # "free"
  <2>1. iref[x] > 0 /\ ivalid[x] /\ inode[x].type # "free"
    BY <1>2, LockedPointed
  <2> QED  BY <2>1 DEF ValidKept, NodesKept
<1> QED  BY <1>1, <1>2

LEMMA PendingFinite == \A i \in Inums : IsFiniteSet(Pending(i)) /\ Cardinality(Pending(i)) \in Nat
<1>1. ASSUME NEW i \in Inums PROVE IsFiniteSet(Pending(i))
  <2>1. Pending(i) \subseteq Procs /\ IsFiniteSet(Procs)
    BY InodesFinite DEF Pending
  <2> QED  BY <2>1, FS_Subset
<1> QED  BY <1>1, FS_CardinalityType

LEMMA InumsForward == IsFiniteSet(Inums \X Forward)
<1>1. IsFiniteSet(Inums)
  <2>1. \A a, b \in Int : IsFiniteSet(a..b)
    BY FS_Interval
  <2>2. 1 \in Int /\ NINODES \in Int
    BY NoInum
  <2>3. IsFiniteSet(1..NINODES)
    BY <2>1, <2>2, Zenon
  <2> QED  BY <2>3 DEF Inums
<1>2. IsFiniteSet(Forward)
  <2>1. IsFiniteSet(DNames)
    BY InodesFinite
  <2>2. Forward \subseteq DNames \cup {"."}
    BY DEF Forward, DEntries
  <2>3. IsFiniteSet(DNames \cup {"."})
    BY <2>1, FS_AddElement
  <2> QED  BY <2>2, <2>3, FS_Subset
<1> QED  BY <1>1, <1>2, FS_Product

LEMMA LinksFinite == \A i \in Inums : IsFiniteSet(LinksOf(inode, i)) /\ Cardinality(LinksOf(inode, i)) \in Nat
<1>2. ASSUME NEW i \in Inums PROVE IsFiniteSet(LinksOf(inode, i))
  <2>1. LinksOf(inode, i) \subseteq Inums \X Forward
    BY DEF LinksOf
  <2> QED  BY <2>1, InumsForward, FS_Subset
<1> QED  BY <1>2, FS_CardinalityType

\* No link is pending that was not.
PendingKept(p) ==
  loc'[p].old \in {None, loc[p].old} /\ (loc'[p].pc = "unlinked" => loc[p].pc = "unlinked" /\ loc'[p].ip = loc[p].ip)

LEMMA PendingLess ==
  ASSUME NEW p \in Procs, Others(p), PendingKept(p)
  PROVE  \A i \in Inums : Pending(i)' \subseteq Pending(i) /\ Cardinality(Pending(i)') <= Cardinality(Pending(i))
                          /\ Cardinality(Pending(i)') \in Nat /\ Cardinality(Pending(i)) \in Nat
<1> SUFFICES ASSUME NEW i \in Inums
             PROVE  Pending(i)' \subseteq Pending(i) /\ Cardinality(Pending(i)') <= Cardinality(Pending(i))
                    /\ Cardinality(Pending(i)') \in Nat /\ Cardinality(Pending(i)) \in Nat
  OBVIOUS
<1>1. Pending(i)' \subseteq Pending(i)
  BY NoInum DEF Pending, Others, PendingKept
<1>2. IsFiniteSet(Pending(i))
  BY PendingFinite
<1> QED  BY <1>1, <1>2, FS_Subset, FS_CardinalityType

\* A step that changes neither an inode nor a lock.
LEMMA QuietStep ==
  ASSUME IInv, NEW p \in Procs, NEW g, Typed', Moves(p, g), ValidKept, inode' = inode, ilocked' = ilocked,
         \A x \in Inums : HasLocked(p, x)' <=> HasLocked(p, x),
         LocalsMoved(p), PendingKept(p), ipanic' = "none"
  PROVE  IInv'
<1>1. NodesKept(p)
  BY DEF NodesKept
<1>2. Typed /\ Counted /\ Locked /\ Covered /\ OneTree /\ Others(p)
  BY DEF IInv, Moves
<1>3. LocksMoved(p)
  BY <1>1, <1>2, LocksQuiet
<1>4. OneTree'
  BY <1>2 DEF OneTree
<1>5. Covered'
  <2> SUFFICES ASSUME NEW i \in Inums
               PROVE  inode'[i].nlink >= Cardinality(LinksOf(inode', i)) + Cardinality(Pending(i)') + Base(i)
    BY DEF Covered
  <2>1. inode[i].nlink >= Cardinality(LinksOf(inode, i)) + Cardinality(Pending(i)) + Base(i)
    BY <1>2 DEF Covered
  <2>2. Cardinality(LinksOf(inode, i)) \in Nat /\ Base(i) \in Nat /\ inode[i].nlink \in Nat
    BY <1>2, LinksFinite DEF Base, Typed, Node
  <2>3. /\ Cardinality(Pending(i)') <= Cardinality(Pending(i))
        /\ Cardinality(Pending(i)') \in Nat /\ Cardinality(Pending(i)) \in Nat
    BY <1>2, PendingLess
  <2>4. LinksOf(inode', i) = LinksOf(inode, i)
    OBVIOUS
  <2> QED  BY <2>1, <2>2, <2>3, <2>4
<1> QED  BY <1>1, <1>3, <1>4, <1>5, MoveStep

\* What is known of p before it does something besides iput().
LEMMA AtFacts ==
  ASSUME IInv, NEW p \in Procs, NEW pc, At(p, pc)
  PROVE  /\ loc[p] \in Locals /\ Shape(loc[p]) /\ KnownAt(p)
         /\ loc[p].pc = pc /\ loc[p].puts = <<>> /\ loc[p].dropping = FALSE /\ ipanic = "none"
         /\ Live(cwd[p]) /\ Live(opened[p]) /\ Live(loc[p].dp) /\ Live(loc[p].old)
         /\ cwd[p] \in Inums
         /\ \A i \in Inums : Refs(p, i) = Five(p, i)
<1>1. Typed /\ Shaped /\ Known /\ Alive
  BY DEF IInv
<1>2. loc[p] \in Locals /\ Shape(loc[p]) /\ KnownAt(p) /\ AliveAt(p) /\ cwd[p] \in Inums
  BY <1>1 DEF Typed, Shaped, Known, Alive
<1>3. loc[p].pc = pc /\ loc[p].puts = <<>> /\ ipanic = "none"
  BY DEF At
<1>4. loc[p].dropping = FALSE
  BY <1>2, <1>3 DEF Shape, Locals
<1>5. Live(cwd[p]) /\ Live(opened[p]) /\ Live(loc[p].dp) /\ Live(loc[p].old)
  BY <1>2, AliveFormAlways DEF AliveForm
<1>6. \A i \in Inums : Refs(p, i) = Five(p, i)
  BY <1>3, RefsFormAlways, PutsBIs DEF RefsForm, Five, B
<1> QED  BY <1>2, <1>3, <1>4, <1>5, <1>6

\* p takes a pointer to g and goes on with the locals r: every pointer it had and
\* the new one are still there.
Balance(p, r, g) ==
  \A i \in Inums :
    B(cwd'[p], i) + B(opened'[p], i) + B(r.ip, i) + B(r.dp, i) + B(r.old, i) + PutsB(r.puts, i)
      = Five(p, i) + B(g, i)

\* None of the pointers is to a free inode, but for the one that ".." gave.
LiveLocals(p, r) ==
  /\ Live(cwd[p])' /\ Live(opened[p])'
  /\ r.dp # None => inode'[r.dp].type # "free"
  /\ r.old # None => inode'[r.old].type # "free"
  /\ r.ip # None => \/ inode'[r.ip].type # "free"
                    \/ r.name = ".." /\ r.pc \in {"walk", "last", "exists"}
  /\ Len(r.puts) = 2 => inode'[r.puts[2]].type # "free"

LEMMA Got0 ==
  ASSUME Typed
  PROVE  Got(None) = iref /\ \A j : Got(j) \in [Inums -> Nat]
BY NoInum DEF Typed, Got

LEMMA GenMove ==
  ASSUME IInv, NEW p \in Procs, NEW pc, At(p, pc), NEW g, NEW r,
         Set(p, r), r \in Locals, Shape(r), r.dropping = FALSE,
         iref' = Got(g), raced' = raced, ipanic' = ipanic,
         ValidKept, ivalid' \in [Inums -> BOOLEAN],
         inode' \in [Inums -> Node], ilocked' \in [Inums -> Procs \cup {Unlocked}],
         cwd' \in [Procs -> Inums], opened' \in [Procs -> 0..NINODES],
         \A q \in Procs \ {p} : cwd'[q] = cwd[q] /\ opened'[q] = opened[q],
         Balance(p, r, g), LiveLocals(p, r), KnownAt(p)',
         NodesKept(p),
         LocksMoved(p), Covered', OneTree'
  PROVE  IInv'
<1>1. Typed
  BY DEF IInv
<1>2. loc' \in [Procs -> Locals] /\ loc'[p] = r /\ \A q \in Procs \ {p} : loc'[q] = loc[q]
  BY <1>1, SetLocals
<1>3. Typed'
  BY <1>1, <1>2, Got0 DEF Typed
<1>4. Others(p)
  BY <1>2 DEF Others
<1>5. Moves(p, g)
  <2>1. ASSUME NEW i \in Inums PROVE Refs(p, i)' = Refs(p, i) + B(g, i)
    <3>1. RefsForm'
      BY RefsFormAlways, PTL
    <3>2. Refs(p, i)' = B(cwd'[p], i) + B(opened'[p], i) + B(r.ip, i) + B(r.dp, i) + B(r.old, i) + PutsB(r.puts, i)
      BY <1>2, <3>1 DEF RefsForm, Five
    <3>3. Refs(p, i) = Five(p, i)
      BY AtFacts
    <3> QED  BY <3>2, <3>3 DEF Balance
  <2>2. ~loc[p].dropping /\ ~loc'[p].dropping
    BY <1>2, AtFacts
  <2> QED  BY <1>4, <2>1, <2>2 DEF Moves
<1>6. AliveAt(p)'
  <2>1. AliveForm'
    BY AliveFormAlways, PTL
  <2>2. /\ Live(r.dp)' /\ Live(r.old)'
        /\ Live(r.ip)' \/ (r.name = ".." /\ r.pc \in {"walk", "last", "exists"})
    BY DEF LiveLocals, Live
  <2>3. Live(ToPut(p, 2))'
    <3>1. ToPut(p, 2)' = IF 2 <= Len(r.puts) THEN r.puts[2] ELSE None
      BY <1>2 DEF ToPut
    <3>2. Len(r.puts) <= 2 /\ Len(r.puts) \in Nat
      BY LenProperties DEF Shape, Locals
    <3>3. CASE Len(r.puts) = 2
      <4>1. ToPut(p, 2)' = r.puts[2]
        BY <3>1, <3>3
      <4>2. inode'[r.puts[2]].type # "free"
        BY <3>3 DEF LiveLocals
      <4> QED  BY <4>1, <4>2 DEF Live
    <3>4. CASE Len(r.puts) # 2
      <4>0. ~(2 <= Len(r.puts))
        <5>1. \A n \in Nat : n <= 2 /\ n # 2 => ~(2 <= n)
          OBVIOUS
        <5> QED  BY <3>2, <3>4, <5>1, Zenon
      <4>1. ToPut(p, 2)' = None
        BY <3>1, <4>0
      <4> QED  BY <4>1 DEF Live
    <3> QED  BY <3>3, <3>4
  <2>4. Live(cwd[p])' /\ Live(opened[p])'
    BY DEF LiveLocals
  <2>5. AliveAt(p)' <=>
      /\ Live(cwd[p])' /\ Live(opened[p])' /\ Live(loc[p].dp)' /\ Live(loc[p].old)' /\ Live(ToPut(p, 2))'
      /\ Live(loc[p].ip)' \/ (loc'[p].name = ".." /\ loc'[p].pc \in {"walk", "last", "exists"})
    BY <2>1 DEF AliveForm
  <2>6. Live(loc[p].dp)' /\ Live(loc[p].old)' /\ (Live(loc[p].ip)' \/ (loc'[p].name = ".." /\ loc'[p].pc \in {"walk", "last", "exists"}))
    BY <1>2, <2>2 DEF Live
  <2> QED  BY <2>3, <2>4, <2>5, <2>6, Zenon
<1>7. LocalsMoved(p)
  BY <1>2, <1>6 DEF LocalsMoved
<1>8. ipanic' = "none"
  BY AtFacts
<1> QED  BY <1>3, <1>5, <1>7, <1>8, MoveStep

\* A step that leaves the inodes and the locks alone.
LEMMA QuietMove ==
  ASSUME IInv, NEW p \in Procs, NEW pc, At(p, pc), NEW g, NEW r,
         Set(p, r), r \in Locals, Shape(r), r.dropping = FALSE,
         iref' = Got(g), UNCHANGED <<inode, ilocked, raced, ipanic>>,
         ValidKept, ivalid' \in [Inums -> BOOLEAN],
         cwd' \in [Procs -> Inums], opened' \in [Procs -> 0..NINODES],
         \A q \in Procs \ {p} : cwd'[q] = cwd[q] /\ opened'[q] = opened[q],
         Balance(p, r, g), LiveLocals(p, r),
         pc \notin {"unlink", "unlock", "made", "unlinked"},
         r.pc \notin {"unlink", "unlock", "made", "unlinked"},
         r.pc = "parent" => inode[r.dp].type = "dir",
         r.old \in {None, loc[p].old},
         r.call.name \in {"open", "open_target", "create"} => opened'[p] = None
  PROVE  IInv'
<1>0. inode' = inode /\ ilocked' = ilocked /\ raced' = raced /\ ipanic' = ipanic
  OBVIOUS
<1>1. Typed /\ Counted /\ Locked /\ Covered /\ OneTree
  BY DEF IInv
<1>2. loc' \in [Procs -> Locals] /\ loc'[p] = r /\ \A q \in Procs \ {p} : loc'[q] = loc[q]
  BY <1>1, SetLocals
<1>3. NodesKept(p)
  BY <1>0 DEF NodesKept
<1>4. loc[p].pc = pc /\ KnownAt(p)
  BY AtFacts
<1>5. LocksMoved(p)
  <2>1. \A x \in Inums : HasLocked(p, x)' <=> HasLocked(p, x)
    BY <1>2, <1>4 DEF HasLocked
  <2> QED  BY <1>0, <1>1, <1>3, <2>1, LocksQuiet
<1>6. KnownAt(p)'
  BY <1>0, <1>2, <1>4 DEF KnownAt
<1>7. OneTree'
  BY <1>0, <1>1 DEF OneTree
<1>8. Covered'
  <2> SUFFICES ASSUME NEW i \in Inums
               PROVE  inode'[i].nlink >= Cardinality(LinksOf(inode', i)) + Cardinality(Pending(i)') + Base(i)
    BY DEF Covered
  <2>1. inode[i].nlink >= Cardinality(LinksOf(inode, i)) + Cardinality(Pending(i)) + Base(i)
    BY <1>1 DEF Covered
  <2>2. Cardinality(LinksOf(inode, i)) \in Nat /\ Base(i) \in Nat /\ inode[i].nlink \in Nat
    BY <1>1, LinksFinite DEF Base, Typed, Node
  <2>3. PendingKept(p) /\ Others(p)
    BY <1>2, <1>4 DEF PendingKept, Others
  <2>4. /\ Cardinality(Pending(i)') <= Cardinality(Pending(i))
        /\ Cardinality(Pending(i)') \in Nat /\ Cardinality(Pending(i)) \in Nat
    BY <2>3, PendingLess
  <2>5. LinksOf(inode', i) = LinksOf(inode, i)
    BY <1>0
  <2> QED  BY <2>1, <2>2, <2>4, <2>5
<1>9. inode' \in [Inums -> Node] /\ ilocked' \in [Inums -> Procs \cup {Unlocked}]
  BY <1>0, <1>1 DEF Typed
<1> QED  BY <1>0, <1>3, <1>5, <1>6, <1>7, <1>8, <1>9, GenMove

LEMMA StartCallStep ==
  ASSUME IInv, NEW p \in Procs, NEW c \in Calls, StartCall(p, c)
  PROVE  IInv'
<1> DEFINE g == Origin(p, c.path)
           l == [NoLocals EXCEPT !.call = c]
           r == Entered(l, Rest(c.path), g)
<1>1. At(p, "idle")
  BY DEF StartCall
<1>2. Typed
  BY DEF IInv
<1>3. c \in NameCalls
  BY InodesInputs
<1>4. g \in Inums /\ Live(g)
  <2>1. inode[Root].type = "dir"
    BY DEF IInv, OneTree, EntriesOfDirs
  <2> QED  BY <1>1, <2>1, AtFacts, NoInum DEF Origin, Live
<1>5. l \in Locals /\ Is(l, "idle", None, None, None, <<>>) /\ l.call = c /\ c.name # "link_new" /\ Len(l.puts) <= 2
  BY <1>3, NoLocalsIs, ToPutSeqs DEF Locals, NameCalls, CallNames, Is
<1>6. Rest(c.path) \in Seq(DEntries)
  BY <1>3, RestTyped DEF NameCalls
<1>7. /\ r \in Locals /\ Shape(r) /\ r.call.name \in {c.name, "none"}
      /\ Is(r, "last", g, None, None, <<>>) \/ Is(r, "walk", g, None, None, <<>>) \/ Is(r, "idle", None, None, None, <<g>>)
  <2> HIDE DEF l, g
  <2>1. Is(l, l.pc, l.ip, None, l.old, l.puts) /\ l.old = None /\ l.puts = <<>>
    BY <1>5 DEF Is
  <2>2. l.old # None <=> l.call.name = "link_new"
    BY <1>5, <2>1
  <2> QED  BY <1>4, <1>5, <1>6, <2>1, <2>2, EnteredIs
<1>8. /\ Set(p, r) /\ iref' = Got(g)
      /\ ivalid' = [ivalid EXCEPT ![g] = iref[g] > 0 /\ @]
      /\ UNCHANGED <<inode, ilocked, cwd, opened, raced, ipanic>>
  BY DEF StartCall
<1> HIDE DEF r, l, g
<1>9. ivalid' \in [Inums -> BOOLEAN] /\ ValidKept
  BY <1>2, <1>8 DEF Typed, ValidKept
<1>0. /\ loc[p].ip = None /\ loc[p].dp = None /\ loc[p].old = None
      /\ Live(cwd[p]) /\ Live(opened[p])
  <2>1. Shape(loc[p]) /\ loc[p].pc = "idle" /\ Live(cwd[p]) /\ Live(opened[p])
    BY <1>1, AtFacts
  <2> QED  BY <2>1 DEF Shape
<1>10. Balance(p, r, g)
  <2> SUFFICES ASSUME NEW i \in Inums
               PROVE  B(cwd[p], i) + B(opened[p], i) + B(r.ip, i) + B(r.dp, i) + B(r.old, i) + PutsB(r.puts, i)
                        = Five(p, i) + B(g, i)
    BY <1>8 DEF Balance
  <2>1. \/ r.ip = g /\ r.dp = None /\ r.old = None /\ PutsB(r.puts, i) = 0
        \/ r.ip = None /\ r.dp = None /\ r.old = None /\ PutsB(r.puts, i) = B(g, i)
    BY <1>7, PutsBIs DEF Is
  <2> QED  BY <1>0, <2>1, NoInum DEF Five, B
<1>11. LiveLocals(p, r)
  <2>1. r.ip \in {None, g} /\ r.dp = None /\ r.old = None /\ r.puts \in {<<>>, <<g>>}
    BY <1>7 DEF Is
  <2>2. Len(r.puts) # 2
    <3>1. Len(<<>>) # 2 /\ Len(<<g>>) # 2
      OBVIOUS
    <3> QED BY <2>1, <3>1, Zenon
  <2>3. g # None /\ inode[g].type # "free"
    BY <1>4, NoInum DEF Live
  <2>4. Live(cwd[p])' /\ Live(opened[p])'
    BY <1>0, <1>8 DEF Live
  <2> QED  BY <1>8, <2>1, <2>2, <2>3, <2>4 DEF LiveLocals
<1>12. /\ cwd' \in [Procs -> Inums] /\ opened' \in [Procs -> 0..NINODES]
       /\ \A q \in Procs \ {p} : cwd'[q] = cwd[q] /\ opened'[q] = opened[q]
       /\ UNCHANGED <<inode, ilocked, raced, ipanic>>
  BY <1>2, <1>8 DEF Typed
<1>13. /\ r.dropping = FALSE /\ r.pc \notin {"unlink", "unlock", "made", "unlinked"}
       /\ (r.pc = "parent" => inode[r.dp].type = "dir") /\ r.old \in {None, loc[p].old}
       /\ (r.call.name \in {"open", "open_target", "create"} => opened'[p] = None)
  <2>1. c.name # "open_target"
    BY <1>3 DEF NameCalls
  <2>2. c.name \in {"open", "create"} => opened[p] = None
    BY DEF StartCall
  <2> QED  BY <1>7, <1>8, <2>1, <2>2 DEF Is
<1>14. "idle" \notin {"unlink", "unlock", "made", "unlinked"}
  OBVIOUS
<1> QED  BY <1>1, <1>7, <1>8, <1>9, <1>10, <1>11, <1>12, <1>13, <1>14, QuietMove

LEMMA CloseFileStep ==
  ASSUME IInv, NEW p \in Procs, CloseFile(p)
  PROVE  IInv'
<1> DEFINE f == opened[p]
           r == Done(<<f>>)
<1>1. At(p, "idle")
  BY DEF CloseFile
<1>2. Typed
  BY DEF IInv
<1>3. /\ opened' = [opened EXCEPT ![p] = None] /\ Set(p, r) /\ f # None
      /\ UNCHANGED <<inode, iref, ivalid, ilocked, cwd, raced, ipanic>>
  BY DEF CloseFile
<1>4. f \in Inums
  BY <1>2, <1>3, NoInum DEF Typed
<1>5. r \in Locals /\ Shape(r) /\ Is(r, "idle", None, None, None, <<f>>) /\ r.call.name = "none"
  BY <1>4, ToPutSeqs, DoneIs
<1> HIDE DEF r, f
<1>6. /\ loc[p].ip = None /\ loc[p].dp = None /\ loc[p].old = None
      /\ Live(cwd[p])
  <2>1. Shape(loc[p]) /\ loc[p].pc = "idle" /\ Live(cwd[p])
    BY <1>1, AtFacts
  <2> QED  BY <2>1 DEF Shape
<1>7. opened' \in [Procs -> 0..NINODES] /\ opened'[p] = None /\ \A q \in Procs \ {p} : opened'[q] = opened[q]
  BY <1>2, <1>3, NoInum DEF Typed
<1>8. Balance(p, r, None)
  <2> SUFFICES ASSUME NEW i \in Inums
               PROVE  B(cwd'[p], i) + B(opened'[p], i) + B(r.ip, i) + B(r.dp, i) + B(r.old, i) + PutsB(r.puts, i)
                        = Five(p, i) + B(None, i)
    BY DEF Balance
  <2>1. r.ip = None /\ r.dp = None /\ r.old = None /\ PutsB(r.puts, i) = B(f, i)
    BY <1>5, PutsBIs DEF Is
  <2>2. cwd' = cwd /\ f = opened[p] /\ i # None
    BY <1>3, NoInum DEF f
  <2> QED  BY <1>6, <1>7, <2>1, <2>2 DEF Five, B
<1>9. LiveLocals(p, r)
  <2>1. r.ip = None /\ r.dp = None /\ r.old = None /\ r.puts = <<f>>
    BY <1>5 DEF Is
  <2>2. Live(cwd[p])' /\ Live(opened[p])'
    BY <1>3, <1>6, <1>7 DEF Live
  <2> QED  BY <2>1, <2>2 DEF LiveLocals
<1>10. /\ cwd' \in [Procs -> Inums] /\ \A q \in Procs \ {p} : cwd'[q] = cwd[q] /\ opened'[q] = opened[q]
       /\ UNCHANGED <<inode, ilocked, raced, ipanic>>
       /\ iref' = Got(None) /\ ivalid' \in [Inums -> BOOLEAN] /\ ValidKept
  BY <1>2, <1>3, <1>7, Got0 DEF Typed, ValidKept
<1>11. /\ r.dropping = FALSE /\ r.pc \notin {"unlink", "unlock", "made", "unlinked"}
       /\ (r.pc = "parent" => inode[r.dp].type = "dir") /\ r.old \in {None, loc[p].old}
       /\ (r.call.name \in {"open", "open_target", "create"} => opened'[p] = None)
  BY <1>5 DEF Is
<1>12. "idle" \notin {"unlink", "unlock", "made", "unlinked"}
  OBVIOUS
<1> QED  BY <1>1, <1>3, <1>5, <1>7, <1>8, <1>9, <1>10, <1>11, <1>12, QuietMove

\* An entry other than ".." names an inode in use.
LEMMA EntryLive ==
  ASSUME IInv, NEW d \in Inums, inode[d].type # "free", NEW n \in DEntries, inode[d].ent[n] # None
  PROVE  inode[d].ent[n] \in Inums /\ (n # ".." => inode[inode[d].ent[n]].type # "free")
<1> DEFINE x == inode[d].ent[n]
<1>1. Typed /\ Covered /\ OneTree
  BY DEF IInv
<1>2. x \in Inums
  <2>1. inode[d] \in Node
    BY <1>1 DEF Typed
  <2> QED  BY <2>1, NoInum DEF Node
<1>3. ASSUME n # "..", x # d, inode[x].type = "free" PROVE FALSE
  <2>1. <<d, n>> \in LinksOf(inode, x)
    BY <1>2, <1>3 DEF LinksOf, Forward
  <2>2. Cardinality(LinksOf(inode, x)) > 0
    <3>1. IsFiniteSet(LinksOf(inode, x)) /\ Cardinality(LinksOf(inode, x)) \in Nat
      BY <1>2, LinksFinite
    <3>2. Cardinality(LinksOf(inode, x)) # 0
      BY <2>1, <3>1, FS_EmptySet
    <3> QED  BY <3>1, <3>2
  <2>3. inode[x].nlink = 0
    BY <1>1, <1>2, <1>3 DEF OneTree, EntriesOfDirs, FreeInode
  <2>4. inode[x].nlink >= Cardinality(LinksOf(inode, x)) + Cardinality(Pending(x)) + Base(x)
    BY <1>1, <1>2 DEF Covered
  <2>5. Cardinality(Pending(x)) \in Nat /\ Base(x) \in Nat /\ Cardinality(LinksOf(inode, x)) \in Nat
    BY <1>2, PendingFinite, LinksFinite DEF Base
  <2> QED  BY <2>2, <2>3, <2>4, <2>5
<1> QED  BY <1>2, <1>3

LEMMA Walk1Step ==
  ASSUME IInv, NEW p \in Procs, Walk1(p)
  PROVE  IInv'
<1> DEFINE i == loc[p].ip
           n == Head(loc[p].path)
           old == loc[p].old
           parent == WantsParent(loc[p].call) /\ Len(loc[p].path) = 1
           next == IF inode[i].type = "dir" /\ ~parent THEN inode[i].ent[n] ELSE None
           r1 == [loc[p] EXCEPT !.pc = "parent", !.path = <<>>, !.name = n, !.ip = None, !.dp = i]
           r2 == Failed(old, <<i>>)
           r3 == [loc[p] EXCEPT !.pc = IF Len(loc[p].path) = 1 THEN "last" ELSE "walk",
                                !.path = Tail(@), !.name = n, !.ip = next, !.puts = <<i>>]
<1>1. At(p, "walk") /\ CanLock(i)
  BY DEF Walk1
<1>2. Typed
  BY DEF IInv
<1>3. /\ iref' = Got(next) /\ ivalid' = Loaded(i, next)
      /\ UNCHANGED <<inode, ilocked, cwd, opened, raced, nameCalls, ipanic>>
  BY DEF Walk1
<1>4. PICK r \in {r1, r2, r3} :
        /\ Set(p, r)
        /\ \/ r = r1 /\ inode[i].type = "dir" /\ parent
           \/ r = r2 /\ next = None
           \/ r = r3 /\ next # None
  BY DEF Walk1
<1>5. /\ loc[p] \in Locals /\ Shape(loc[p]) /\ loc[p].pc = "walk" /\ loc[p].puts = <<>> /\ loc[p].dropping = FALSE
      /\ Live(cwd[p]) /\ Live(opened[p]) /\ Live(old)
  BY <1>1, AtFacts
<1>6. /\ i \in Inums /\ inode[i].type # "free" /\ loc[p].dp = None /\ loc[p].path # <<>>
      /\ (old # None <=> loc[p].call.name = "link_new") /\ old \in 0..NINODES
  BY <1>1, <1>5, NoInum DEF Shape, CanLock, Locals
<1>7. n \in DEntries /\ Tail(loc[p].path) \in Seq(DEntries) /\ (Len(loc[p].path) # 1 => Tail(loc[p].path) # <<>>)
  <2>1. loc[p].path \in Seq(DEntries)
    BY <1>5 DEF Locals
  <2>2. /\ n \in DEntries /\ Tail(loc[p].path) \in Seq(DEntries)
        /\ Len(Tail(loc[p].path)) = Len(loc[p].path) - 1 /\ Len(loc[p].path) \in Nat
    BY <1>6, <2>1, HeadTailProperties, LenProperties
  <2>3. Len(loc[p].path) # 1 => Len(Tail(loc[p].path)) # 0
    BY <2>2
  <2>4. Len(<<>>) = 0
    BY EmptySeq
  <2>5. Len(loc[p].path) # 1 => Tail(loc[p].path) # <<>>
    BY <2>3, <2>4
  <2> QED  BY <2>2, <2>5
<1>8. next # None => next \in Inums /\ (inode[next].type # "free" \/ n = "..") /\ ~parent
  BY <1>6, <1>7, EntryLive
<1>9. ValidKept /\ ivalid' \in [Inums -> BOOLEAN]
  BY <1>2, <1>3, <1>6, LoadedKept
<1>10. /\ r \in Locals /\ Shape(r) /\ r.call.name \in {loc[p].call.name, "none"}
       /\ \/ /\ Is(r, "parent", None, i, old, <<>>) /\ next = None /\ inode[i].type = "dir"
          \/ /\ next = None /\ Is(r, IF old = None THEN "idle" ELSE "undo", None, None, old, <<i>>)
          \/ /\ next # None /\ r.name = n
             /\ Is(r, "last", next, None, old, <<i>>) \/ Is(r, "walk", next, None, old, <<i>>)
  <2>1. CASE r = r1 /\ inode[i].type = "dir" /\ parent
    <3>1. r \in Locals
      <4>1. <<>> \in Seq(DEntries) /\ i \in 0..NINODES /\ None \in 0..NINODES
        BY <1>6, NoInum, EmptySeq
      <4> HIDE DEF i, n
      <4> QED  BY <1>5, <1>7, <2>1, <4>1 DEF Locals
    <3>2. Is(r, "parent", None, i, old, <<>>) /\ r.name = n /\ r.call = loc[p].call
      BY <1>5, <2>1 DEF Locals, Is
    <3>3. Shape(r)
      BY <1>6, <1>7, <3>1, <3>2, NoInum DEF Is, Shape
    <3> QED  BY <2>1, <3>1, <3>2, <3>3
  <2>2. CASE r = r2 /\ next = None
    <3> HIDE DEF i, old, next
    <3>1. <<i>> \in Seq(Inums) /\ Len(<<i>>) <= 2
      BY <1>6, ToPutSeqs
    <3>2. /\ Failed(old, <<i>>) \in Locals /\ Shape(Failed(old, <<i>>))
          /\ Is(Failed(old, <<i>>), IF old = None THEN "idle" ELSE "undo", None, None, old, <<i>>)
          /\ Failed(old, <<i>>).call.name = "none"
      BY <1>6, <3>1, FailedIs
    <3> QED  BY <2>2, <3>2
  <2>3. CASE r = r3 /\ next # None
    <3> HIDE DEF next, n
    <3>1. r \in Locals /\ r.name = n /\ r.call = loc[p].call /\ r.path = Tail(loc[p].path)
      BY <1>5, <1>6, <1>7, <1>8, <2>3, NoInum, ToPutSeqs DEF Locals
    <3>2. r.pc \in {"last", "walk"} /\ Is(r, r.pc, next, None, old, <<i>>) /\ (Len(loc[p].path) = 1 <=> r.pc = "last")
      BY <1>5, <1>6, <2>3 DEF Locals, Is
    <3>3. r.pc = "last" => old = None
      BY <1>6, <1>8, <2>3, <3>2 DEF WantsParent
    <3>4. Shape(r)
      BY <1>6, <1>7, <2>3, <3>1, <3>2, <3>3, NoInum, ToPutSeqs DEF Is, Shape
    <3> QED  BY <2>3, <3>1, <3>2, <3>4
  <2> QED  BY <1>4, <2>1, <2>2, <2>3
<1> HIDE DEF r1, r2, r3, next, n
<1>11. Balance(p, r, next)
  <2> SUFFICES ASSUME NEW x \in Inums
               PROVE  B(cwd[p], x) + B(opened[p], x) + B(r.ip, x) + B(r.dp, x) + B(r.old, x) + PutsB(r.puts, x)
                        = Five(p, x) + B(next, x)
    BY <1>3 DEF Balance
  <2>1. Five(p, x) = B(cwd[p], x) + B(opened[p], x) + B(i, x) + B(None, x) + B(old, x)
    BY <1>6 DEF Five
  <2>2. \/ r.ip = None /\ r.dp = i /\ r.old = old /\ PutsB(r.puts, x) = 0 /\ next = None
        \/ r.ip = next /\ r.dp = None /\ r.old = old /\ PutsB(r.puts, x) = B(i, x)
    BY <1>10, PutsBIs DEF Is
  <2> QED  BY <2>1, <2>2, NoInum DEF B
<1>12. LiveLocals(p, r)
  <2>1. /\ r.dp \in {None, i} /\ r.old = old /\ r.puts \in {<<>>, <<i>>}
        /\ r.ip # None => r.ip = next /\ r.name = n /\ r.pc \in {"last", "walk"} /\ next # None
    BY <1>10 DEF Is
  <2>2. Len(r.puts) # 2
    <3>1. Len(<<>>) # 2 /\ Len(<<i>>) # 2
      OBVIOUS
    <3> QED BY <2>1, <3>1, Zenon
  <2>3. Live(cwd[p])' /\ Live(opened[p])'
    BY <1>3, <1>5 DEF Live
  <2>4. r.ip # None => (inode[r.ip].type # "free" \/ r.name = "..") /\ r.pc \in {"walk", "last", "exists"}
    BY <1>8, <2>1
  <2>5. (r.dp # None => inode[r.dp].type # "free") /\ (r.old # None => inode[r.old].type # "free")
    BY <1>5, <1>6, <2>1 DEF Live
  <2> QED  BY <1>3, <2>2, <2>3, <2>4, <2>5 DEF LiveLocals
<1>13. /\ cwd' \in [Procs -> Inums] /\ opened' \in [Procs -> 0..NINODES]
       /\ \A q \in Procs \ {p} : cwd'[q] = cwd[q] /\ opened'[q] = opened[q]
       /\ UNCHANGED <<inode, ilocked, raced, ipanic>>
  BY <1>2, <1>3 DEF Typed
<1>14. /\ r.dropping = FALSE /\ r.pc \notin {"unlink", "unlock", "made", "unlinked"}
       /\ (r.pc = "parent" => inode[r.dp].type = "dir") /\ r.old \in {None, loc[p].old}
       /\ (r.call.name \in {"open", "open_target", "create"} => opened'[p] = None)
  <2>1. KnownAt(p)
    BY <1>1, AtFacts
  <2> QED  BY <1>3, <1>10, <2>1 DEF Is, KnownAt
<1>15. "walk" \notin {"unlink", "unlock", "made", "unlinked"}
  OBVIOUS
<1> QED  BY <1>1, <1>3, <1>4, <1>9, <1>10, <1>11, <1>12, <1>13, <1>14, <1>15, QuietMove

\* namex() is entered after the first part of a call, with old or to follow a
\* symbolic link.
LEMMA OpenLastStep ==
  ASSUME IInv, NEW p \in Procs, OpenLast(p)
  PROVE  IInv'
<1> DEFINE i == loc[p].ip
           follow == inode[i].type = "sym" /\ loc[p].call.name = "open"
           path == inode[i].target
           start == IF follow THEN Origin(p, path) ELSE None
           l == [loc[p] EXCEPT !.call.name = "open_target", !.puts = <<i>>]
           r1 == Entered(l, Rest(path), start)
           r2 == Done(<<i>>)
<1>1. At(p, "last") /\ CanLock(i) /\ loc[p].call.name \in {"open", "open_target"}
  BY DEF OpenLast
<1>2. Typed
  BY DEF IInv
<1>3. /\ iref' = Got(start) /\ ivalid' = Loaded(i, start)
      /\ UNCHANGED <<inode, ilocked, cwd, raced, nameCalls, ipanic>>
  BY DEF OpenLast
<1>4. PICK r :
        /\ Set(p, r)
        /\ \/ r = r1 /\ follow /\ opened' = opened
           \/ r = r2 /\ ~follow /\ opened' = opened
           \/ r = NoLocals /\ ~follow /\ opened' = [opened EXCEPT ![p] = i]
  BY DEF OpenLast
<1>5. /\ loc[p] \in Locals /\ Shape(loc[p]) /\ loc[p].pc = "last" /\ loc[p].puts = <<>> /\ loc[p].dropping = FALSE
      /\ Live(cwd[p]) /\ Live(opened[p]) /\ KnownAt(p) /\ cwd[p] \in Inums
  BY <1>1, AtFacts
<1>6. /\ i \in Inums /\ inode[i].type # "free" /\ loc[p].dp = None /\ loc[p].old = None
      /\ opened[p] = None
  BY <1>1, <1>5, NoInum DEF Shape, CanLock, Locals, KnownAt
<1>7. path \in Paths
  BY <1>2, <1>6 DEF Typed, Node
<1>8. follow => start \in Inums /\ inode[start].type # "free"
  <2>1. inode[Root].type = "dir"
    BY DEF IInv, OneTree, EntriesOfDirs
  <2> QED  BY <1>5, <2>1, NoInum DEF Origin, Live
<1>9. ValidKept /\ ivalid' \in [Inums -> BOOLEAN]
  BY <1>2, <1>3, <1>6, LoadedKept
<1>10. /\ r \in Locals /\ Shape(r) /\ r.call.name \in {"open_target", "none"}
       /\ \/ /\ follow /\ opened' = opened
             /\ Is(r, "last", start, None, None, <<i>>) \/ Is(r, "walk", start, None, None, <<i>>)
          \/ /\ ~follow /\ opened' = opened /\ Is(r, "idle", None, None, None, <<i>>) /\ r.call.name = "none"
          \/ /\ ~follow /\ opened' = [opened EXCEPT ![p] = i] /\ Is(r, "idle", None, None, None, <<>>) /\ r.call.name = "none"
  <2>0. <<i>> \in Seq(Inums) /\ Len(<<i>>) <= 2
    BY <1>6, ToPutSeqs
  <2>1. CASE r = r1 /\ follow /\ opened' = opened
    <3>1. l \in Locals /\ l.call.name = "open_target" /\ l.old = None /\ l.puts = <<i>> /\ l.dp = None /\ l.dropping = FALSE
      <4> HIDE DEF i
      <4> QED  BY <1>5, <1>6, <2>0 DEF Locals, CallNames
    <3>2. Rest(path) \in Seq(DEntries)
      BY <1>7, RestTyped
    <3>3. start \in Inums
      BY <1>8, <2>1
    <3> HIDE DEF l, start, i, path, follow
    <3>4. Is(l, l.pc, l.ip, None, l.old, l.puts) /\ Len(l.puts) <= 2 /\ (l.old # None <=> l.call.name = "link_new")
      BY <2>0, <3>1 DEF Is
    <3>5. ~WantsParent(l.call)
      BY <3>1 DEF WantsParent
    <3> QED  BY <2>1, <3>1, <3>2, <3>3, <3>4, <3>5, EnteredIs
  <2>2. CASE r = r2 /\ ~follow /\ opened' = opened
    <3> HIDE DEF i, follow
    <3> QED  BY <2>0, <2>2, DoneIs
  <2>3. CASE r = NoLocals /\ ~follow /\ opened' = [opened EXCEPT ![p] = i]
    BY <2>3, NoLocalsIs
  <2> QED  BY <1>4, <2>1, <2>2, <2>3
<1>11. ~follow => start = None
  OBVIOUS
<1> HIDE DEF r1, r2, l, start, path, follow
<1>12. /\ opened' \in [Procs -> 0..NINODES] /\ (opened'[p] # None => opened'[p] = i)
       /\ \A q \in Procs \ {p} : opened'[q] = opened[q]
  BY <1>2, <1>6, <1>10, NoInum DEF Typed
<1>13. Balance(p, r, start)
  <2> SUFFICES ASSUME NEW x \in Inums
               PROVE  B(cwd[p], x) + B(opened'[p], x) + B(r.ip, x) + B(r.dp, x) + B(r.old, x) + PutsB(r.puts, x)
                        = Five(p, x) + B(start, x)
    BY <1>3 DEF Balance
  <2>1. Five(p, x) = B(cwd[p], x) + B(None, x) + B(i, x) + B(None, x) + B(None, x)
    BY <1>6 DEF Five
  <2>2. r.dp = None /\ r.old = None
    BY <1>10 DEF Is
  <2>3. \/ opened'[p] = None /\ r.ip = start /\ PutsB(r.puts, x) = B(i, x)
        \/ opened'[p] = None /\ start = None /\ r.ip = None /\ PutsB(r.puts, x) = B(i, x)
        \/ opened'[p] = i /\ start = None /\ r.ip = None /\ PutsB(r.puts, x) = 0
    BY <1>2, <1>6, <1>10, <1>11, PutsBIs DEF Is, Typed
  <2> QED  BY <2>1, <2>2, <2>3, NoInum DEF B
<1>14. LiveLocals(p, r)
  <2>1. /\ r.dp = None /\ r.old = None /\ r.puts \in {<<>>, <<i>>}
        /\ r.ip # None => r.ip = start /\ follow
    BY <1>10 DEF Is
  <2>2. Len(r.puts) # 2
    <3>1. Len(<<>>) # 2 /\ Len(<<i>>) # 2
      OBVIOUS
    <3> QED BY <2>1, <3>1, Zenon
  <2>3. Live(cwd[p])' /\ Live(opened[p])'
    BY <1>3, <1>5, <1>6, <1>12 DEF Live
  <2> QED  BY <1>3, <1>8, <2>1, <2>2, <2>3 DEF LiveLocals
<1>15. /\ cwd' \in [Procs -> Inums]
       /\ \A q \in Procs \ {p} : cwd'[q] = cwd[q] /\ opened'[q] = opened[q]
       /\ UNCHANGED <<inode, ilocked, raced, ipanic>>
  BY <1>2, <1>3, <1>12 DEF Typed
<1>16. /\ r.dropping = FALSE /\ r.pc \notin {"unlink", "unlock", "made", "unlinked"}
       /\ (r.pc = "parent" => inode[r.dp].type = "dir") /\ r.old \in {None, loc[p].old}
       /\ (r.call.name \in {"open", "open_target", "create"} => opened'[p] = None)
  BY <1>6, <1>10 DEF Is
<1>17. "last" \notin {"unlink", "unlock", "made", "unlinked"}
  OBVIOUS
<1> QED  BY <1>1, <1>3, <1>4, <1>9, <1>10, <1>12, <1>13, <1>14, <1>15, <1>16, <1>17, QuietMove

LEMMA ChdirStep ==
  ASSUME IInv, NEW p \in Procs, Chdir(p)
  PROVE  IInv'
<1> DEFINE i == loc[p].ip
<1>1. At(p, "last") /\ CanLock(i)
  BY DEF Chdir
<1>2. Typed
  BY DEF IInv
<1>3. /\ ivalid' = Loaded(i, None)
      /\ UNCHANGED <<inode, iref, ilocked, opened, raced, nameCalls, ipanic>>
  BY DEF Chdir
<1>4. PICK x \in {i, cwd[p]} :
        /\ Set(p, Done(<<x>>))
        /\ \/ x = i /\ cwd' = cwd
           \/ x = cwd[p] /\ cwd' = [cwd EXCEPT ![p] = i]
  BY DEF Chdir
<1> DEFINE r == Done(<<x>>)
<1>5. /\ loc[p] \in Locals /\ Shape(loc[p]) /\ loc[p].pc = "last"
      /\ Live(cwd[p]) /\ Live(opened[p]) /\ cwd[p] \in Inums
  BY <1>1, AtFacts
<1>6. /\ i \in Inums /\ inode[i].type # "free" /\ loc[p].dp = None /\ loc[p].old = None
  BY <1>1, <1>5, NoInum DEF Shape, CanLock, Locals
<1>7. ValidKept /\ ivalid' \in [Inums -> BOOLEAN]
  BY <1>2, <1>3, <1>6, LoadedKept
<1>8. r \in Locals /\ Shape(r) /\ Is(r, "idle", None, None, None, <<x>>) /\ r.call.name = "none"
  <2>1. <<x>> \in Seq(Inums) /\ Len(<<x>>) <= 2
    BY <1>5, <1>6, ToPutSeqs
  <2> QED  BY <2>1, DoneIs
<1> HIDE DEF r
<1>9. cwd' \in [Procs -> Inums] /\ \A q \in Procs \ {p} : cwd'[q] = cwd[q]
  BY <1>2, <1>4, <1>6 DEF Typed
<1>10. (x = i /\ cwd'[p] = cwd[p]) \/ (x = cwd[p] /\ cwd'[p] = i)
  BY <1>2, <1>4 DEF Typed
<1>11. Balance(p, r, None)
  <2> SUFFICES ASSUME NEW y \in Inums
               PROVE  B(cwd'[p], y) + B(opened[p], y) + B(r.ip, y) + B(r.dp, y) + B(r.old, y) + PutsB(r.puts, y)
                        = Five(p, y) + B(None, y)
    BY <1>3 DEF Balance
  <2>1. Five(p, y) = B(cwd[p], y) + B(opened[p], y) + B(i, y) + B(None, y) + B(None, y)
    BY <1>6 DEF Five
  <2>2. r.ip = None /\ r.dp = None /\ r.old = None /\ PutsB(r.puts, y) = B(x, y)
    BY <1>8, PutsBIs DEF Is
  <2> QED  BY <1>10, <2>1, <2>2, NoInum DEF B
<1>12. LiveLocals(p, r)
  <2>1. r.ip = None /\ r.dp = None /\ r.old = None /\ r.puts = <<x>>
    BY <1>8 DEF Is
  <2>2. Live(cwd[p])' /\ Live(opened[p])'
    BY <1>3, <1>5, <1>6, <1>10 DEF Live
  <2> QED  BY <2>1, <2>2 DEF LiveLocals
<1>13. /\ opened' \in [Procs -> 0..NINODES] /\ iref' = Got(None)
       /\ \A q \in Procs \ {p} : cwd'[q] = cwd[q] /\ opened'[q] = opened[q]
       /\ UNCHANGED <<inode, ilocked, raced, ipanic>>
  BY <1>2, <1>3, <1>9, Got0 DEF Typed
<1>14. /\ r.dropping = FALSE /\ r.pc \notin {"unlink", "unlock", "made", "unlinked"}
       /\ (r.pc = "parent" => inode[r.dp].type = "dir") /\ r.old \in {None, loc[p].old}
       /\ (r.call.name \in {"open", "open_target", "create"} => opened'[p] = None)
  BY <1>8 DEF Is
<1>15. "last" \notin {"unlink", "unlock", "made", "unlinked"} /\ Set(p, r)
  BY <1>4 DEF r
<1> QED  BY <1>1, <1>7, <1>8, <1>9, <1>11, <1>12, <1>13, <1>14, <1>15, QuietMove

-----------------------------------------------------------------------------
\* Counting links: a step changes what one process has pending, and one entry.

PB(p, x) == IF loc[p].old = x \/ (loc[p].pc = "unlinked" /\ loc[p].ip = x) THEN 1 ELSE 0
PendingSplit ==
  \A p \in Procs, x \in Inums :
    /\ IsFiniteSet(Pending(x) \ {p}) /\ Cardinality(Pending(x) \ {p}) \in Nat
    /\ Cardinality(Pending(x)) = Cardinality(Pending(x) \ {p}) + PB(p, x)

LEMMA PendingSplitAlways == PendingSplit
<1> SUFFICES ASSUME NEW p \in Procs, NEW x \in Inums
             PROVE  /\ IsFiniteSet(Pending(x) \ {p}) /\ Cardinality(Pending(x) \ {p}) \in Nat
                    /\ Cardinality(Pending(x)) = Cardinality(Pending(x) \ {p}) + PB(p, x)
  BY DEF PendingSplit
<1>1. IsFiniteSet(Pending(x)) /\ Cardinality(Pending(x)) \in Nat
  BY PendingFinite
<1>2. p \in Pending(x) <=> PB(p, x) = 1
  BY DEF Pending, PB
<1>3. /\ IsFiniteSet(Pending(x) \ {p})
      /\ Cardinality(Pending(x) \ {p}) = IF p \in Pending(x) THEN Cardinality(Pending(x)) - 1 ELSE Cardinality(Pending(x))
  BY <1>1, FS_RemoveElement
<1>4. Cardinality(Pending(x) \ {p}) \in Nat
  BY <1>3, FS_CardinalityType
<1>5. PB(p, x) \in {0, 1}
  BY DEF PB
<1> QED  BY <1>1, <1>2, <1>3, <1>4, <1>5

LEMMA PendingMoved ==
  ASSUME NEW p \in Procs, Others(p), NEW x \in Inums
  PROVE  /\ Cardinality(Pending(x)') = Cardinality(Pending(x)) - PB(p, x) + PB(p, x)'
         /\ Cardinality(Pending(x)) \in Nat /\ Cardinality(Pending(x)') \in Nat
<1>1. (Pending(x) \ {p})' = Pending(x) \ {p}
  BY DEF Pending, Others
<1>2. PendingSplit'
  BY PendingSplitAlways, PTL
<1>3. Cardinality(Pending(x)') = Cardinality((Pending(x) \ {p})') + PB(p, x)'
  BY <1>2 DEF PendingSplit
<1>4. /\ Cardinality(Pending(x) \ {p}) \in Nat
      /\ Cardinality(Pending(x)) = Cardinality(Pending(x) \ {p}) + PB(p, x)
  BY PendingSplitAlways DEF PendingSplit
<1>5. PB(p, x) \in {0, 1} /\ PB(p, x)' \in {0, 1}
  BY DEF PB
<1>6. Cardinality((Pending(x) \ {p})') = Cardinality(Pending(x) \ {p})
  BY <1>1
<1>8. Cardinality(Pending(x)) \in Nat
  BY <1>4, <1>5
<1>9. Cardinality(Pending(x)') = Cardinality(Pending(x) \ {p}) + PB(p, x)'
  BY <1>3, <1>6, Zenon
<1>10. Cardinality(Pending(x)') \in Nat
  <2>1. \A a \in Nat, t \in {0, 1} : a + t \in Nat
    OBVIOUS
  <2> QED  BY <1>4, <1>5, <1>9, <2>1, Zenon
<1>11. Cardinality(Pending(x)') = Cardinality(Pending(x)) - PB(p, x) + PB(p, x)'
  BY <1>4, <1>5, <1>9, SMT
<1> QED  BY <1>8, <1>10, <1>11, Zenon

LB(nodes, e, x) == IF e \in LinksOf(nodes, x) THEN 1 ELSE 0

LEMMA LinksOfFinite ==
  ASSUME NEW nodes, NEW x
  PROVE  IsFiniteSet(LinksOf(nodes, x)) /\ Cardinality(LinksOf(nodes, x)) \in Nat
<1>1. IsFiniteSet(Inums \X Forward)
  BY InumsForward
<1>2. LinksOf(nodes, x) \subseteq Inums \X Forward
  BY DEF LinksOf
<1> QED  BY <1>1, <1>2, FS_Subset, FS_CardinalityType

LEMMA LinksMoved ==
  ASSUME NEW old, NEW new, NEW e, NEW x, LinksOf(new, x) \ {e} = LinksOf(old, x) \ {e}
  PROVE  Cardinality(LinksOf(new, x)) = Cardinality(LinksOf(old, x)) - LB(old, e, x) + LB(new, e, x)
<1>1. \A nodes : Cardinality(LinksOf(nodes, x) \ {e}) = Cardinality(LinksOf(nodes, x)) - LB(nodes, e, x)
  <2> SUFFICES ASSUME NEW nodes
               PROVE Cardinality(LinksOf(nodes, x) \ {e}) = Cardinality(LinksOf(nodes, x)) - LB(nodes, e, x)
    OBVIOUS
  <2>1. IsFiniteSet(LinksOf(nodes, x)) /\ Cardinality(LinksOf(nodes, x)) \in Nat
    BY LinksOfFinite
  <2> QED  BY <2>1, FS_RemoveElement DEF LB
<1>2. Cardinality(LinksOf(new, x)) \in Nat /\ Cardinality(LinksOf(old, x)) \in Nat
  BY LinksOfFinite
<1>3. LB(old, e, x) \in {0, 1} /\ LB(new, e, x) \in {0, 1}
  BY DEF LB
<1>4. /\ Cardinality(LinksOf(new, x) \ {e}) = Cardinality(LinksOf(new, x)) - LB(new, e, x)
      /\ Cardinality(LinksOf(old, x) \ {e}) = Cardinality(LinksOf(old, x)) - LB(old, e, x)
  BY <1>1
<1>5. Cardinality(LinksOf(new, x)) - LB(new, e, x) = Cardinality(LinksOf(old, x)) - LB(old, e, x)
  BY <1>4, Zenon
<1> QED  BY <1>2, <1>3, <1>5

\* No new circle: entries are removed, or one is added that names an inode
\* without entries.
LEMMA NoCircleLess ==
  ASSUME NEW old, NEW new, NoCircle(old),
         \A x \in Inums, n \in DNames : new[x].ent[n] \in {old[x].ent[n], None}
  PROVE  NoCircle(new)
<1> SUFFICES ASSUME NEW S \in SUBSET Inums, S # {}
             PROVE  \E d \in S : \A n \in DNames : new[d].ent[n] \notin S
  BY DEF NoCircle
<1>1. PICK d \in S : \A n \in DNames : old[d].ent[n] \notin S
  BY DEF NoCircle
<1>2. None \notin S
  BY NoInum
<1> QED  BY <1>1, <1>2

LEMMA NoCircleMore ==
  ASSUME NEW old, NEW new, NoCircle(old), NEW t \in Inums,
         \A n \in DNames : new[t].ent[n] = None,
         \A x \in Inums \ {t}, n \in DNames : new[x].ent[n] \in {old[x].ent[n], None, t}
  PROVE  NoCircle(new)
<1> SUFFICES ASSUME NEW S \in SUBSET Inums, S # {}
             PROVE  \E d \in S : \A n \in DNames : new[d].ent[n] \notin S
  BY DEF NoCircle
<1>2. None \notin S
  BY NoInum
<1>3. CASE t \in S
  BY <1>2, <1>3
<1>4. CASE t \notin S
  <2>1. PICK d \in S : \A n \in DNames : old[d].ent[n] \notin S
    BY DEF NoCircle
  <2> QED  BY <1>2, <1>4, <2>1
<1> QED  BY <1>3, <1>4

\* The tree and its links after a step that only removes entries, or changes counts.
LEMMA TreeLess ==
  ASSUME OneTree, \A x \in Inums : inode'[x].type = inode[x].type /\ inode'[x].ent[".."] = inode[x].ent[".."],
         \A x \in Inums : inode[x].type = "free" => inode'[x] = inode[x],
         \A x \in Inums : inode[x].type # "dir" => inode'[x].ent = inode[x].ent,
         \A x \in Inums, n \in Forward : inode'[x].ent[n] \in {inode[x].ent[n], None},
         inode' \in [Inums -> Node]
  PROVE  OneTree'
<1>1. EntriesOfDirs(inode) /\ DotDotUp(inode) /\ NoCircle(inode)
  BY DEF OneTree
<1>2. EntriesOfDirs(inode')
  BY <1>1, NoInum DEF EntriesOfDirs
<1>3. DotDotUp(inode')
  <2>1. \A i \in Inums : inode'[i].type = "dir" => inode'[i].ent[".."] # None
    BY <1>1 DEF DotDotUp
  <2>2. ASSUME NEW d \in Inums, NEW n \in Forward, inode'[d].ent[n] # None, inode'[d].ent[n] # d,
               inode'[inode'[d].ent[n]].type = "dir"
        PROVE  inode'[inode'[d].ent[n]].ent[".."] = d
    <3> DEFINE x == inode'[d].ent[n]
    <3>1. inode[d].ent[n] = x
      BY <2>2
    <3>2. x \in Inums
      <4>1. inode'[d] \in Node /\ n \in DEntries
        BY DEF Forward
      <4>2. x \in 0..NINODES
        BY <4>1 DEF Node
      <4> QED  BY <2>2, <4>2, NoInum
    <3>3. inode[x].ent[".."] = d
      BY <1>1, <2>2, <3>1, <3>2 DEF DotDotUp
    <3> QED  BY <3>2, <3>3
  <2> QED  BY <2>1, <2>2 DEF DotDotUp
<1>4. NoCircle(inode')
  <2>1. DNames \subseteq Forward
    BY InodesFinite DEF Forward, DEntries
  <2>2. \A x \in Inums, n \in DNames : inode'[x].ent[n] \in {inode[x].ent[n], None}
    BY <2>1
  <2> QED  BY <1>1, <2>2, NoCircleLess
<1> QED  BY <1>2, <1>3, <1>4 DEF OneTree

\* One entry is changed.
LEMMA LinksOne ==
  ASSUME NEW d, NEW n,
         \A x \in Inums, m \in Forward : <<x, m>> # <<d, n>> => inode'[x].ent[m] = inode[x].ent[m],
         \A x \in Inums : inode'[x].type = inode[x].type,
         inode' \in [Inums -> Node]
  PROVE  \A x : LinksOf(inode', x) \ {<<d, n>>} = LinksOf(inode, x) \ {<<d, n>>}
<1> SUFFICES ASSUME NEW x PROVE LinksOf(inode', x) \ {<<d, n>>} = LinksOf(inode, x) \ {<<d, n>>}
  OBVIOUS
<1>1. ASSUME NEW a \in Inums, NEW b \in Forward, <<a, b>> # <<d, n>>
      PROVE  <<a, b>> \in LinksOf(inode', x) <=> <<a, b>> \in LinksOf(inode, x)
  <2>1. inode'[a].ent[b] = inode[a].ent[b]
    BY <1>1
  <2>2. inode'[a].ent[b] \in 0..NINODES
    BY DEF Forward, Node
  <2>3. inode'[a].ent[b] # None => inode'[inode'[a].ent[b]].type = inode[inode[a].ent[b]].type
    BY <2>1, <2>2, NoInum
  <2> QED  BY <2>1, <2>3 DEF LinksOf
<1>2. LinksOf(inode', x) \subseteq Inums \X Forward /\ LinksOf(inode, x) \subseteq Inums \X Forward
  BY DEF LinksOf
<1>3. \A l \in Inums \X Forward : \E a \in Inums, b \in Forward : l = <<a, b>>
  OBVIOUS
<1>4. \A l \in Inums \X Forward : l # <<d, n>> => (l \in LinksOf(inode', x) <=> l \in LinksOf(inode, x))
  BY <1>1, <1>3
<1> QED  BY <1>2, <1>4

\* nlink still covers the links if it changes with what p has pending and the entry e.
LEMMA CoverMoved ==
  ASSUME IInv, NEW p \in Procs, Others(p), inode' \in [Inums -> Node], NEW e,
         \A x \in Inums : LinksOf(inode', x) \ {e} = LinksOf(inode, x) \ {e},
         \A x \in Inums : inode'[x].nlink - LB(inode', e, x) - PB(p, x)' >= inode[x].nlink - LB(inode, e, x) - PB(p, x)
  PROVE  Covered'
<1> SUFFICES ASSUME NEW x \in Inums
             PROVE  inode'[x].nlink >= Cardinality(LinksOf(inode', x)) + Cardinality(Pending(x)') + Base(x)
  BY DEF Covered
<1>1. inode[x].nlink >= Cardinality(LinksOf(inode, x)) + Cardinality(Pending(x)) + Base(x)
  BY DEF IInv, Covered
<1>2. Cardinality(LinksOf(inode', x)) = Cardinality(LinksOf(inode, x)) - LB(inode, e, x) + LB(inode', e, x)
  BY LinksMoved
<1>3. /\ Cardinality(Pending(x)') = Cardinality(Pending(x)) - PB(p, x) + PB(p, x)'
      /\ Cardinality(Pending(x)) \in Nat /\ Cardinality(Pending(x)') \in Nat
  BY PendingMoved
<1>4. /\ Cardinality(LinksOf(inode, x)) \in Nat /\ Cardinality(LinksOf(inode', x)) \in Nat
      /\ LB(inode, e, x) \in Nat /\ LB(inode', e, x) \in Nat
      /\ PB(p, x) \in Nat /\ PB(p, x)' \in Nat /\ Base(x) \in Nat
      /\ inode[x].nlink \in Nat /\ inode'[x].nlink \in Nat
  BY LinksOfFinite DEF LB, PB, Base, IInv, Typed, Node
<1>5. inode'[x].nlink - LB(inode', e, x) - PB(p, x)' >= inode[x].nlink - LB(inode, e, x) - PB(p, x)
  OBVIOUS
<1> HIDE DEF Covered, IInv
<1> QED  BY <1>1, <1>2, <1>3, <1>4, <1>5

\* What p puts it refers to.
LEMMA PutReferred ==
  ASSUME Typed, NEW p \in Procs, NEW r \in Locals, Set(p, r), NEW x \in Inums, r.puts = <<x>>
  PROVE  Refs(p, x)' > 0
<1>1. RefsForm'
  BY RefsFormAlways, PTL
<1>2. Refs(p, x)' = Five(p, x)' + PutsB(loc'[p].puts, x)
  BY <1>1 DEF RefsForm
<1>3. loc'[p].puts = <<x>> /\ PutsB(<<x>>, x) = 1
  BY SetLocals, PutsBIs DEF B
<1>4. Five(p, x)' \in Nat
  BY DEF Five, B
<1> QED  BY <1>2, <1>3, <1>4

\* A step that changes the number of links of one inode, and no entry.
Recount(i, k) == inode' = [inode EXCEPT ![i].nlink = k]
LEMMA CountChanged ==
  ASSUME IInv, NEW i \in Inums, NEW k \in Nat, inode[i].type # "free", Recount(i, k)
  PROVE  /\ inode' \in [Inums -> Node] /\ OneTree'
         /\ \A x : LinksOf(inode', x) = LinksOf(inode, x)
         /\ \A x \in Inums : /\ inode'[x].type = inode[x].type /\ inode'[x].ent = inode[x].ent
                             /\ inode'[x].nlink = IF x = i THEN k ELSE inode[x].nlink
<1>1. inode \in [Inums -> Node] /\ OneTree
  BY DEF IInv, Typed
<1>2. inode' \in [Inums -> Node]
  BY <1>1 DEF Node, Recount
<1>3. \A x \in Inums : /\ inode'[x].type = inode[x].type /\ inode'[x].ent = inode[x].ent
                       /\ inode'[x].nlink = IF x = i THEN k ELSE inode[x].nlink
  BY <1>1 DEF Node, Recount
<1>4. \A x \in Inums : inode[x].type = "free" => inode'[x] = inode[x]
  BY <1>1 DEF Recount
<1>5. OneTree'
  BY <1>1, <1>2, <1>3, <1>4, TreeLess
<1>6. ASSUME NEW x PROVE LinksOf(inode', x) = LinksOf(inode, x)
  <2>1. \A l \in Inums \X Forward : inode'[l[1]].ent = inode[l[1]].ent /\ inode[l[1]].ent[l[2]] \in 0..NINODES
    BY <1>1, <1>3 DEF Node, Forward
  <2>2. \A y \in 0..NINODES : y # None => inode'[y].type = inode[y].type
    BY <1>3, NoInum
  <2> QED  BY <2>1, <2>2 DEF LinksOf
<1> QED  BY <1>2, <1>3, <1>5, <1>6

LEMMA LinkOldStep ==
  ASSUME IInv, NEW p \in Procs, LinkOld(p)
  PROVE  IInv'
<1> DEFINE i == loc[p].ip
           new == loc[p].call.new
           isdir == inode[i].type = "dir"
           start == IF isdir THEN None ELSE Origin(p, new)
           l == [loc[p] EXCEPT !.call.name = "link_new", !.old = i]
<1>1. At(p, "last") /\ CanLock(i)
  BY DEF LinkOld
<1>2. Typed
  BY DEF IInv
<1>3. /\ iref' = Got(start) /\ ivalid' = Loaded(i, start)
      /\ UNCHANGED <<ilocked, cwd, opened, raced, nameCalls, ipanic>>
  BY DEF LinkOld
<1>4. \/ isdir /\ Set(p, Done(<<i>>)) /\ inode' = inode
      \/ /\ ~isdir /\ inode' = [inode EXCEPT ![i].nlink = @ + 1]
         /\ Set(p, Entered(l, Rest(new), start))
  BY DEF LinkOld
<1>5. /\ loc[p] \in Locals /\ Shape(loc[p]) /\ loc[p].pc = "last" /\ loc[p].puts = <<>> /\ loc[p].dropping = FALSE
      /\ Live(cwd[p]) /\ Live(opened[p]) /\ cwd[p] \in Inums
  BY <1>1, AtFacts
<1>6. /\ i \in Inums /\ inode[i].type # "free" /\ loc[p].dp = None /\ loc[p].old = None
  BY <1>1, <1>5, NoInum DEF Shape, CanLock, Locals
<1>7. /\ cwd' \in [Procs -> Inums] /\ opened' \in [Procs -> 0..NINODES]
      /\ ilocked' \in [Inums -> Procs \cup {Unlocked}]
      /\ \A q \in Procs \ {p} : cwd'[q] = cwd[q] /\ opened'[q] = opened[q]
      /\ raced' = raced /\ ipanic' = ipanic
  BY <1>2, <1>3 DEF Typed
<1>8. \A x : Five(p, x) = B(cwd[p], x) + B(opened[p], x) + B(i, x) + B(None, x) + B(None, x)
  BY <1>6 DEF Five
<1>9. CASE isdir
  <2> DEFINE r == Done(<<i>>)
  <2>1. Set(p, r) /\ UNCHANGED <<inode, ilocked, raced, ipanic>> /\ iref' = Got(None)
    BY <1>3, <1>4, <1>9
  <2>2. ValidKept /\ ivalid' \in [Inums -> BOOLEAN]
    BY <1>2, <1>3, <1>6, <2>1, LoadedKept
  <2>3. r \in Locals /\ Shape(r) /\ Is(r, "idle", None, None, None, <<i>>) /\ r.call.name = "none"
    <3>1. <<i>> \in Seq(Inums) /\ Len(<<i>>) <= 2
      BY <1>6, ToPutSeqs
    <3> QED  BY <3>1, DoneIs
  <2> HIDE DEF r
  <2>4. r.ip = None /\ r.dp = None /\ r.old = None /\ r.puts = <<i>> /\ r.dropping = FALSE /\ r.pc = "idle"
    BY <2>3 DEF Is
  <2>5. Balance(p, r, None)
    BY <1>3, <1>8, <2>4, PutsBIs, NoInum DEF Balance, B
  <2>6. LiveLocals(p, r)
    <3>1. Len(r.puts) # 2
      BY <2>4
    <3> QED  BY <1>3, <1>5, <2>1, <2>4, <3>1 DEF LiveLocals, Live
  <2>7. "last" \notin {"unlink", "unlock", "made", "unlinked"} /\ r.pc \notin {"unlink", "unlock", "made", "unlinked"}
        /\ (r.pc = "parent" => inode[r.dp].type = "dir") /\ r.old \in {None, loc[p].old}
        /\ (r.call.name \in {"open", "open_target", "create"} => opened'[p] = None)
    BY <2>3, <2>4
  <2> QED  BY <1>1, <1>7, <2>1, <2>2, <2>3, <2>4, <2>5, <2>6, <2>7, QuietMove
<1>10. CASE ~isdir
  <2> DEFINE r == Entered(l, Rest(new), start)
             k == inode[i].nlink + 1
  <2>1. Set(p, r) /\ Recount(i, k) /\ start = Origin(p, new)
    BY <1>4, <1>10 DEF Recount
  <2>2. new \in Paths /\ start \in Inums /\ inode[start].type # "free" /\ k \in Nat
    <3>1. inode[Root].type = "dir"
      BY DEF IInv, OneTree, EntriesOfDirs
    <3>2. inode[i] \in Node
      BY <1>2, <1>6 DEF Typed
    <3>3. inode[i].nlink \in Nat /\ k \in Nat
      BY <3>2 DEF Node
    <3>4. new \in Paths
      BY <1>5 DEF Locals
    <3>5. start \in Inums /\ inode[start].type # "free"
      <4> HIDE DEF start, k
      <4> QED  BY <1>5, <2>1, <3>1, NoInum DEF Origin, Live
    <3> QED  BY <3>3, <3>4, <3>5
  <2>3. l \in Locals /\ l.call.name = "link_new" /\ l.old = i /\ l.puts = <<>> /\ l.dp = None /\ l.dropping = FALSE
    <3> HIDE DEF i
    <3>1. i \in 0..NINODES
      BY <1>6, NoInum
    <3> QED  BY <1>5, <1>6, <3>1 DEF Locals, CallNames
  <2>4. /\ r \in Locals /\ Shape(r) /\ r.call.name \in {"link_new", "none"}
        /\ \/ Is(r, "walk", start, None, i, <<>>)
           \/ Is(r, "undo", None, None, i, <<start>>)
    <3>1. Rest(new) \in Seq(DEntries)
      BY <2>2, RestTyped
    <3> HIDE DEF l, start, new, i
    <3>2. Is(l, l.pc, l.ip, None, l.old, l.puts) /\ Len(l.puts) <= 2 /\ (l.old # None <=> l.call.name = "link_new")
      BY <1>6, <2>3, ToPutSeqs, NoInum DEF Is
    <3>3. /\ r \in Locals /\ Shape(r) /\ r.call.name \in {"link_new", "none"}
          /\ \/ Is(r, IF Rest(new) = <<>> THEN "last" ELSE "walk", start, None, i, <<>>)
             \/ Is(r, "undo", None, None, i, <<start>>)
      BY <1>6, <2>2, <2>3, <3>1, <3>2, EnteredIs, NoInum
    <3>4. ~Is(r, "last", start, None, i, <<>>)
      BY <1>6, <3>3, NoInum DEF Is, Shape
    <3> QED  BY <3>3, <3>4
  <2> HIDE DEF r, l, new, isdir, start, k
  <2>5. /\ inode' \in [Inums -> Node] /\ OneTree'
        /\ \A x : LinksOf(inode', x) = LinksOf(inode, x)
        /\ \A x \in Inums : /\ inode'[x].type = inode[x].type /\ inode'[x].ent = inode[x].ent
                            /\ inode'[x].nlink = IF x = i THEN k ELSE inode[x].nlink
    BY <1>6, <2>1, <2>2, CountChanged
  <2>6. ValidKept /\ ivalid' \in [Inums -> BOOLEAN]
    BY <1>2, <1>3, <1>6, <2>5, LoadedKept
  <2>7. k # 0
    <3>1. inode[i].nlink \in Nat
      BY <1>2, <1>6 DEF Typed, Node
    <3> QED  BY <3>1 DEF k
  <2>8. NodesKept(p)
    BY <2>5, <2>7 DEF NodesKept
  <2>9. Balance(p, r, start)
    <3> SUFFICES ASSUME NEW x \in Inums
                 PROVE  B(cwd[p], x) + B(opened[p], x) + B(r.ip, x) + B(r.dp, x) + B(r.old, x) + PutsB(r.puts, x)
                          = Five(p, x) + B(start, x)
      BY <1>3 DEF Balance
    <3>1. \/ r.ip = start /\ r.dp = None /\ r.old = i /\ PutsB(r.puts, x) = 0
          \/ r.ip = None /\ r.dp = None /\ r.old = i /\ PutsB(r.puts, x) = B(start, x)
      BY <2>4, PutsBIs DEF Is
    <3> QED  BY <1>8, <3>1, NoInum DEF B
  <2>10. LiveLocals(p, r)
    <3>1. /\ r.ip \in {None, start} /\ r.dp = None /\ r.old = i /\ r.puts \in {<<>>, <<start>>}
      BY <2>4 DEF Is
    <3>2. Len(r.puts) # 2
      BY <3>1
    <3>3. \A x \in 0..NINODES : Live(x) => Live(x)'
      BY <2>5, NoInum DEF Live
    <3>4. opened[p] \in 0..NINODES /\ cwd[p] \in 0..NINODES
      BY <1>2, NoInum DEF Typed
    <3>5. Live(cwd[p])' /\ Live(opened[p])'
      BY <1>3, <1>5, <3>3, <3>4 DEF Live
    <3> QED  BY <1>6, <2>2, <2>5, <3>1, <3>2, <3>5 DEF LiveLocals
  <2>11. loc'[p] = r /\ Others(p)
    BY <1>2, <1>7, <2>1, <2>4, SetLocals DEF Others
  <2>12. KnownAt(p)'
    <3>1. r.pc \in {"walk", "undo"} /\ r.old = i
      BY <2>4 DEF Is
    <3> QED  BY <1>6, <1>10, <2>4, <2>5, <2>11, <3>1 DEF KnownAt, isdir
  <2>13. LocksMoved(p)
    <3>1. r.pc \in {"walk", "undo"}
      BY <2>4 DEF Is
    <3>2. \A x \in Inums : HasLocked(p, x)' <=> HasLocked(p, x)
      BY <1>5, <2>11, <3>1 DEF HasLocked
    <3>3. Counted /\ Locked
      BY DEF IInv
    <3> QED  BY <1>2, <1>3, <2>6, <2>8, <3>2, <3>3, LocksQuiet
  <2>14. Covered'
    <3> DEFINE e == <<None, None>>
    <3>1. \A x \in Inums : LinksOf(inode', x) \ {e} = LinksOf(inode, x) \ {e}
      BY <2>5
    <3>2. ASSUME NEW x \in Inums
          PROVE  inode'[x].nlink - LB(inode', e, x) - PB(p, x)' >= inode[x].nlink - LB(inode, e, x) - PB(p, x)
      <4>1. LB(inode', e, x) = LB(inode, e, x) /\ LB(inode, e, x) \in Nat
        BY <2>5 DEF LB
      <4>2. r.old = i /\ r.pc # "unlinked"
        BY <2>4 DEF Is
      <4>3. PB(p, x)' = (IF x = i THEN 1 ELSE 0) /\ PB(p, x) = 0
        BY <1>5, <1>6, <2>11, <4>2, NoInum DEF PB
      <4>4. inode'[x].nlink = inode[x].nlink + (IF x = i THEN 1 ELSE 0) /\ inode[x].nlink \in Nat
        BY <1>2, <2>5 DEF Typed, Node, k
      <4> QED  BY <4>1, <4>3, <4>4
    <3> HIDE DEF e
    <3> QED  BY <2>5, <2>11, <3>1, <3>2, CoverMoved
  <2>15. r.dropping = FALSE
    BY <2>4 DEF Is
  <2> QED  BY <1>1, <1>3, <1>7, <2>1, <2>4, <2>5, <2>6, <2>8, <2>9, <2>10, <2>12, <2>13, <2>14, <2>15, GenMove
<1> QED  BY <1>9, <1>10

\* p holds the lock h before its step and k after it; None is no lock.
LocksPass(p, h, k) ==
  /\ \A x \in Inums : HasLocked(p, x) <=> x = h
  /\ \A x \in Inums : HasLocked(p, x)' <=> x = k
  /\ \A x \in Inums : ilocked'[x] = IF x = k THEN p ELSE IF x = h THEN Unlocked ELSE ilocked[x]
  /\ k \in Inums => ilocked[k] \in {Unlocked, p} /\ ivalid'[k] /\ inode'[k].type # "free"

LEMMA LocksHeld ==
  ASSUME Typed, Locked, NEW p \in Procs, NEW h, NEW k, LocksPass(p, h, k)
  PROVE  LocksMoved(p)
<1>1. p # Unlocked
  BY InodesFinite
<1>2. \A x \in Inums : ilocked[x] = p <=> x = h
  BY DEF Locked, LocksPass
<1> QED  BY <1>1, <1>2 DEF LocksMoved, LocksPass

\* The inodes are left alone.
LEMMA InodesSame ==
  ASSUME IInv, NEW p \in Procs, Others(p), inode' = inode, \A x \in Inums : PB(p, x)' <= PB(p, x)
  PROVE  Covered' /\ OneTree' /\ NodesKept(p) /\ inode' \in [Inums -> Node]
<1>1. OneTree /\ inode \in [Inums -> Node]
  BY DEF IInv, Typed
<1>2. OneTree' /\ NodesKept(p) /\ inode' \in [Inums -> Node]
  BY <1>1 DEF OneTree, NodesKept
<1>3. Covered'
  <2> DEFINE e == <<None, None>>
  <2>1. \A x \in Inums : LinksOf(inode', x) \ {e} = LinksOf(inode, x) \ {e}
    OBVIOUS
  <2>2. ASSUME NEW x \in Inums
        PROVE  inode'[x].nlink - LB(inode', e, x) - PB(p, x)' >= inode[x].nlink - LB(inode, e, x) - PB(p, x)
    <3>1. LB(inode', e, x) = LB(inode, e, x) /\ LB(inode, e, x) \in Nat /\ inode[x].nlink \in Nat
      BY <1>1 DEF LB, Node
    <3>2. PB(p, x) \in Nat /\ PB(p, x)' \in Nat /\ PB(p, x)' <= PB(p, x)
      BY DEF PB
    <3> QED  BY <3>1, <3>2
  <2> HIDE DEF e
  <2> QED  BY <1>2, <2>1, <2>2, CoverMoved
<1> QED  BY <1>2, <1>3

\* What has a link, or one that is pending, is counted.
LEMMA CountPositive ==
  ASSUME IInv, NEW x \in Inums
  PROVE  /\ inode[x].nlink \in Nat
         /\ \A p \in Procs : PB(p, x) = 1 => inode[x].nlink > 0
         /\ LinksOf(inode, x) # {} => inode[x].nlink > 0
         /\ Base(x) = 1 => inode[x].nlink > 0
<1>1. inode[x].nlink >= Cardinality(LinksOf(inode, x)) + Cardinality(Pending(x)) + Base(x)
  BY DEF IInv, Covered
<1>2. /\ IsFiniteSet(LinksOf(inode, x)) /\ Cardinality(LinksOf(inode, x)) \in Nat
      /\ IsFiniteSet(Pending(x)) /\ Cardinality(Pending(x)) \in Nat
      /\ Base(x) \in Nat /\ inode[x].nlink \in Nat
  BY LinksOfFinite, PendingFinite DEF Base, IInv, Typed, Node
<1>3. LinksOf(inode, x) # {} => Cardinality(LinksOf(inode, x)) # 0
  BY <1>2, FS_EmptySet
<1>4. ASSUME NEW p \in Procs, PB(p, x) = 1 PROVE Cardinality(Pending(x)) # 0
  <2>1. p \in Pending(x)
    BY <1>4 DEF PB, Pending
  <2> QED  BY <1>2, <2>1, FS_EmptySet
<1> QED  BY <1>1, <1>2, <1>3, <1>4

\* An entry of a directory is filled with an inode that is no directory.
Fill(d, n, t) == inode' = [inode EXCEPT ![d].ent[n] = t]
LEMMA EntryAdded ==
  ASSUME IInv, NEW d \in Inums, NEW n \in DEntries, NEW t \in Inums, inode[d].type = "dir",
         inode[d].ent[n] = None, inode[t].type \notin {"dir", "free"}, Fill(d, n, t)
  PROVE  /\ inode' \in [Inums -> Node] /\ OneTree'
         /\ \A x : LinksOf(inode', x) \ {<<d, n>>} = LinksOf(inode, x) \ {<<d, n>>}
         /\ \A x \in Inums : /\ inode'[x].type = inode[x].type /\ inode'[x].nlink = inode[x].nlink
                             /\ x # d => inode'[x].ent = inode[x].ent
         /\ \A x \in Inums : LB(inode, <<d, n>>, x) = 0 /\ LB(inode', <<d, n>>, x) = B(t, x)
<1>1. inode \in [Inums -> Node]
  BY DEF IInv, Typed
<1>2. EntriesOfDirs(inode) /\ DotDotUp(inode) /\ NoCircle(inode)
  BY DEF IInv, OneTree
<1>3. n \in Forward
  BY <1>2 DEF DotDotUp, Forward
<1>4. /\ inode' \in [Inums -> Node]
      /\ \A x \in Inums : /\ inode'[x].type = inode[x].type /\ inode'[x].nlink = inode[x].nlink
                          /\ x # d => inode'[x] = inode[x]
                          /\ \A m \in DEntries : inode'[x].ent[m] = IF x = d /\ m = n THEN t ELSE inode[x].ent[m]
  <2>1. inode[d] \in Node /\ t \in 0..NINODES
    BY <1>1, NoInum
  <2>2. [inode[d] EXCEPT !.ent[n] = t] \in Node
    BY <2>1 DEF Node
  <2>3. inode' = [inode EXCEPT ![d] = [inode[d] EXCEPT !.ent[n] = t]]
    BY DEF Fill
  <2>4. inode' \in [Inums -> Node]
    BY <1>1, <2>2, <2>3
  <2>5. inode'[d] = [inode[d] EXCEPT !.ent[n] = t] /\ \A x \in Inums : x # d => inode'[x] = inode[x]
    BY <1>1, <2>3
  <2>6. inode'[d].type = inode[d].type /\ inode'[d].nlink = inode[d].nlink /\ inode'[d].ent = [inode[d].ent EXCEPT ![n] = t]
    BY <2>1, <2>5 DEF Node
  <2>7. inode[d].ent \in [DEntries -> 0..NINODES]
    BY <2>1 DEF Node
  <2>8. \A m \in DEntries : inode'[d].ent[m] = IF m = n THEN t ELSE inode[d].ent[m]
    BY <2>6, <2>7
  <2> QED  BY <2>4, <2>5, <2>6, <2>8
<1>5. \A x \in Inums, m \in Forward : <<x, m>> # <<d, n>> => inode'[x].ent[m] = inode[x].ent[m]
  BY <1>4 DEF Forward
<1>6. \A x : LinksOf(inode', x) \ {<<d, n>>} = LinksOf(inode, x) \ {<<d, n>>}
  <2>1. \A x \in Inums : inode'[x].type = inode[x].type
    BY <1>4
  <2> QED  BY <1>4, <1>5, <2>1, LinksOne
<1>7. \A x \in Inums : LB(inode, <<d, n>>, x) = 0 /\ LB(inode', <<d, n>>, x) = B(t, x)
  <2>1. inode'[d].ent[n] = t /\ t # d /\ t # None /\ inode'[t].type # "dir"
    BY <1>3, <1>4, NoInum DEF Forward
  <2>2. \A x \in Inums : <<d, n>> \in LinksOf(inode', x) <=> x = t
    BY <1>3, <2>1 DEF LinksOf
  <2>3. \A x \in Inums : <<d, n>> \notin LinksOf(inode, x)
    BY DEF LinksOf
  <2> QED  BY <2>2, <2>3 DEF LB, B
<1>8. EntriesOfDirs(inode')
  <2>1. Root \in Inums /\ ".." \in DEntries /\ ".." # n
    BY <1>3, NoInum DEF Forward, DEntries
  <2> QED  BY <1>2, <1>4, <2>1 DEF EntriesOfDirs
<1>9. DotDotUp(inode')
  <2>1. ".." \in DEntries /\ ".." # n
    BY <1>3 DEF Forward, DEntries
  <2>2. \A x \in Inums : inode'[x].ent[".."] = inode[x].ent[".."]
    BY <1>4, <2>1
  <2>3. \A x \in Inums, m \in Forward : inode[x].ent[m] \in 0..NINODES
    BY <1>1 DEF Node, Forward
  <2>4. ASSUME NEW x \in Inums, NEW m \in Forward, inode'[x].ent[m] # None, inode'[x].ent[m] # x,
               inode'[inode'[x].ent[m]].type = "dir"
        PROVE  inode'[inode'[x].ent[m]].ent[".."] = x
    <3>1. CASE <<x, m>> = <<d, n>>
      BY <1>3, <1>4, <2>4, <3>1 DEF Forward
    <3>2. CASE <<x, m>> # <<d, n>>
      <4> DEFINE y == inode[x].ent[m]
      <4>1. inode'[x].ent[m] = y /\ y # None /\ y \in 0..NINODES
        BY <1>5, <2>3, <2>4, <3>2
      <4>2. y \in Inums /\ y # x /\ inode[y].type = "dir"
        BY <1>4, <2>4, <4>1, NoInum
      <4> QED  BY <1>2, <2>2, <4>1, <4>2 DEF DotDotUp
    <3> QED  BY <3>1, <3>2
  <2>5. \A x \in Inums : inode'[x].type = "dir" => inode'[x].ent[".."] # None
    BY <1>2, <1>4, <2>2 DEF DotDotUp
  <2> QED  BY <2>4, <2>5 DEF DotDotUp
<1>10. NoCircle(inode')
  <2>1. DNames \subseteq DEntries
    BY DEF DEntries
  <2>2. \A m \in DNames : inode'[t].ent[m] = None
    <3>1. inode[t].ent = NoEntries /\ t # d
      BY <1>2 DEF EntriesOfDirs
    <3> QED  BY <1>4, <2>1, <3>1 DEF NoEntries
  <2>3. \A x \in Inums \ {t}, m \in DNames : inode'[x].ent[m] \in {inode[x].ent[m], None, t}
    BY <1>4, <2>1
  <2> QED  BY <1>2, <2>2, <2>3, NoCircleMore
<1> QED  BY <1>4, <1>6, <1>7, <1>8, <1>9, <1>10 DEF OneTree

LEMMA LiveKept ==
  ASSUME NEW p, NodesKept(p)
  PROVE  \A x \in 0..NINODES : Live(x) => (x # None => inode'[x].type # "free")
BY NoInum DEF NodesKept, Live

LEMMA LinkNewStep ==
  ASSUME IInv, NEW p \in Procs, LinkNew(p)
  PROVE  IInv'
<1> DEFINE d == loc[p].dp
           n == loc[p].name
           t == loc[p].old
           i == inode[d].ent[n]
<1>1. At(p, "parent") /\ CanLock(d)
  BY DEF LinkNew
<1>2. Typed
  BY DEF IInv
<1>3. /\ iref' = Got(i) /\ ivalid' = Loaded(d, i)
      /\ UNCHANGED <<cwd, opened, raced, nameCalls, ipanic>>
  BY DEF LinkNew
<1>4. \/ i = None /\ Set(p, Done(<<d, t>>)) /\ ilocked' = ilocked /\ Fill(d, n, t)
      \/ /\ i # None /\ inode' = inode /\ ilocked' = [ilocked EXCEPT ![d] = p]
         /\ Set(p, [loc[p] EXCEPT !.pc = "unlock", !.puts = <<i>>])
  BY DEF LinkNew, Fill
<1>5. /\ loc[p] \in Locals /\ Shape(loc[p]) /\ loc[p].pc = "parent" /\ loc[p].puts = <<>> /\ loc[p].dropping = FALSE
      /\ Live(cwd[p]) /\ Live(opened[p]) /\ Live(t) /\ cwd[p] \in Inums /\ KnownAt(p)
  BY <1>1, AtFacts
<1>6. loc[p].call.name = "link_new"
  BY DEF LinkNew
<1>7. /\ d \in Inums /\ inode[d].type = "dir" /\ loc[p].ip = None /\ n \in DEntries
      /\ t \in Inums /\ inode[t].type \notin {"dir", "free"}
  BY <1>5, <1>6, NoInum DEF Shape, Locals, KnownAt, Live
<1>8. /\ cwd' \in [Procs -> Inums] /\ opened' \in [Procs -> 0..NINODES]
      /\ \A q \in Procs \ {p} : cwd'[q] = cwd[q] /\ opened'[q] = opened[q]
      /\ raced' = raced /\ ipanic' = ipanic
  BY <1>2, <1>3 DEF Typed
<1>9. \A x : Five(p, x) = B(cwd[p], x) + B(opened[p], x) + B(None, x) + B(d, x) + B(t, x)
  BY <1>7 DEF Five
<1>10. cwd[p] \in 0..NINODES /\ opened[p] \in 0..NINODES /\ d \in 0..NINODES /\ t \in 0..NINODES
  BY <1>2, <1>7, NoInum DEF Typed
<1>11. \A x \in Inums : PB(p, x) = IF x = t THEN 1 ELSE 0
  BY <1>5 DEF PB
<1>12. Counted /\ Locked
  BY DEF IInv
<1>13. CASE i = None
  <2> DEFINE r == Done(<<d, t>>)
             e == <<d, n>>
  <2>1. Set(p, r) /\ ilocked' = ilocked /\ Fill(d, n, t)
    BY <1>4, <1>13
  <2> HIDE DEF d, t, n
  <2>2. /\ inode' \in [Inums -> Node] /\ OneTree'
        /\ \A x : LinksOf(inode', x) \ {<<d, n>>} = LinksOf(inode, x) \ {<<d, n>>}
        /\ \A x \in Inums : /\ inode'[x].type = inode[x].type /\ inode'[x].nlink = inode[x].nlink
                            /\ x # d => inode'[x].ent = inode[x].ent
        /\ \A x \in Inums : LB(inode, <<d, n>>, x) = 0 /\ LB(inode', <<d, n>>, x) = B(t, x)
    BY <1>7, <1>13, <2>1, EntryAdded
  <2>3. ValidKept /\ ivalid' \in [Inums -> BOOLEAN]
    <3>1. inode'[d].type # "free"
      BY <1>7, <2>2
    <3> QED  BY <1>2, <1>3, <1>7, <3>1, LoadedKept
  <2>4. NodesKept(p)
    <3>1. ilocked[d] = Unlocked
      BY <1>1 DEF CanLock, d
    <3> QED  BY <2>2, <3>1 DEF NodesKept
  <2>5. /\ r \in Locals /\ Shape(r) /\ r.call.name = "none"
        /\ Is(r, "idle", None, None, None, <<d, t>>)
    <3>1. <<d, t>> \in Seq(Inums) /\ Len(<<d, t>>) <= 2
      BY <1>7, ToPutSeqs
    <3> QED  BY <3>1, DoneIs
  <2> HIDE DEF r
  <2>6. r.ip = None /\ r.dp = None /\ r.old = None /\ r.puts = <<d, t>> /\ r.dropping = FALSE /\ r.pc = "idle"
    BY <2>5 DEF Is
  <2>7. loc'[p] = r /\ Others(p)
    BY <1>2, <1>8, <2>1, <2>5, SetLocals DEF Others
  <2>8. Balance(p, r, i)
    BY <1>3, <1>9, <1>13, <2>6, PutsBIs, NoInum DEF Balance, B
  <2>9. LiveLocals(p, r)
    <3>1. (cwd'[p] # None => inode'[cwd'[p]].type # "free") /\ (opened'[p] # None => inode'[opened'[p]].type # "free")
      BY <1>3, <1>5, <1>10, <2>4, LiveKept
    <3>2. r.puts[2] = t
      BY <2>6
    <3> QED  BY <1>7, <2>2, <2>6, <3>1, <3>2 DEF LiveLocals, Live
  <2>10. KnownAt(p)'
    BY <2>5, <2>6, <2>7 DEF KnownAt
  <2>11. LocksMoved(p)
    <3>1. \A x \in Inums : HasLocked(p, x)' <=> HasLocked(p, x)
      BY <1>5, <2>6, <2>7 DEF HasLocked
    <3> QED  BY <1>2, <1>12, <2>1, <2>3, <2>4, <3>1, LocksQuiet
  <2>12. Covered'
    <3>1. \A x \in Inums : LinksOf(inode', x) \ {e} = LinksOf(inode, x) \ {e}
      BY <2>2
    <3>2. ASSUME NEW x \in Inums
          PROVE  inode'[x].nlink - LB(inode', e, x) - PB(p, x)' >= inode[x].nlink - LB(inode, e, x) - PB(p, x)
      <4>1. LB(inode, e, x) = 0 /\ LB(inode', e, x) = IF x = t THEN 1 ELSE 0
        BY <2>2 DEF B
      <4>2. PB(p, x)' = 0 /\ PB(p, x) = IF x = t THEN 1 ELSE 0
        BY <1>11, <2>6, <2>7, NoInum DEF PB
      <4>3. inode'[x].nlink = inode[x].nlink /\ inode[x].nlink \in Nat
        BY <2>2, CountPositive
      <4> QED  BY <4>1, <4>2, <4>3
    <3> HIDE DEF e
    <3> QED  BY <2>2, <2>7, <3>1, <3>2, CoverMoved
  <2>13. ilocked' \in [Inums -> Procs \cup {Unlocked}]
    BY <1>2, <2>1 DEF Typed
  <2> QED  BY <1>1, <1>3, <1>8, <2>1, <2>2, <2>3, <2>4, <2>5, <2>6, <2>8, <2>9, <2>10, <2>11, <2>12, <2>13, GenMove
<1>14. CASE i # None
  <2> DEFINE r == [loc[p] EXCEPT !.pc = "unlock", !.puts = <<i>>]
  <2>1. Set(p, r) /\ inode' = inode /\ ilocked' = [ilocked EXCEPT ![d] = p]
    BY <1>4, <1>14
  <2>2. i \in Inums
    BY <1>7, <1>14, EntryLive
  <2>3. <<i>> \in Seq(Inums) /\ Len(<<i>>) <= 2 /\ Len(<<i>>) = 1
    BY <2>2, ToPutSeqs
  <2> HIDE DEF i
  <2>4. r \in Locals /\ Is(r, "unlock", None, d, t, <<i>>) /\ r.call = loc[p].call
    BY <1>5, <1>7, <2>3 DEF Locals, Is
  <2> HIDE DEF r
  <2>5. r.ip = None /\ r.dp = d /\ r.old = t /\ r.puts = <<i>> /\ r.dropping = FALSE /\ r.pc = "unlock"
    BY <2>4 DEF Is
  <2>6. Shape(r)
    BY <1>7, <2>3, <2>5, NoInum DEF Shape
  <2>7. loc'[p] = r /\ Others(p)
    BY <1>2, <1>8, <2>1, <2>4, SetLocals DEF Others
  <2>8. Covered' /\ OneTree' /\ NodesKept(p) /\ inode' \in [Inums -> Node]
    <3>1. \A x \in Inums : PB(p, x)' <= PB(p, x)
      BY <1>5, <2>5, <2>7 DEF PB
    <3> QED  BY <2>1, <2>7, <3>1, InodesSame
  <2>9. ValidKept /\ ivalid' \in [Inums -> BOOLEAN] /\ ivalid'[d]
    BY <1>2, <1>3, <1>7, <2>1, LoadedKept
  <2>10. Balance(p, r, i)
    BY <1>3, <1>9, <2>5, PutsBIs, NoInum DEF Balance, B
  <2>11. LiveLocals(p, r)
    BY <1>3, <1>5, <1>7, <2>1, <2>3, <2>5 DEF LiveLocals, Live
  <2>12. KnownAt(p)'
    BY <1>6, <1>7, <2>1, <2>4, <2>5, <2>7 DEF KnownAt
  <2>13. LocksMoved(p)
    <3>1. (\A x \in Inums : HasLocked(p, x) <=> x = None) /\ (\A x \in Inums : HasLocked(p, x)' <=> x = d)
      BY <1>5, <2>5, <2>7, NoInum DEF HasLocked
    <3>2. \A x \in Inums : ilocked'[x] = IF x = d THEN p ELSE IF x = None THEN Unlocked ELSE ilocked[x]
      BY <1>2, <2>1, NoInum DEF Typed
    <3>3. d \in Inums => ilocked[d] \in {Unlocked, p} /\ ivalid'[d] /\ inode'[d].type # "free"
      BY <1>1, <1>7, <2>1, <2>9 DEF CanLock
    <3>4. LocksPass(p, None, d)
      BY <3>1, <3>2, <3>3 DEF LocksPass
    <3> QED  BY <1>2, <1>12, <3>4, LocksHeld
  <2>14. ilocked' \in [Inums -> Procs \cup {Unlocked}]
    BY <1>2, <2>1 DEF Typed
  <2> QED  BY <1>1, <1>3, <1>8, <2>1, <2>4, <2>5, <2>6, <2>8, <2>9, <2>10, <2>11, <2>12, <2>13, <2>14, GenMove
<1> QED  BY <1>13, <1>14

LEMMA UnlockParentStep ==
  ASSUME IInv, NEW p \in Procs, UnlockParent(p)
  PROVE  IInv'
<1> DEFINE d == loc[p].dp
           t == loc[p].old
           r == Failed(t, <<d>>)
<1>1. At(p, "unlock")
  BY DEF UnlockParent
<1>2. Typed /\ Locked
  BY DEF IInv
<1>3. /\ Set(p, r) /\ ilocked' = [ilocked EXCEPT ![d] = Unlocked]
      /\ UNCHANGED <<inode, iref, ivalid, cwd, opened, raced, nameCalls, ipanic>>
  BY DEF UnlockParent
<1>4. /\ loc[p] \in Locals /\ Shape(loc[p]) /\ loc[p].pc = "unlock" /\ loc[p].puts = <<>> /\ loc[p].dropping = FALSE
      /\ Live(cwd[p]) /\ Live(opened[p]) /\ Live(t) /\ KnownAt(p)
  BY <1>1, AtFacts
<1>5. d \in Inums /\ loc[p].ip = None /\ t \in 0..NINODES /\ (t # None => inode[t].type \notin {"dir", "free"})
  BY <1>4, NoInum DEF Shape, Locals, KnownAt, Live
<1>6. /\ r \in Locals /\ Shape(r) /\ r.call.name = "none"
      /\ Is(r, IF t = None THEN "idle" ELSE "undo", None, None, t, <<d>>)
  <2>1. <<d>> \in Seq(Inums) /\ Len(<<d>>) <= 2
    BY <1>5, ToPutSeqs
  <2> QED  BY <1>5, <2>1, FailedIs
<1> HIDE DEF r
<1>7. /\ r.ip = None /\ r.dp = None /\ r.old = t /\ r.puts = <<d>> /\ r.dropping = FALSE
      /\ r.pc \in {"idle", "undo"}
  BY <1>6 DEF Is
<1>8. /\ cwd' \in [Procs -> Inums] /\ opened' \in [Procs -> 0..NINODES]
      /\ \A q \in Procs \ {p} : cwd'[q] = cwd[q] /\ opened'[q] = opened[q]
      /\ raced' = raced /\ ipanic' = ipanic /\ iref' = Got(None)
      /\ ivalid' \in [Inums -> BOOLEAN] /\ ValidKept
      /\ ilocked' \in [Inums -> Procs \cup {Unlocked}]
  BY <1>2, <1>3, Got0 DEF Typed, ValidKept
<1>9. loc'[p] = r /\ Others(p)
  BY <1>2, <1>3, <1>6, <1>8, SetLocals DEF Others
<1>10. Covered' /\ OneTree' /\ NodesKept(p) /\ inode' \in [Inums -> Node]
  <2>1. \A x \in Inums : PB(p, x)' <= PB(p, x)
    BY <1>7, <1>9 DEF PB
  <2> QED  BY <1>3, <1>9, <2>1, InodesSame
<1>11. Balance(p, r, None)
  BY <1>3, <1>5, <1>7, PutsBIs, NoInum DEF Balance, B, Five
<1>12. LiveLocals(p, r)
  <2>1. Len(r.puts) # 2
    BY <1>7
  <2> QED  BY <1>3, <1>4, <1>5, <1>7, <2>1 DEF LiveLocals, Live
<1>13. KnownAt(p)'
  BY <1>3, <1>5, <1>6, <1>7, <1>9 DEF KnownAt
<1>14. LocksMoved(p)
  <2>1. \A x \in Inums : HasLocked(p, x) <=> x = d
    BY <1>4 DEF HasLocked
  <2>2. \A x \in Inums : HasLocked(p, x)' <=> x = None
    BY <1>7, <1>9, NoInum DEF HasLocked
  <2>3. \A x \in Inums : ilocked'[x] = IF x = None THEN p ELSE IF x = d THEN Unlocked ELSE ilocked[x]
    BY <1>2, <1>3, NoInum DEF Typed
  <2>4. LocksPass(p, d, None)
    BY <2>1, <2>2, <2>3, NoInum DEF LocksPass
  <2> QED  BY <1>2, <2>4, LocksHeld
<1> QED  BY <1>1, <1>3, <1>6, <1>7, <1>8, <1>10, <1>11, <1>12, <1>13, <1>14, GenMove

\* A process takes back the link of i it had counted, and puts i.
LEMMA LinkTaken ==
  ASSUME IInv, NEW p \in Procs, NEW pc, At(p, pc), NEW i \in Inums, PB(p, i) = 1,
         \A x \in Inums : Five(p, x) = B(cwd[p], x) + B(opened[p], x) + B(i, x),
         \A x \in Inums : PB(p, x) = B(i, x),
         inode[i].type # "free", ilocked[i] \in {Unlocked, p},
         Set(p, Done(<<i>>)), Recount(i, inode[i].nlink - 1),
         ValidKept, ivalid' \in [Inums -> BOOLEAN], ivalid'[i],
         NEW h, LocksPass(p, h, None), ilocked' \in [Inums -> Procs \cup {Unlocked}],
         UNCHANGED <<iref, cwd, opened, raced, ipanic>>
  PROVE  IInv'
<1> DEFINE r == Done(<<i>>)
           k == inode[i].nlink - 1
<1>1. Typed /\ Locked
  BY DEF IInv
<1>2. Live(cwd[p]) /\ Live(opened[p])
  BY AtFacts
<1>3. k \in Nat
  BY CountPositive
<1>4. r \in Locals /\ Shape(r) /\ Is(r, "idle", None, None, None, <<i>>) /\ r.call.name = "none"
  <2>1. <<i>> \in Seq(Inums) /\ Len(<<i>>) <= 2
    BY ToPutSeqs
  <2> QED  BY <2>1, DoneIs
<1>5. Set(p, r) /\ Recount(i, k)
  OBVIOUS
<1> HIDE DEF r, k
<1>6. /\ r.ip = None /\ r.dp = None /\ r.old = None /\ r.puts = <<i>> /\ r.dropping = FALSE /\ r.pc = "idle"
  BY <1>4 DEF Is
<1>7. /\ cwd' \in [Procs -> Inums] /\ opened' \in [Procs -> 0..NINODES]
      /\ \A q \in Procs \ {p} : cwd'[q] = cwd[q] /\ opened'[q] = opened[q]
      /\ raced' = raced /\ ipanic' = ipanic /\ iref' = Got(None) /\ cwd' = cwd /\ opened' = opened
  BY <1>1, Got0 DEF Typed
<1>8. loc'[p] = r /\ Others(p)
  BY <1>1, <1>4, <1>5, <1>7, SetLocals DEF Others
<1>9. /\ inode' \in [Inums -> Node] /\ OneTree'
      /\ \A x : LinksOf(inode', x) = LinksOf(inode, x)
      /\ \A x \in Inums : /\ inode'[x].type = inode[x].type /\ inode'[x].ent = inode[x].ent
                          /\ inode'[x].nlink = IF x = i THEN k ELSE inode[x].nlink
  BY <1>3, <1>5, CountChanged
<1>10. Refs(p, i)' > 0
  BY <1>1, <1>4, <1>5, <1>6, PutReferred
<1>11. NodesKept(p)
  BY <1>9, <1>10 DEF NodesKept
<1>12. Balance(p, r, None)
  <2> SUFFICES ASSUME NEW x \in Inums
               PROVE  B(cwd[p], x) + B(opened[p], x) + B(r.ip, x) + B(r.dp, x) + B(r.old, x) + PutsB(r.puts, x)
                        = Five(p, x) + B(None, x)
    BY <1>7 DEF Balance
  <2>1. Five(p, x) = B(cwd[p], x) + B(opened[p], x) + B(i, x)
    OBVIOUS
  <2> QED  BY <1>6, <2>1, PutsBIs, NoInum DEF B
<1>13. LiveLocals(p, r)
  <2>1. Len(r.puts) # 2
    BY <1>6
  <2>2. cwd[p] \in 0..NINODES /\ opened[p] \in 0..NINODES
    BY <1>1, NoInum DEF Typed
  <2>3. (cwd'[p] # None => inode'[cwd'[p]].type # "free") /\ (opened'[p] # None => inode'[opened'[p]].type # "free")
    BY <1>2, <1>7, <1>11, <2>2, LiveKept
  <2> QED  BY <1>6, <2>1, <2>3 DEF LiveLocals, Live
<1>14. KnownAt(p)'
  BY <1>4, <1>6, <1>8 DEF KnownAt
<1>15. LocksMoved(p)
  BY <1>1, LocksHeld
<1>16. Covered'
  <2> DEFINE e == <<None, None>>
  <2>1. \A x \in Inums : LinksOf(inode', x) \ {e} = LinksOf(inode, x) \ {e}
    BY <1>9
  <2>2. ASSUME NEW x \in Inums
        PROVE  inode'[x].nlink - LB(inode', e, x) - PB(p, x)' >= inode[x].nlink - LB(inode, e, x) - PB(p, x)
    <3>1. LB(inode', e, x) = LB(inode, e, x) /\ LB(inode, e, x) \in Nat
      BY <1>9 DEF LB
    <3>2. PB(p, x)' = 0
      BY <1>6, <1>8, NoInum DEF PB
    <3>3. PB(p, x) = IF x = i THEN 1 ELSE 0
      BY DEF B
    <3>4. inode'[x].nlink = inode[x].nlink - (IF x = i THEN 1 ELSE 0) /\ inode[x].nlink \in Nat
      BY <1>9, CountPositive DEF k
    <3> QED  BY <3>1, <3>2, <3>3, <3>4
  <2> HIDE DEF e
  <2> QED  BY <1>8, <1>9, <2>1, <2>2, CoverMoved
<1> QED  BY <1>4, <1>5, <1>6, <1>7, <1>9, <1>11, <1>12, <1>13, <1>14, <1>15, <1>16, GenMove

LEMMA LinkUndoStep ==
  ASSUME IInv, NEW p \in Procs, LinkUndo(p)
  PROVE  IInv'
<1> DEFINE i == loc[p].old
<1>1. At(p, "undo") /\ CanLock(i)
  BY DEF LinkUndo
<1>2. Typed
  BY DEF IInv
<1>3. /\ Set(p, Done(<<i>>)) /\ Recount(i, inode[i].nlink - 1) /\ ivalid' = Loaded(i, None)
      /\ UNCHANGED <<iref, cwd, opened, raced, ipanic>> /\ ilocked' = ilocked
  BY DEF LinkUndo, Recount
<1>4. /\ loc[p] \in Locals /\ Shape(loc[p]) /\ loc[p].pc = "undo"
  BY <1>1, AtFacts
<1>5. /\ i \in Inums /\ loc[p].dp = None /\ loc[p].ip = None
      /\ inode[i].type # "free" /\ ilocked[i] = Unlocked
  BY <1>1, <1>4, NoInum DEF Shape, CanLock, Locals
<1> HIDE DEF i
<1>6. /\ \A x \in Inums : Five(p, x) = B(cwd[p], x) + B(opened[p], x) + B(i, x)
      /\ \A x \in Inums : PB(p, x) = B(i, x)
      /\ PB(p, i) = 1
  BY <1>4, <1>5, NoInum DEF Five, B, PB, i
<1>7. inode'[i].type # "free"
  BY <1>2, <1>3, <1>5 DEF Recount, Typed, Node
<1>8. ValidKept /\ ivalid' \in [Inums -> BOOLEAN] /\ ivalid'[i]
  BY <1>2, <1>3, <1>5, <1>7, LoadedKept
<1>9. LocksPass(p, None, None)
  <2>1. \A x \in Inums : ~HasLocked(p, x)
    BY <1>4 DEF HasLocked
  <2>2. <<i>> \in Seq(Inums) /\ Len(<<i>>) <= 2
    BY <1>5, ToPutSeqs
  <2>3. Is(Done(<<i>>), "idle", None, None, None, <<i>>) /\ Done(<<i>>) \in Locals
    BY <2>2, DoneIs
  <2>4. loc'[p].pc = "idle"
    BY <1>2, <1>3, <2>3, SetLocals DEF Is
  <2>5. \A x \in Inums : ~HasLocked(p, x)'
    BY <2>4 DEF HasLocked
  <2> QED  BY <1>3, <2>1, <2>5, NoInum DEF LocksPass
<1>10. ilocked' \in [Inums -> Procs \cup {Unlocked}]
  BY <1>2, <1>3 DEF Typed
<1> QED  BY <1>1, <1>3, <1>5, <1>6, <1>8, <1>9, <1>10, LinkTaken

LEMMA UnlinkedStep ==
  ASSUME IInv, NEW p \in Procs, Unlinked(p)
  PROVE  IInv'
<1> DEFINE i == loc[p].ip
<1>1. At(p, "unlinked")
  BY DEF Unlinked
<1>2. Typed /\ Locked
  BY DEF IInv
<1>3. /\ Set(p, Done(<<i>>)) /\ Recount(i, inode[i].nlink - 1) /\ ilocked' = [ilocked EXCEPT ![i] = Unlocked]
      /\ UNCHANGED <<iref, cwd, opened, raced, ipanic>> /\ ivalid' = ivalid
  BY DEF Unlinked, Recount
<1>4. /\ loc[p] \in Locals /\ Shape(loc[p]) /\ loc[p].pc = "unlinked"
  BY <1>1, AtFacts
<1>5. i \in Inums /\ loc[p].dp = None /\ loc[p].old = None
  BY <1>4, NoInum DEF Shape, Locals
<1> HIDE DEF i
<1>6. /\ \A x \in Inums : Five(p, x) = B(cwd[p], x) + B(opened[p], x) + B(i, x)
      /\ \A x \in Inums : PB(p, x) = B(i, x)
      /\ PB(p, i) = 1
  BY <1>4, <1>5, NoInum DEF Five, B, PB, i
<1>7. ilocked[i] = p /\ inode[i].type # "free" /\ ivalid[i]
  <2>1. HasLocked(p, i)
    BY <1>4 DEF HasLocked, i
  <2>2. ilocked[i] = p
    BY <1>2, <1>5, <2>1 DEF Locked
  <2>3. p # Unlocked
    BY InodesFinite
  <2> QED  BY <1>2, <1>5, <2>2, <2>3 DEF Locked
<1>8. ValidKept /\ ivalid' \in [Inums -> BOOLEAN] /\ ivalid'[i]
  BY <1>2, <1>3, <1>7 DEF Typed, ValidKept
<1>9. LocksPass(p, i, None)
  <2>1. \A x \in Inums : HasLocked(p, x) <=> x = i
    BY <1>4 DEF HasLocked, i
  <2>2. <<i>> \in Seq(Inums) /\ Len(<<i>>) <= 2
    BY <1>5, ToPutSeqs
  <2>3. Is(Done(<<i>>), "idle", None, None, None, <<i>>) /\ Done(<<i>>) \in Locals
    BY <2>2, DoneIs
  <2>4. loc'[p].pc = "idle"
    BY <1>2, <1>3, <2>3, SetLocals DEF Is
  <2>5. \A x \in Inums : ~HasLocked(p, x)'
    BY <2>4 DEF HasLocked
  <2>6. \A x \in Inums : ilocked'[x] = IF x = None THEN p ELSE IF x = i THEN Unlocked ELSE ilocked[x]
    BY <1>2, <1>3, NoInum DEF Typed
  <2> QED  BY <2>1, <2>5, <2>6, NoInum DEF LocksPass
<1>10. ilocked' \in [Inums -> Procs \cup {Unlocked}]
  BY <1>2, <1>3 DEF Typed
<1> QED  BY <1>1, <1>3, <1>5, <1>6, <1>7, <1>8, <1>9, <1>10, LinkTaken

\* sys_symLink() writes its target into i.
Retarget(i, t) == inode' = [inode EXCEPT ![i] = WithTarget(@, t)]
LEMMA Retargeted ==
  ASSUME IInv, NEW i \in Inums, NEW t \in Paths, inode[i].type # "free", Retarget(i, t)
  PROVE  /\ inode' \in [Inums -> Node] /\ OneTree'
         /\ \A x : LinksOf(inode', x) \ {<<i, ".">>} = LinksOf(inode, x) \ {<<i, ".">>}
         /\ \A x \in Inums : /\ inode'[x].type = inode[x].type /\ inode'[x].nlink = inode[x].nlink
                             /\ x # i => inode'[x].ent = inode[x].ent
         /\ \A x \in Inums : LB(inode', <<i, ".">>, x) <= LB(inode, <<i, ".">>, x)
<1> DEFINE r == WithTarget(inode[i], t)
<1>1. inode \in [Inums -> Node] /\ OneTree /\ inode[i] \in Node
  BY DEF IInv, Typed
<1>2. "." \in Forward /\ "." \in DEntries /\ ".." \in DEntries /\ "." # ".."
  BY DEF Forward, DEntries
<1>3. /\ r \in Node /\ r.type = inode[i].type /\ r.nlink = inode[i].nlink
      /\ \A n \in DEntries : r.ent[n] = IF r.type = "dir" /\ n = "." THEN None ELSE inode[i].ent[n]
      /\ r.type # "dir" => r.ent = inode[i].ent
  <2>1. CASE inode[i].type = "dir"
    <3>1. r = [inode[i] EXCEPT !.ent["."] = None]
      BY <2>1 DEF WithTarget
    <3>2. inode[i].ent \in [DEntries -> 0..NINODES] /\ None \in 0..NINODES
      BY <1>1, NoInum DEF Node
    <3> DEFINE e == [inode[i].ent EXCEPT !["."] = None]
    <3>4. e \in [DEntries -> 0..NINODES]
      BY <3>2
    <3>5. r = [inode[i] EXCEPT !.ent = e]
      BY <3>1
    <3> HIDE DEF r, e
    <3>6. r \in Node /\ r.type = inode[i].type /\ r.nlink = inode[i].nlink /\ r.ent = e
      BY <1>1, <3>4, <3>5 DEF Node
    <3>3. r \in Node /\ r.type = inode[i].type /\ r.nlink = inode[i].nlink /\ r.ent = [inode[i].ent EXCEPT !["."] = None]
      BY <3>6 DEF e
    <3> QED  BY <2>1, <3>2, <3>3
  <2>2. CASE inode[i].type # "dir"
    <3>1. r = [inode[i] EXCEPT !.target = t]
      BY <2>2 DEF WithTarget
    <3> QED  BY <1>1, <2>2, <3>1 DEF Node
  <2> QED  BY <2>1, <2>2
<1>4. inode' = [inode EXCEPT ![i] = r]
  BY DEF Retarget
<1> HIDE DEF r
<1>5. inode' \in [Inums -> Node] /\ inode'[i] = r /\ \A x \in Inums : x # i => inode'[x] = inode[x]
  BY <1>1, <1>3, <1>4
<1>6. \A x \in Inums : /\ inode'[x].type = inode[x].type /\ inode'[x].nlink = inode[x].nlink
                       /\ x # i => inode'[x].ent = inode[x].ent
                       /\ inode[x].type = "free" => inode'[x] = inode[x]
                       /\ inode[x].type # "dir" => inode'[x].ent = inode[x].ent
                       /\ inode'[x].ent[".."] = inode[x].ent[".."]
  BY <1>2, <1>3, <1>5
<1>7. \A x \in Inums, n \in Forward : /\ inode'[x].ent[n] \in {inode[x].ent[n], None}
                                      /\ <<x, n>> # <<i, ".">> => inode'[x].ent[n] = inode[x].ent[n]
  BY <1>3, <1>5 DEF Forward
<1>8. OneTree'
  BY <1>1, <1>5, <1>6, <1>7, TreeLess
<1>9. \A x : LinksOf(inode', x) \ {<<i, ".">>} = LinksOf(inode, x) \ {<<i, ".">>}
  <2>1. \A x \in Inums, m \in Forward : <<x, m>> # <<i, ".">> => inode'[x].ent[m] = inode[x].ent[m]
    BY <1>7
  <2>2. \A x \in Inums : inode'[x].type = inode[x].type
    BY <1>6
  <2> QED  BY <1>5, <2>1, <2>2, LinksOne
<1>10. ASSUME NEW x \in Inums PROVE LB(inode', <<i, ".">>, x) <= LB(inode, <<i, ".">>, x)
  <2>1. ASSUME <<i, ".">> \in LinksOf(inode', x) PROVE <<i, ".">> \in LinksOf(inode, x)
    <3> DEFINE y == inode'[i].ent["."]
    <3>1. y # None /\ y # i /\ (y = x \/ (i = x /\ inode'[y].type = "dir"))
      BY <2>1 DEF LinksOf
    <3>2. y = inode[i].ent["."] /\ y \in 0..NINODES
      <4>1. y \in {inode[i].ent["."], None}
        BY <1>2, <1>7
      <4>2. inode[i].ent["."] \in 0..NINODES
        BY <1>1, <1>2 DEF Node
      <4> QED  BY <3>1, <4>1, <4>2
    <3>3. inode'[y].type = inode[y].type
      BY <1>6, <3>1, <3>2, NoInum
    <3> QED  BY <1>2, <3>1, <3>2, <3>3 DEF LinksOf
  <2> QED  BY <2>1 DEF LB
<1> QED  BY <1>5, <1>6, <1>8, <1>9, <1>10

\* Made and Exists: the call ends with its inode open, or puts it.
LEMMA CallEnds ==
  ASSUME IInv, NEW p \in Procs, NEW pc \in {"made", "exists"}, At(p, pc), NEW i \in Inums, i = loc[p].ip,
         inode[i].type # "free", ilocked[i] \in {Unlocked, p},
         ValidKept, ivalid' \in [Inums -> BOOLEAN],
         NEW h, \A x \in Inums : HasLocked(p, x) <=> x = h,
         \A x \in Inums : ilocked'[x] = IF x = h THEN Unlocked ELSE ilocked[x],
         ilocked' \in [Inums -> Procs \cup {Unlocked}],
         NEW t \in Paths,
         \/ /\ Set(p, NoLocals) /\ inode' = inode
            /\ loc[p].call.name = "create" /\ opened' = [opened EXCEPT ![p] = i]
         \/ Set(p, Done(<<i>>)) /\ opened' = opened /\ (inode' = inode \/ Retarget(i, t)),
         UNCHANGED <<iref, cwd, raced, ipanic>>
  PROVE  IInv'
<1>1. Typed /\ Locked
  BY DEF IInv
<1>2. /\ Live(cwd[p]) /\ Live(opened[p]) /\ Shape(loc[p]) /\ loc[p].pc = pc /\ KnownAt(p)
      /\ \A x \in Inums : Refs(p, x) = Five(p, x)
  BY AtFacts
<1>3. loc[p].dp = None /\ loc[p].old = None
  BY <1>2 DEF Shape
<1>4. PICK r \in Locals :
        /\ Set(p, r) /\ Shape(r) /\ r.call.name = "none"
        /\ \/ /\ inode' = inode /\ loc[p].call.name = "create" /\ opened' = [opened EXCEPT ![p] = i]
              /\ Is(r, "idle", None, None, None, <<>>)
           \/ /\ opened' = opened /\ (inode' = inode \/ Retarget(i, t))
              /\ Is(r, "idle", None, None, None, <<i>>)
  <2>1. <<i>> \in Seq(Inums) /\ Len(<<i>>) <= 2
    BY ToPutSeqs
  <2>2. /\ Done(<<i>>) \in Locals /\ Is(Done(<<i>>), "idle", None, None, None, <<i>>) /\ Shape(Done(<<i>>))
        /\ Done(<<i>>).call.name = "none"
    BY <2>1, DoneIs
  <2> QED  BY <2>2, NoLocalsIs
<1>5. /\ r.ip = None /\ r.dp = None /\ r.old = None /\ r.dropping = FALSE /\ r.pc = "idle" /\ r.puts \in {<<>>, <<i>>}
  BY <1>4 DEF Is
<1>6. opened[p] = None \/ opened' = opened
  BY <1>2, <1>4 DEF KnownAt
<1>7. /\ opened' \in [Procs -> 0..NINODES] /\ opened'[p] \in {i, opened[p]}
      /\ \A q \in Procs \ {p} : opened'[q] = opened[q]
  BY <1>1, <1>4, NoInum DEF Typed
<1>8. /\ cwd' \in [Procs -> Inums] /\ \A q \in Procs \ {p} : cwd'[q] = cwd[q] /\ opened'[q] = opened[q]
      /\ raced' = raced /\ ipanic' = ipanic /\ iref' = Got(None) /\ cwd' = cwd
  BY <1>1, <1>7, Got0 DEF Typed
<1>9. loc'[p] = r /\ Others(p)
  BY <1>1, <1>4, <1>8, SetLocals DEF Others
<1>10. \A x \in Inums : PB(p, x) = 0 /\ PB(p, x)' = 0
  BY <1>2, <1>3, <1>5, <1>9, NoInum DEF PB
<1>11. /\ Covered' /\ OneTree' /\ NodesKept(p) /\ inode' \in [Inums -> Node]
  <2>1. CASE inode' = inode
    <3>1. \A x \in Inums : PB(p, x)' <= PB(p, x)
      BY <1>10
    <3> QED  BY <1>9, <2>1, <3>1, InodesSame
  <2>2. CASE Retarget(i, t)
    <3> DEFINE e == <<i, ".">>
    <3>1. /\ inode' \in [Inums -> Node] /\ OneTree'
          /\ \A x : LinksOf(inode', x) \ {e} = LinksOf(inode, x) \ {e}
          /\ \A x \in Inums : /\ inode'[x].type = inode[x].type /\ inode'[x].nlink = inode[x].nlink
                              /\ x # i => inode'[x].ent = inode[x].ent
          /\ \A x \in Inums : LB(inode', e, x) <= LB(inode, e, x)
      BY <2>2, Retargeted
    <3> HIDE DEF e
    <3>2. NodesKept(p)
      BY <3>1 DEF NodesKept
    <3>3. ASSUME NEW x \in Inums
          PROVE  inode'[x].nlink - LB(inode', e, x) - PB(p, x)' >= inode[x].nlink - LB(inode, e, x) - PB(p, x)
      <4>1. inode'[x].nlink = inode[x].nlink /\ inode[x].nlink \in Nat
        BY <3>1, CountPositive
      <4>2. LB(inode', e, x) \in Nat /\ LB(inode, e, x) \in Nat /\ LB(inode', e, x) <= LB(inode, e, x)
        BY <3>1 DEF LB
      <4> QED  BY <1>10, <4>1, <4>2
    <3>4. \A x \in Inums : LinksOf(inode', x) \ {e} = LinksOf(inode, x) \ {e}
      BY <3>1
    <3>5. Covered'
      BY <1>9, <3>1, <3>3, <3>4, CoverMoved
    <3> QED  BY <3>1, <3>2, <3>5
  <2> QED  BY <1>4, <2>1, <2>2
<1>12. Balance(p, r, None)
  <2> SUFFICES ASSUME NEW x \in Inums
               PROVE  B(cwd[p], x) + B(opened'[p], x) + B(r.ip, x) + B(r.dp, x) + B(r.old, x) + PutsB(r.puts, x)
                        = Five(p, x) + B(None, x)
    BY <1>8 DEF Balance
  <2>1. Five(p, x) = B(cwd[p], x) + B(opened[p], x) + B(i, x) + B(None, x) + B(None, x)
    BY <1>3 DEF Five
  <2>2. \/ opened'[p] = i /\ opened[p] = None /\ PutsB(r.puts, x) = 0
        \/ opened'[p] = opened[p] /\ PutsB(r.puts, x) = B(i, x)
    <3>1. CASE loc[p].call.name = "create" /\ opened' = [opened EXCEPT ![p] = i] /\ r.puts = <<>>
      <4>1. opened[p] = None
        BY <1>2, <3>1 DEF KnownAt
      <4> QED  BY <1>1, <3>1, <4>1, PutsBIs DEF Typed
    <3>2. CASE opened' = opened /\ r.puts = <<i>>
      BY <3>2, PutsBIs
    <3> QED  BY <1>4, <3>1, <3>2 DEF Is
  <2> QED  BY <1>5, <2>1, <2>2, NoInum DEF B
<1>13. LiveLocals(p, r)
  <2>0. Len(<<>>) # 2 /\ Len(<<i>>) # 2
    BY EmptySeq
  <2>1. Len(r.puts) # 2
    BY <1>5, <2>0, Zenon
  <2>2. cwd[p] \in 0..NINODES /\ opened[p] \in 0..NINODES /\ i \in 0..NINODES /\ i # None
    BY <1>1, NoInum DEF Typed
  <2>3. \A x \in {cwd[p], opened[p], i} : x # None => inode'[x].type # "free"
    BY <1>2, <1>11, <2>2, LiveKept DEF Live
  <2> QED  BY <1>5, <1>7, <1>8, <2>1, <2>3 DEF LiveLocals, Live
<1>14. KnownAt(p)'
  BY <1>4, <1>5, <1>9 DEF KnownAt
<1>15. LocksMoved(p)
  <2>1. \A x \in Inums : ~HasLocked(p, x)'
    BY <1>5, <1>9 DEF HasLocked
  <2>2. \A x \in Inums : ilocked'[x] = IF x = None THEN p ELSE IF x = h THEN Unlocked ELSE ilocked[x]
    BY NoInum
  <2>3. LocksPass(p, h, None)
    BY <2>1, <2>2, NoInum DEF LocksPass
  <2> QED  BY <1>1, <2>3, LocksHeld
<1> QED  BY <1>4, <1>5, <1>7, <1>8, <1>11, <1>12, <1>13, <1>14, <1>15, GenMove

LEMMA MadeStep ==
  ASSUME IInv, NEW p \in Procs, Made(p)
  PROVE  IInv'
<1> DEFINE i == loc[p].ip
           c == loc[p].call
<1>1. At(p, "made")
  BY DEF Made
<1>2. Typed /\ Locked
  BY DEF IInv
<1>3. /\ ilocked' = [ilocked EXCEPT ![i] = Unlocked] /\ ivalid' = ivalid
      /\ UNCHANGED <<iref, cwd, raced, ipanic>>
  BY DEF Made
<1>4. \/ /\ Set(p, NoLocals) /\ inode' = inode
         /\ c.name = "create" /\ opened' = [opened EXCEPT ![p] = i]
      \/ Set(p, Done(<<i>>)) /\ opened' = opened /\ (inode' = inode \/ Retarget(i, c.new))
  BY DEF Made, Retarget
<1>5. loc[p] \in Locals /\ Shape(loc[p]) /\ loc[p].pc = "made"
  BY <1>1, AtFacts
<1>6. i \in Inums /\ c.new \in Paths
  BY <1>5, NoInum DEF Shape, Locals
<1>7. ilocked[i] = p /\ inode[i].type # "free"
  <2>1. HasLocked(p, i)
    BY <1>5 DEF HasLocked
  <2>2. ilocked[i] = p
    BY <1>2, <1>6, <2>1 DEF Locked
  <2>3. p # Unlocked
    BY InodesFinite
  <2> QED  BY <1>2, <1>6, <2>2, <2>3 DEF Locked
<1>8. ValidKept /\ ivalid' \in [Inums -> BOOLEAN]
  BY <1>2, <1>3 DEF Typed, ValidKept
<1>9. \A x \in Inums : HasLocked(p, x) <=> x = i
  BY <1>5 DEF HasLocked
<1>10. /\ \A x \in Inums : ilocked'[x] = IF x = i THEN Unlocked ELSE ilocked[x]
       /\ ilocked' \in [Inums -> Procs \cup {Unlocked}]
  BY <1>2, <1>3, <1>6 DEF Typed
<1>11. i = loc[p].ip
  OBVIOUS
<1> HIDE DEF i
<1>12. "made" \in {"made", "exists"} /\ ilocked[i] \in {Unlocked, p}
  BY <1>7
<1> QED  BY <1>1, <1>3, <1>4, <1>6, <1>7, <1>8, <1>9, <1>10, <1>11, <1>12, CallEnds

LEMMA ExistsStep ==
  ASSUME IInv, NEW p \in Procs, Exists(p)
  PROVE  IInv'
<1> DEFINE i == loc[p].ip
           c == loc[p].call
<1>1. At(p, "exists") /\ CanLock(i)
  BY DEF Exists
<1>2. Typed
  BY DEF IInv
<1>3. /\ ivalid' = Loaded(i, None) /\ ilocked' = ilocked
      /\ UNCHANGED <<iref, cwd, raced, ipanic>>
  BY DEF Exists
<1>4. \/ /\ Set(p, NoLocals) /\ inode' = inode
         /\ c.name = "create" /\ opened' = [opened EXCEPT ![p] = i]
      \/ Set(p, Done(<<i>>)) /\ opened' = opened /\ (inode' = inode \/ Retarget(i, c.new))
  BY DEF Exists, Retarget
<1>5. loc[p] \in Locals /\ Shape(loc[p]) /\ loc[p].pc = "exists"
  BY <1>1, AtFacts
<1>6. i \in Inums /\ c.new \in Paths /\ ilocked[i] \in {Unlocked, p} /\ inode[i].type # "free"
  BY <1>1, <1>5, NoInum DEF Shape, Locals, CanLock
<1>7. inode'[i].type # "free"
  <2>1. CASE inode' = inode
    BY <1>6, <2>1
  <2>2. CASE Retarget(i, c.new)
    BY <1>6, <2>2, Retargeted
  <2> QED  BY <1>4, <2>1, <2>2
<1>8. ValidKept /\ ivalid' \in [Inums -> BOOLEAN]
  BY <1>2, <1>3, <1>6, <1>7, LoadedKept
<1>9. \A x \in Inums : HasLocked(p, x) <=> x = None
  BY <1>5, NoInum DEF HasLocked
<1>10. /\ \A x \in Inums : ilocked'[x] = IF x = None THEN Unlocked ELSE ilocked[x]
       /\ ilocked' \in [Inums -> Procs \cup {Unlocked}]
  BY <1>2, <1>3, NoInum DEF Typed
<1>11. i = loc[p].ip
  OBVIOUS
<1> HIDE DEF i
<1>12. "exists" \in {"made", "exists"}
  OBVIOUS
<1> QED  BY <1>1, <1>3, <1>4, <1>6, <1>8, <1>9, <1>10, <1>11, <1>12, CallEnds

\* The entry n of d, for i, is cleared, and with it the ".." of a directory i.
Clear(d, n, k) == inode' = [inode EXCEPT ![d].ent[n] = None, ![d].nlink = @ - k]
LEMMA EntryCleared ==
  ASSUME IInv, NEW d \in Inums, NEW n \in DNames, NEW i \in Inums, inode[d].ent[n] = i, i # d,
         NEW k, k = IF inode[i].type = "dir" THEN 1 ELSE 0, Clear(d, n, k)
  PROVE  /\ inode' \in [Inums -> Node] /\ OneTree'
         /\ \A x : LinksOf(inode', x) \ {<<d, n>>} = LinksOf(inode, x) \ {<<d, n>>}
         /\ \A x \in Inums : /\ inode'[x].type = inode[x].type
                             /\ inode'[x].nlink = inode[x].nlink - (IF x = d THEN k ELSE 0)
                             /\ x # d => inode'[x].ent = inode[x].ent
         /\ \A x \in Inums : /\ LB(inode', <<d, n>>, x) = 0
                             /\ LB(inode, <<d, n>>, x) = IF x = i THEN 1 ELSE IF x = d THEN k ELSE 0
<1>1. inode \in [Inums -> Node] /\ OneTree /\ inode[d] \in Node
  BY DEF IInv, Typed
<1>2. n \in Forward /\ n \in DEntries /\ n # ".." /\ ".." \in DEntries
  BY InodesFinite DEF Forward, DEntries
<1>3. i # None /\ None \in 0..NINODES
  BY NoInum
<1>4. inode[d].type = "dir"
  <2>1. inode[d].ent # NoEntries
    BY <1>2, <1>3 DEF NoEntries
  <2> QED  BY <1>1, <2>1 DEF OneTree, EntriesOfDirs
<1>5. \A x \in Inums : LB(inode, <<d, n>>, x) = IF x = i THEN 1 ELSE IF x = d THEN k ELSE 0
  <2>1. \A x \in Inums : <<d, n>> \in LinksOf(inode, x) <=> x = i \/ (x = d /\ inode[i].type = "dir")
    BY <1>2, <1>3 DEF LinksOf
  <2> QED  BY <2>1 DEF LB
<1>6. inode[d].nlink \in Nat /\ inode[d].nlink - k \in Nat
  <2>1. CASE k = 0
    BY <2>1, CountPositive
  <2>2. CASE k # 0
    <3>1. <<d, n>> \in LinksOf(inode, d) /\ k = 1
      BY <1>5, <2>2 DEF LB
    <3> QED  BY <3>1, CountPositive
  <2> QED  BY <2>1, <2>2
<1> DEFINE r == [inode[d] EXCEPT !.ent[n] = None, !.nlink = @ - k]
<1>7. /\ r \in Node /\ r.type = inode[d].type /\ r.nlink = inode[d].nlink - k
      /\ \A m \in DEntries : r.ent[m] = IF m = n THEN None ELSE inode[d].ent[m]
  <2>1. inode[d].ent \in [DEntries -> 0..NINODES]
    BY <1>1 DEF Node
  <2>2. r \in Node /\ r.type = inode[d].type /\ r.nlink = inode[d].nlink - k /\ r.ent = [inode[d].ent EXCEPT ![n] = None]
    BY <1>1, <1>3, <1>6, <2>1 DEF Node
  <2> QED  BY <2>1, <2>2
<1>8. inode' = [inode EXCEPT ![d] = r]
  BY <1>1 DEF Clear
<1> HIDE DEF r
<1>9. inode' \in [Inums -> Node] /\ inode'[d] = r /\ \A x \in Inums : x # d => inode'[x] = inode[x]
  BY <1>1, <1>7, <1>8
<1>10. \A x \in Inums : /\ inode'[x].type = inode[x].type
                        /\ x # d => inode'[x].ent = inode[x].ent
                        /\ inode[x].type = "free" => inode'[x] = inode[x]
                        /\ inode[x].type # "dir" => inode'[x].ent = inode[x].ent
                        /\ inode'[x].ent[".."] = inode[x].ent[".."]
  BY <1>2, <1>4, <1>7, <1>9
<1>11. \A x \in Inums : inode'[x].nlink = inode[x].nlink - (IF x = d THEN k ELSE 0)
  <2>1. \A x \in Inums : inode[x].nlink \in Nat
    BY CountPositive
  <2> QED  BY <1>7, <1>9, <2>1
<1>12. \A x \in Inums, m \in Forward : /\ inode'[x].ent[m] \in {inode[x].ent[m], None}
                                       /\ <<x, m>> # <<d, n>> => inode'[x].ent[m] = inode[x].ent[m]
  BY <1>7, <1>9 DEF Forward
<1>13. OneTree'
  BY <1>1, <1>9, <1>10, <1>12, TreeLess
<1>14. \A x : LinksOf(inode', x) \ {<<d, n>>} = LinksOf(inode, x) \ {<<d, n>>}
  <2>1. \A x \in Inums, m \in Forward : <<x, m>> # <<d, n>> => inode'[x].ent[m] = inode[x].ent[m]
    BY <1>12
  <2>2. \A x \in Inums : inode'[x].type = inode[x].type
    BY <1>10
  <2> QED  BY <1>9, <2>1, <2>2, LinksOne
<1>15. \A x \in Inums : LB(inode', <<d, n>>, x) = 0
  <2>1. inode'[d].ent[n] = None
    BY <1>2, <1>7, <1>9
  <2>2. \A x \in Inums : <<d, n>> \notin LinksOf(inode', x)
    BY <2>1 DEF LinksOf
  <2> QED  BY <2>2 DEF LB
<1> QED  BY <1>5, <1>9, <1>10, <1>11, <1>13, <1>14, <1>15

LEMMA UnlinkParentStep ==
  ASSUME IInv, NEW p \in Procs, UnlinkParent(p)
  PROVE  IInv'
<1> DEFINE d == loc[p].dp
           n == loc[p].name
           i == inode[d].ent[n]
<1>1. At(p, "parent") /\ CanLock(d)
  BY DEF UnlinkParent
<1>2. Typed /\ Locked
  BY DEF IInv
<1>3. UNCHANGED <<inode, cwd, opened, raced, nameCalls, ipanic>>
  BY DEF UnlinkParent
<1>4. \/ Set(p, Done(<<d>>)) /\ ilocked' = ilocked /\ iref' = iref /\ ivalid' = Loaded(d, None)
      \/ /\ n \notin {".", ".."} /\ i # None /\ ilocked' = [ilocked EXCEPT ![d] = p]
         /\ Set(p, [loc[p] EXCEPT !.pc = "unlink", !.ip = i]) /\ iref' = Got(i) /\ ivalid' = Loaded(d, i)
  BY DEF UnlinkParent
<1>5. /\ loc[p] \in Locals /\ Shape(loc[p]) /\ loc[p].pc = "parent" /\ loc[p].puts = <<>> /\ loc[p].dropping = FALSE
      /\ Live(cwd[p]) /\ Live(opened[p]) /\ cwd[p] \in Inums /\ KnownAt(p)
  BY <1>1, AtFacts
<1>6. loc[p].call.name = "unlink"
  BY DEF UnlinkParent
<1>7. d \in Inums /\ inode[d].type = "dir" /\ loc[p].ip = None /\ n \in DEntries /\ loc[p].old = None
  BY <1>5, <1>6, NoInum DEF Shape, Locals, KnownAt
<1>8. /\ cwd' \in [Procs -> Inums] /\ opened' \in [Procs -> 0..NINODES]
      /\ \A q \in Procs \ {p} : cwd'[q] = cwd[q] /\ opened'[q] = opened[q]
      /\ raced' = raced /\ ipanic' = ipanic /\ cwd' = cwd /\ opened' = opened /\ inode' = inode
  BY <1>2, <1>3 DEF Typed
<1>9. \A x : Five(p, x) = B(cwd[p], x) + B(opened[p], x) + B(None, x) + B(d, x) + B(None, x)
  BY <1>7 DEF Five
<1>10. CASE Set(p, Done(<<d>>)) /\ ilocked' = ilocked /\ iref' = iref /\ ivalid' = Loaded(d, None)
  <2> DEFINE r == Done(<<d>>)
  <2>1. r \in Locals /\ Shape(r) /\ Is(r, "idle", None, None, None, <<d>>) /\ r.call.name = "none"
    <3>1. <<d>> \in Seq(Inums) /\ Len(<<d>>) <= 2
      BY <1>7, ToPutSeqs
    <3> QED  BY <3>1, DoneIs
  <2>2. Set(p, r)
    BY <1>10
  <2> HIDE DEF r
  <2>3. r.ip = None /\ r.dp = None /\ r.old = None /\ r.puts = <<d>> /\ r.dropping = FALSE /\ r.pc = "idle"
    BY <2>1 DEF Is
  <2>4. ValidKept /\ ivalid' \in [Inums -> BOOLEAN]
    BY <1>2, <1>7, <1>8, <1>10, LoadedKept
  <2>5. Balance(p, r, None)
    BY <1>8, <1>9, <2>3, PutsBIs, NoInum DEF Balance, B
  <2>6. LiveLocals(p, r)
    <3>1. Len(r.puts) # 2
      BY <2>3
    <3> QED  BY <1>5, <1>8, <2>3, <3>1 DEF LiveLocals, Live
  <2>7. "parent" \notin {"unlink", "unlock", "made", "unlinked"} /\ r.pc \notin {"unlink", "unlock", "made", "unlinked"}
        /\ (r.pc = "parent" => inode[r.dp].type = "dir") /\ r.old \in {None, loc[p].old}
        /\ (r.call.name \in {"open", "open_target", "create"} => opened'[p] = None)
    BY <2>1, <2>3
  <2>8. iref' = Got(None) /\ UNCHANGED <<inode, ilocked, raced, ipanic>>
    BY <1>2, <1>8, <1>10, Got0
  <2> QED  BY <1>1, <1>8, <2>1, <2>2, <2>3, <2>4, <2>5, <2>6, <2>7, <2>8, QuietMove
<1>11. CASE /\ n \notin {".", ".."} /\ i # None /\ ilocked' = [ilocked EXCEPT ![d] = p]
            /\ Set(p, [loc[p] EXCEPT !.pc = "unlink", !.ip = i]) /\ iref' = Got(i) /\ ivalid' = Loaded(d, i)
  <2> DEFINE r == [loc[p] EXCEPT !.pc = "unlink", !.ip = i]
  <2>1. i \in Inums /\ inode[i].type # "free" /\ n \in DNames
    <3>1. n \in DNames
      BY <1>7, <1>11 DEF DEntries
    <3> QED  BY <1>7, <1>11, <3>1, EntryLive
  <2>2. Set(p, r) /\ inode[d].ent[n] = i /\ ilocked' = [ilocked EXCEPT ![d] = p] /\ iref' = Got(i) /\ ivalid' = Loaded(d, i)
    BY <1>11
  <2> HIDE DEF i
  <2>3. r \in Locals /\ Is(r, "unlink", i, d, None, <<>>) /\ r.call = loc[p].call /\ r.name = n
    <3>1. i \in 0..NINODES
      BY <2>1, NoInum
    <3> QED  BY <1>5, <1>7, <3>1 DEF Locals, Is
  <2> HIDE DEF r
  <2>4. r.ip = i /\ r.dp = d /\ r.old = None /\ r.puts = <<>> /\ r.dropping = FALSE /\ r.pc = "unlink"
    BY <2>3 DEF Is
  <2>5. Shape(r)
    BY <1>7, <2>1, <2>3, <2>4, ToPutSeqs, NoInum DEF Shape
  <2>6. loc'[p] = r /\ Others(p)
    BY <1>2, <1>8, <2>2, <2>3, SetLocals DEF Others
  <2>7. Covered' /\ OneTree' /\ NodesKept(p) /\ inode' \in [Inums -> Node]
    <3>1. \A x \in Inums : PB(p, x)' <= PB(p, x)
      BY <1>5, <1>7, <2>4, <2>6 DEF PB
    <3> QED  BY <1>8, <2>6, <3>1, InodesSame
  <2>8. ValidKept /\ ivalid' \in [Inums -> BOOLEAN] /\ ivalid'[d]
    BY <1>2, <1>7, <1>8, <2>2, LoadedKept
  <2>9. Balance(p, r, i)
    BY <1>8, <1>9, <2>4, PutsBIs, NoInum DEF Balance, B
  <2>10. LiveLocals(p, r)
    <3>1. Len(r.puts) # 2
      BY <2>4, EmptySeq
    <3> QED  BY <1>5, <1>7, <1>8, <2>1, <2>4, <3>1 DEF LiveLocals, Live
  <2>11. KnownAt(p)'
    BY <1>6, <1>7, <1>8, <2>2, <2>3, <2>4, <2>6 DEF KnownAt
  <2>12. LocksMoved(p)
    <3>1. (\A x \in Inums : HasLocked(p, x) <=> x = None) /\ (\A x \in Inums : HasLocked(p, x)' <=> x = d)
      BY <1>5, <2>4, <2>6, NoInum DEF HasLocked
    <3>2. \A x \in Inums : ilocked'[x] = IF x = d THEN p ELSE IF x = None THEN Unlocked ELSE ilocked[x]
      BY <1>2, <2>2, NoInum DEF Typed
    <3>3. d \in Inums => ilocked[d] \in {Unlocked, p} /\ ivalid'[d] /\ inode'[d].type # "free"
      BY <1>1, <1>7, <1>8, <2>8 DEF CanLock
    <3>4. LocksPass(p, None, d)
      BY <3>1, <3>2, <3>3 DEF LocksPass
    <3> QED  BY <1>2, <3>4, LocksHeld
  <2>13. ilocked' \in [Inums -> Procs \cup {Unlocked}]
    BY <1>2, <2>2 DEF Typed
  <2> QED  BY <1>1, <1>8, <2>2, <2>3, <2>4, <2>5, <2>7, <2>8, <2>9, <2>10, <2>11, <2>12, <2>13, GenMove
<1> QED  BY <1>4, <1>10, <1>11

LEMMA UnlinkEntryStep ==
  ASSUME IInv, NEW p \in Procs, UnlinkEntry(p)
  PROVE  IInv'
<1> DEFINE d == loc[p].dp
           i == loc[p].ip
           n == loc[p].name
           k == IF inode[i].type = "dir" THEN 1 ELSE 0
           r1 == [loc[p] EXCEPT !.pc = "unlock", !.ip = None, !.puts = <<i>>]
           r2 == [loc[p] EXCEPT !.pc = "unlinked", !.dp = None, !.puts = <<d>>]
<1>1. At(p, "unlink") /\ CanLock(i)
  BY DEF UnlinkEntry
<1>2. Typed /\ Locked
  BY DEF IInv
<1>3. ivalid' = Loaded(i, None) /\ UNCHANGED <<iref, cwd, opened, raced, ipanic>>
  BY DEF UnlinkEntry
<1>4. \/ Set(p, r1) /\ inode' = inode /\ ilocked' = ilocked
      \/ Set(p, r2) /\ Clear(d, n, k) /\ ilocked' = [ilocked EXCEPT ![d] = Unlocked, ![i] = p]
  BY DEF UnlinkEntry, Clear
<1>5. /\ loc[p] \in Locals /\ Shape(loc[p]) /\ loc[p].pc = "unlink" /\ loc[p].puts = <<>> /\ loc[p].dropping = FALSE
      /\ Live(cwd[p]) /\ Live(opened[p]) /\ KnownAt(p)
  BY <1>1, AtFacts
<1>6. /\ d \in Inums /\ i \in Inums /\ n \in DNames /\ loc[p].old = None
      /\ inode[d].type = "dir" /\ inode[d].ent[n] = i
      /\ inode[i].type # "free" /\ ilocked[i] = Unlocked
  BY <1>1, <1>5, NoInum DEF Shape, Locals, KnownAt, CanLock
<1>7. ilocked[d] = p /\ i # d
  <2>1. HasLocked(p, d)
    BY <1>5 DEF HasLocked
  <2>2. ilocked[d] = p
    BY <1>2, <1>6, <2>1 DEF Locked
  <2>3. p # Unlocked
    BY InodesFinite
  <2> QED  BY <1>6, <2>2, <2>3
<1>8. /\ cwd' \in [Procs -> Inums] /\ opened' \in [Procs -> 0..NINODES] /\ iref' = Got(None)
      /\ \A q \in Procs \ {p} : cwd'[q] = cwd[q] /\ opened'[q] = opened[q]
      /\ raced' = raced /\ ipanic' = ipanic /\ cwd' = cwd /\ opened' = opened
  BY <1>2, <1>3, Got0 DEF Typed
<1>9. \A x : Five(p, x) = B(cwd[p], x) + B(opened[p], x) + B(i, x) + B(d, x) + B(None, x)
  BY <1>6 DEF Five
<1>10. \A x \in Inums : (HasLocked(p, x) <=> x = d) /\ PB(p, x) = 0
  BY <1>5, <1>6, NoInum DEF HasLocked, PB
<1>11. cwd[p] \in 0..NINODES /\ opened[p] \in 0..NINODES /\ i \in 0..NINODES /\ d \in 0..NINODES
  BY <1>2, <1>6, NoInum DEF Typed
<1>12. /\ <<i>> \in Seq(Inums) /\ Len(<<i>>) <= 2 /\ Len(<<i>>) # 2 /\ <<i>> # <<>>
       /\ <<d>> \in Seq(Inums) /\ Len(<<d>>) <= 2 /\ Len(<<d>>) # 2 /\ <<d>> # <<>>
  BY <1>6, ToPutSeqs
<1>13. CASE Set(p, r1) /\ inode' = inode /\ ilocked' = ilocked
  <2> DEFINE r == r1
  <2> HIDE DEF d, i, n
  <2>1. r \in Locals /\ Is(r, "unlock", None, d, None, <<i>>) /\ r.call = loc[p].call
    BY <1>5, <1>6, <1>11, <1>12, NoInum DEF Locals, Is, d, i, n
  <2>2. Set(p, r)
    BY <1>13
  <2> HIDE DEF r
  <2>3. r.ip = None /\ r.dp = d /\ r.old = None /\ r.puts = <<i>> /\ r.dropping = FALSE /\ r.pc = "unlock"
    BY <2>1 DEF Is
  <2>4. Shape(r)
    BY <1>6, <1>12, <2>3, NoInum DEF Shape
  <2>5. loc'[p] = r /\ Others(p)
    BY <1>2, <1>8, <2>1, <2>2, SetLocals DEF Others
  <2>6. Covered' /\ OneTree' /\ NodesKept(p) /\ inode' \in [Inums -> Node]
    <3>1. \A x \in Inums : PB(p, x)' <= PB(p, x)
      BY <1>10, <2>3, <2>5, NoInum DEF PB
    <3> QED  BY <1>13, <2>5, <3>1, InodesSame
  <2>7. ValidKept /\ ivalid' \in [Inums -> BOOLEAN]
    BY <1>2, <1>3, <1>6, <1>13, LoadedKept
  <2>8. Balance(p, r, None)
    BY <1>8, <1>9, <2>3, PutsBIs, NoInum DEF Balance, B
  <2>9. LiveLocals(p, r)
    BY <1>5, <1>6, <1>8, <1>12, <1>13, <2>3 DEF LiveLocals, Live
  <2>10. KnownAt(p)'
    BY <1>5, <1>6, <1>8, <1>13, <2>1, <2>3, <2>5 DEF KnownAt
  <2>11. LocksMoved(p)
    <3>1. (\A x \in Inums : HasLocked(p, x)' <=> x = d)
      BY <2>3, <2>5 DEF HasLocked
    <3>2. \A x \in Inums : HasLocked(p, x)' <=> HasLocked(p, x)
      BY <1>10, <3>1
    <3>3. Counted
      BY DEF IInv
    <3> QED  BY <1>2, <1>13, <2>6, <2>7, <3>2, <3>3, LocksQuiet
  <2>12. ilocked' \in [Inums -> Procs \cup {Unlocked}]
    BY <1>2, <1>13 DEF Typed
  <2> QED  BY <1>1, <1>8, <2>1, <2>2, <2>3, <2>4, <2>6, <2>7, <2>8, <2>9, <2>10, <2>11, <2>12, GenMove
<1>14. CASE Set(p, r2) /\ Clear(d, n, k) /\ ilocked' = [ilocked EXCEPT ![d] = Unlocked, ![i] = p]
  <2> DEFINE r == r2
             e == <<d, n>>
  <2> HIDE DEF d, i, n
  <2>0. k = (IF inode[i].type = "dir" THEN 1 ELSE 0) /\ k \in {0, 1}
    OBVIOUS
  <2>1. r \in Locals /\ Is(r, "unlinked", i, None, None, <<d>>) /\ r.call = loc[p].call
    BY <1>5, <1>6, <1>11, <1>12, NoInum DEF Locals, Is, d, i, n
  <2>2. Set(p, r) /\ Clear(d, n, k) /\ ilocked' = [ilocked EXCEPT ![d] = Unlocked, ![i] = p]
    BY <1>14
  <2> HIDE DEF r, k
  <2>3. r.ip = i /\ r.dp = None /\ r.old = None /\ r.puts = <<d>> /\ r.dropping = FALSE /\ r.pc = "unlinked"
    BY <2>1 DEF Is
  <2>4. Shape(r)
    BY <1>6, <1>12, <2>3, NoInum DEF Shape
  <2>5. loc'[p] = r /\ Others(p)
    BY <1>2, <1>8, <2>1, <2>2, SetLocals DEF Others
  <2>6. /\ inode' \in [Inums -> Node] /\ OneTree'
        /\ \A x : LinksOf(inode', x) \ {e} = LinksOf(inode, x) \ {e}
        /\ \A x \in Inums : /\ inode'[x].type = inode[x].type
                            /\ inode'[x].nlink = inode[x].nlink - (IF x = d THEN k ELSE 0)
                            /\ x # d => inode'[x].ent = inode[x].ent
        /\ \A x \in Inums : /\ LB(inode', e, x) = 0
                            /\ LB(inode, e, x) = IF x = i THEN 1 ELSE IF x = d THEN k ELSE 0
    BY <1>6, <1>7, <2>0, <2>2, EntryCleared
  <2>7. ValidKept /\ ivalid' \in [Inums -> BOOLEAN] /\ ivalid'[i]
    <3>1. inode'[i].type # "free"
      BY <1>6, <2>6
    <3> QED  BY <1>2, <1>3, <1>6, <3>1, LoadedKept
  <2>8. NodesKept(p)
    <3>1. ASSUME NEW x \in Inums, x = d PROVE Refs(p, x)' > 0
      <4>1. r.puts = <<x>>
        BY <2>3, <3>1
      <4>2. r \in Locals /\ Set(p, r)
        BY <2>1, <2>2
      <4> QED  BY <1>2, <4>1, <4>2, PutReferred
    <3>2. ivalid'[d]
      <4>1. ivalid[d]
        BY <1>2, <1>6, <1>7, InodesFinite DEF Locked
      <4> QED  BY <1>2, <1>3, <1>6, <1>7, <4>1, NoInum DEF Loaded, Typed
    <3>3. \A x \in Inums : x # d => inode'[x].nlink = inode[x].nlink
      <4>1. \A x \in Inums : inode[x].nlink \in Nat
        BY CountPositive
      <4> QED  BY <2>6, <4>1
    <3> QED  BY <1>7, <2>6, <3>1, <3>2, <3>3 DEF NodesKept
  <2>9. Balance(p, r, None)
    BY <1>8, <1>9, <2>3, PutsBIs, NoInum DEF Balance, B
  <2>10. LiveLocals(p, r)
    <3>1. (cwd'[p] # None => inode'[cwd'[p]].type # "free") /\ (opened'[p] # None => inode'[opened'[p]].type # "free")
      BY <1>5, <1>8, <1>11, <2>8, LiveKept
    <3> QED  BY <1>6, <1>12, <2>3, <2>6, <3>1 DEF LiveLocals, Live
  <2>11. KnownAt(p)'
    BY <1>5, <1>8, <2>1, <2>3, <2>5 DEF KnownAt
  <2>12. LocksMoved(p)
    <3>1. \A x \in Inums : HasLocked(p, x)' <=> x = i
      BY <2>3, <2>5 DEF HasLocked
    <3>2. \A x \in Inums : ilocked'[x] = IF x = i THEN p ELSE IF x = d THEN Unlocked ELSE ilocked[x]
      BY <1>2, <2>2 DEF Typed
    <3>3. i \in Inums => ilocked[i] \in {Unlocked, p} /\ ivalid'[i] /\ inode'[i].type # "free"
      BY <1>6, <2>6, <2>7
    <3>4. LocksPass(p, d, i)
      BY <1>10, <3>1, <3>2, <3>3 DEF LocksPass
    <3> QED  BY <1>2, <3>4, LocksHeld
  <2>13. Covered'
    <3>1. ASSUME NEW x \in Inums
          PROVE  inode'[x].nlink - LB(inode', e, x) - PB(p, x)' >= inode[x].nlink - LB(inode, e, x) - PB(p, x)
      <4>1. PB(p, x) = 0 /\ PB(p, x)' = IF x = i THEN 1 ELSE 0
        BY <1>10, <2>3, <2>5, NoInum DEF PB
      <4>2. inode[x].nlink \in Nat
        BY CountPositive
      <4>3. /\ LB(inode', e, x) = 0 /\ LB(inode, e, x) = IF x = i THEN 1 ELSE IF x = d THEN k ELSE 0
            /\ inode'[x].nlink = inode[x].nlink - (IF x = d THEN k ELSE 0)
        BY <2>6
      <4> HIDE DEF e
      <4> QED  BY <1>7, <2>0, <4>1, <4>2, <4>3
    <3>2. \A x \in Inums : LinksOf(inode', x) \ {e} = LinksOf(inode, x) \ {e}
      BY <2>6
    <3> HIDE DEF e
    <3> QED  BY <2>5, <2>6, <3>1, <3>2, CoverMoved
  <2>14. ilocked' \in [Inums -> Procs \cup {Unlocked}]
    BY <1>2, <2>2 DEF Typed
  <2> QED  BY <1>1, <1>8, <2>1, <2>2, <2>3, <2>4, <2>6, <2>7, <2>8, <2>9, <2>10, <2>11, <2>12, <2>13, <2>14, GenMove
<1> QED  BY <1>4, <1>13, <1>14

\* ialloc() and dirlink(): the free inode j gets type t and the entry n of d.
NewNode(j, d, t) ==
  [FreeInode EXCEPT !.type = t, !.nlink = 1,
     !.ent = IF t = "dir" THEN [@ EXCEPT !["."] = j, ![".."] = d] ELSE @]
Alloc(d, n, j, t) ==
  inode' = [inode EXCEPT ![j] = NewNode(j, d, t), ![d].ent[n] = j,
                         ![d].nlink = @ + IF t = "dir" THEN 1 ELSE 0]

LEMMA NewNodeIs ==
  ASSUME NEW j \in Inums, NEW d \in Inums, NEW t \in {"file", "dir", "sym"}
  PROVE  /\ NewNode(j, d, t) \in Node /\ NewNode(j, d, t).type = t /\ NewNode(j, d, t).nlink = 1
         /\ \A m \in Forward : NewNode(j, d, t).ent[m] \in {None, j} /\ (m \in DNames => NewNode(j, d, t).ent[m] = None)
         /\ t = "dir" => NewNode(j, d, t).ent[".."] = d
         /\ t # "dir" => NewNode(j, d, t).ent = NoEntries
<1>0. j \in 0..NINODES /\ d \in 0..NINODES /\ None \in 0..NINODES /\ <<>> \in Paths
  <2>1. <<>> \in Paths
    BY DEF Paths
  <2> QED  BY <2>1, NoInum
<1>1. /\ "." \in DEntries /\ ".." \in DEntries /\ DNames \subseteq DEntries /\ Forward \subseteq DEntries
      /\ "." \notin DNames /\ ".." \notin DNames /\ ".." \notin Forward
  BY InodesFinite DEF DEntries, Forward
<1>2. NoEntries \in [DEntries -> 0..NINODES] /\ \A m \in DEntries : NoEntries[m] = None
  BY <1>0 DEF NoEntries
<1> DEFINE f == [NoEntries EXCEPT !["."] = j, ![".."] = d]
<1>3. f \in [DEntries -> 0..NINODES] /\ f[".."] = d /\ \A m \in DEntries : m # ".." => f[m] = IF m = "." THEN j ELSE None
  BY <1>0, <1>1, <1>2
<1>4. FreeInode \in Node /\ FreeInode.ent = NoEntries
  BY <1>0, <1>2 DEF FreeInode, Node
<1>5. t \in {"free", "file", "dir", "sym"} /\ 1 \in Nat
  OBVIOUS
<1> DEFINE r == NewNode(j, d, t)
<1> HIDE DEF f
<1>6. CASE t = "dir"
  <2>1. r = [FreeInode EXCEPT !.type = t, !.nlink = 1, !.ent = f]
    BY <1>4, <1>6 DEF NewNode, f
  <2> HIDE DEF r
  <2>2. r.type = t /\ r.nlink = 1 /\ r.ent = f /\ r \in Node
    BY <1>3, <1>4, <1>5, <2>1 DEF Node
  <2> HIDE DEF r
  <2> QED  BY <1>1, <1>3, <1>6, <2>2 DEF r
<1>7. CASE t # "dir"
  <2>1. r = [FreeInode EXCEPT !.type = t, !.nlink = 1]
    BY <1>4, <1>7 DEF NewNode, Node
  <2> HIDE DEF r
  <2>2. r.type = t /\ r.nlink = 1 /\ r.ent = NoEntries /\ r \in Node
    BY <1>4, <1>5, <2>1 DEF Node
  <2> HIDE DEF r
  <2> QED  BY <1>1, <1>2, <1>7, <2>2 DEF r
<1> QED  BY <1>6, <1>7

LEMMA Allocated ==
  ASSUME IInv, NEW d \in Inums, NEW n \in DEntries, NEW j \in Inums, NEW t \in {"file", "dir", "sym"},
         inode[d].type = "dir", inode[d].ent[n] = None, inode[j].type = "free", Alloc(d, n, j, t)
  PROVE  LET k == IF t = "dir" THEN 1 ELSE 0 IN
         /\ inode' \in [Inums -> Node] /\ OneTree'
         /\ \A x : LinksOf(inode', x) \ {<<d, n>>} = LinksOf(inode, x) \ {<<d, n>>}
         /\ \A x \in Inums :
              /\ inode'[x].type = IF x = j THEN t ELSE inode[x].type
              /\ inode'[x].nlink = IF x = j THEN 1 ELSE inode[x].nlink + (IF x = d THEN k ELSE 0)
              /\ x \notin {d, j} => inode'[x].ent = inode[x].ent
         /\ inode[j].nlink = 0 /\ j # d
         /\ \A x \in Inums : /\ LB(inode, <<d, n>>, x) = 0
                             /\ LB(inode', <<d, n>>, x) = IF x = j THEN 1 ELSE IF x = d THEN k ELSE 0
<1> DEFINE k == IF t = "dir" THEN 1 ELSE 0
           new == NewNode(j, d, t)
<1>1. inode \in [Inums -> Node] /\ inode[d] \in Node /\ inode[j] \in Node
  BY DEF IInv, Typed
<1>2. EntriesOfDirs(inode) /\ DotDotUp(inode) /\ NoCircle(inode)
  BY DEF IInv, OneTree
<1>3. n \in Forward /\ ".." \in DEntries /\ n # ".." /\ DNames \subseteq Forward /\ Forward \subseteq DEntries
  BY <1>2, InodesFinite DEF DotDotUp, Forward, DEntries
<1>4. j # d /\ inode[j] = FreeInode /\ inode[j].nlink = 0
  BY <1>2 DEF EntriesOfDirs, FreeInode
<1>5. /\ new \in Node /\ new.type = t /\ new.nlink = 1
      /\ \A m \in Forward : new.ent[m] \in {None, j} /\ (m \in DNames => new.ent[m] = None)
      /\ t = "dir" => new.ent[".."] = d
      /\ t # "dir" => new.ent = NoEntries
  BY NewNodeIs
<1> DEFINE r == [inode[d] EXCEPT !.ent[n] = j, !.nlink = @ + k]
<1>6. /\ r \in Node /\ r.type = "dir" /\ r.nlink = inode[d].nlink + k
      /\ \A m \in DEntries : r.ent[m] = IF m = n THEN j ELSE inode[d].ent[m]
  <2>1. inode[d].ent \in [DEntries -> 0..NINODES] /\ j \in 0..NINODES /\ inode[d].nlink \in Nat /\ k \in Nat
    BY <1>1, NoInum DEF Node
  <2>2. r.ent = [inode[d].ent EXCEPT ![n] = j] /\ r.nlink = inode[d].nlink + k /\ r.type = "dir"
    BY <1>1 DEF Node
  <2>3. [inode[d].ent EXCEPT ![n] = j] \in [DEntries -> 0..NINODES] /\ inode[d].nlink + k \in Nat
    BY <2>1
  <2>4. r \in Node
    BY <1>1, <2>2, <2>3 DEF Node
  <2> QED  BY <2>1, <2>2, <2>4
<1>7. inode' = [[inode EXCEPT ![j] = new] EXCEPT ![d] = r]
  BY <1>1, <1>4 DEF Alloc
<1> HIDE DEF r, new
<1>8. inode' \in [Inums -> Node] /\ inode'[j] = new /\ inode'[d] = r /\ \A x \in Inums \ {d, j} : inode'[x] = inode[x]
  BY <1>1, <1>4, <1>5, <1>6, <1>7
<1>9. \A x \in Inums :
         /\ inode'[x].type = IF x = j THEN t ELSE inode[x].type
         /\ inode'[x].nlink = IF x = j THEN 1 ELSE inode[x].nlink + (IF x = d THEN k ELSE 0)
         /\ x \notin {d, j} => inode'[x].ent = inode[x].ent
  <2>1. \A x \in Inums : inode[x].nlink \in Nat
    BY CountPositive
  <2> QED  BY <1>4, <1>5, <1>6, <1>8, <2>1
<1>10. \A x \in Inums \ {j}, m \in DEntries : inode'[x].ent[m] = IF x = d /\ m = n THEN j ELSE inode[x].ent[m]
  BY <1>6, <1>8
\* No entry names a free inode.
<1>11. \A x \in Inums, m \in Forward : inode[x].ent[m] # j
  <2> SUFFICES ASSUME NEW x \in Inums, NEW m \in Forward, inode[x].ent[m] = j PROVE FALSE
    OBVIOUS
  <2>1. x # j
    BY <1>3, <1>4, NoInum DEF FreeInode, NoEntries
  <2>2. <<x, m>> \in LinksOf(inode, j)
    BY <2>1, NoInum DEF LinksOf
  <2> QED  BY <1>4, <2>2, CountPositive
<1>12. \A x : LinksOf(inode', x) \ {<<d, n>>} = LinksOf(inode, x) \ {<<d, n>>}
  <2> SUFFICES ASSUME NEW x PROVE LinksOf(inode', x) \ {<<d, n>>} = LinksOf(inode, x) \ {<<d, n>>}
    OBVIOUS
  <2>1. ASSUME NEW a \in Inums, NEW b \in Forward, <<a, b>> # <<d, n>>
        PROVE  <<a, b>> \in LinksOf(inode', x) <=> <<a, b>> \in LinksOf(inode, x)
    <3>1. CASE a = j
      <4>1. inode'[j].ent[b] \in {None, j} /\ inode[j].ent[b] = None
        BY <1>3, <1>4, <1>5, <1>8 DEF FreeInode, NoEntries
      <4> QED  BY <3>1, <4>1 DEF LinksOf
    <3>2. CASE a # j
      <4> DEFINE y == inode[a].ent[b]
      <4>1. inode'[a].ent[b] = y /\ y # j /\ y \in 0..NINODES
        BY <1>1, <1>3, <1>10, <1>11, <2>1, <3>2 DEF Node
      <4>2. y # None => inode'[y].type = inode[y].type
        BY <1>9, <4>1, NoInum
      <4> QED  BY <4>1, <4>2 DEF LinksOf
    <3> QED  BY <3>1, <3>2
  <2>2. LinksOf(inode', x) \subseteq Inums \X Forward /\ LinksOf(inode, x) \subseteq Inums \X Forward
    BY DEF LinksOf
  <2>3. \A l \in Inums \X Forward : \E a \in Inums, b \in Forward : l = <<a, b>>
    OBVIOUS
  <2>4. \A l \in Inums \X Forward : l # <<d, n>> => (l \in LinksOf(inode', x) <=> l \in LinksOf(inode, x))
    BY <2>1, <2>3
  <2> QED  BY <2>2, <2>4
<1>13. \A x \in Inums : /\ LB(inode, <<d, n>>, x) = 0
                        /\ LB(inode', <<d, n>>, x) = IF x = j THEN 1 ELSE IF x = d THEN k ELSE 0
  <2>1. \A x \in Inums : <<d, n>> \notin LinksOf(inode, x)
    BY DEF LinksOf
  <2>2. inode'[d].ent[n] = j /\ inode'[j].type = t /\ j # None
    BY <1>4, <1>3, <1>9, <1>10, NoInum
  <2>3. \A x \in Inums : <<d, n>> \in LinksOf(inode', x) <=> x = j \/ (x = d /\ t = "dir")
    BY <1>3, <1>4, <2>2 DEF LinksOf
  <2> QED  BY <2>1, <2>3 DEF LB
<1>14. EntriesOfDirs(inode')
  <2>1. Root # j /\ Root \in Inums
    BY <1>2, NoInum DEF EntriesOfDirs
  <2>2. inode'[Root].type = "dir" /\ inode'[Root].ent[".."] = Root
    BY <1>2, <1>3, <1>9, <1>10, <2>1 DEF EntriesOfDirs
  <2>3. \A i \in Inums : inode'[i].type # "dir" => inode'[i].ent = NoEntries
    BY <1>2, <1>5, <1>8, <1>9 DEF EntriesOfDirs
  <2>4. \A i \in Inums : inode'[i].type = "free" => inode'[i] = FreeInode
    BY <1>2, <1>8, <1>9 DEF EntriesOfDirs
  <2> QED  BY <2>2, <2>3, <2>4 DEF EntriesOfDirs
<1>15. DotDotUp(inode')
  <2>1. d # None
    BY NoInum
  <2>2. \A i \in Inums : inode'[i].type = "dir" => inode'[i].ent[".."] # None
    BY <1>2, <1>3, <1>5, <1>8, <1>9, <1>10, <2>1 DEF DotDotUp
  <2>3. ASSUME NEW x \in Inums, NEW m \in Forward, inode'[x].ent[m] # None, inode'[x].ent[m] # x,
               inode'[inode'[x].ent[m]].type = "dir"
        PROVE  inode'[inode'[x].ent[m]].ent[".."] = x
    <3>1. x # j
      BY <1>5, <1>8, <2>3
    <3>2. CASE x = d /\ m = n
      <4>1. inode'[x].ent[m] = j /\ t = "dir"
        BY <1>3, <1>4, <1>9, <1>10, <2>3, <3>2
      <4> QED  BY <1>5, <1>8, <3>2, <4>1
    <3>3. CASE ~(x = d /\ m = n)
      <4> DEFINE y == inode[x].ent[m]
      <4>1. inode'[x].ent[m] = y /\ y \in 0..NINODES /\ y # j
        BY <1>1, <1>3, <1>10, <1>11, <3>1, <3>3 DEF Node
      <4>2. y \in Inums /\ y # x
        BY <2>3, <4>1, NoInum
      <4>3. inode[y].type = "dir"
        BY <1>9, <2>3, <4>1, <4>2
      <4>4. inode[y].ent[".."] = x
        BY <1>2, <2>3, <4>1, <4>2, <4>3 DEF DotDotUp
      <4>5. inode'[y].ent[".."] = inode[y].ent[".."]
        BY <1>3, <1>10, <4>1, <4>2
      <4> QED  BY <4>1, <4>4, <4>5
    <3> QED  BY <3>2, <3>3
  <2> QED  BY <2>2, <2>3 DEF DotDotUp
<1>16. NoCircle(inode')
  <2>1. \A m \in DNames : inode'[j].ent[m] = None
    BY <1>3, <1>5, <1>8
  <2>2. \A x \in Inums \ {j}, m \in DNames : inode'[x].ent[m] \in {inode[x].ent[m], None, j}
    BY <1>3, <1>10
  <2> QED  BY <1>2, <2>1, <2>2, NoCircleMore
<1> QED  BY <1>4, <1>8, <1>9, <1>12, <1>13, <1>14, <1>15, <1>16 DEF OneTree

LEMMA CreateParentStep ==
  ASSUME IInv, NEW p \in Procs, CreateParent(p)
  PROVE  IInv'
<1> DEFINE d == loc[p].dp
           n == loc[p].name
           i == inode[d].ent[n]
           c == loc[p].call
           type == CASE c.name = "mkdir" -> "dir" [] c.name = "symlink" -> "sym" [] OTHER -> "file"
           r1 == [loc[p] EXCEPT !.pc = "exists", !.dp = None, !.ip = i, !.puts = <<d>>]
           r2(j) == [loc[p] EXCEPT !.pc = "made", !.dp = None, !.ip = j, !.puts = <<d>>]
<1>1. At(p, "parent") /\ CanLock(d)
  BY DEF CreateParent
<1>2. Typed /\ Locked
  BY DEF IInv
<1>3. UNCHANGED <<cwd, opened, raced, nameCalls, ipanic>>
  BY DEF CreateParent
<1>4. \/ /\ i # None /\ iref' = Got(i) /\ ivalid' = Loaded(d, i) /\ Set(p, r1)
         /\ inode' = inode /\ ilocked' = ilocked
      \/ /\ i = None
         /\ \E j \in Inums :
              /\ inode[j].type = "free" /\ iref' = Got(j) /\ ivalid' = [Loaded(d, j) EXCEPT ![j] = TRUE]
              /\ Alloc(d, n, j, type) /\ ilocked' = [ilocked EXCEPT ![j] = p] /\ Set(p, r2(j))
  BY DEF CreateParent, Alloc, NewNode
<1>5. /\ loc[p] \in Locals /\ Shape(loc[p]) /\ loc[p].pc = "parent" /\ loc[p].puts = <<>> /\ loc[p].dropping = FALSE
      /\ Live(cwd[p]) /\ Live(opened[p]) /\ cwd[p] \in Inums /\ KnownAt(p)
  BY <1>1, AtFacts
<1>6. c.name \in {"create", "mkdir", "symlink"}
  BY DEF CreateParent
<1>7. d \in Inums /\ inode[d].type = "dir" /\ loc[p].ip = None /\ n \in DEntries /\ loc[p].old = None
  <2>1. c.name # "link_new"
    BY <1>6
  <2> QED  BY <1>5, <2>1, NoInum DEF Shape, Locals, KnownAt
<1>8. /\ cwd' \in [Procs -> Inums] /\ opened' \in [Procs -> 0..NINODES]
      /\ \A q \in Procs \ {p} : cwd'[q] = cwd[q] /\ opened'[q] = opened[q]
      /\ raced' = raced /\ ipanic' = ipanic /\ cwd' = cwd /\ opened' = opened
  BY <1>2, <1>3 DEF Typed
<1>9. \A x : Five(p, x) = B(cwd[p], x) + B(opened[p], x) + B(None, x) + B(d, x) + B(None, x)
  BY <1>7 DEF Five
<1>10. type \in {"file", "dir", "sym"}
  BY <1>6
<1>11. cwd[p] \in 0..NINODES /\ opened[p] \in 0..NINODES /\ d \in 0..NINODES /\ None \in 0..NINODES
  BY <1>2, <1>7, NoInum DEF Typed
<1>12. <<d>> \in Seq(Inums) /\ Len(<<d>>) <= 2 /\ Len(<<d>>) # 2 /\ <<d>> # <<>>
  BY <1>7, ToPutSeqs
<1>13. CASE /\ i # None /\ iref' = Got(i) /\ ivalid' = Loaded(d, i) /\ Set(p, r1)
            /\ inode' = inode /\ ilocked' = ilocked
  <2> DEFINE r == r1
  <2>1. i \in Inums /\ i \in 0..NINODES /\ (inode[i].type # "free" \/ n = "..")
    BY <1>7, <1>13, EntryLive, NoInum
  <2>2. Set(p, r) /\ iref' = Got(i) /\ ivalid' = Loaded(d, i) /\ inode' = inode /\ ilocked' = ilocked
    BY <1>13
  <2> HIDE DEF i, d, n, c
  <2>3. r \in Locals /\ Is(r, "exists", i, None, None, <<d>>) /\ r.call = c /\ r.name = n
    BY <1>5, <1>7, <1>11, <1>12, <2>1 DEF Locals, Is, n, c
  <2> HIDE DEF r
  <2>4. r.ip = i /\ r.dp = None /\ r.old = None /\ r.puts = <<d>> /\ r.dropping = FALSE /\ r.pc = "exists"
    BY <2>3 DEF Is
  <2>5. Shape(r)
    BY <1>12, <2>1, <2>4, NoInum DEF Shape
  <2>6. ValidKept /\ ivalid' \in [Inums -> BOOLEAN]
    BY <1>2, <1>7, <2>2, LoadedKept
  <2>7. Balance(p, r, i)
    BY <1>8, <1>9, <2>4, PutsBIs, NoInum DEF Balance, B
  <2>8. LiveLocals(p, r)
    BY <1>5, <1>8, <1>12, <2>1, <2>2, <2>3, <2>4 DEF LiveLocals, Live
  <2>9. "parent" \notin {"unlink", "unlock", "made", "unlinked"} /\ r.pc \notin {"unlink", "unlock", "made", "unlinked"}
        /\ (r.pc = "parent" => inode[r.dp].type = "dir") /\ r.old \in {None, loc[p].old}
        /\ (r.call.name \in {"open", "open_target", "create"} => opened'[p] = None)
    BY <1>5, <1>8, <2>3, <2>4 DEF KnownAt, c
  <2>10. UNCHANGED <<inode, ilocked, raced, ipanic>>
    BY <1>8, <2>2
  <2> QED  BY <1>1, <1>8, <2>2, <2>3, <2>4, <2>5, <2>6, <2>7, <2>8, <2>9, <2>10, QuietMove
<1>14. ASSUME i = None, NEW j \in Inums, inode[j].type = "free", iref' = Got(j),
              ivalid' = [Loaded(d, j) EXCEPT ![j] = TRUE],
              Alloc(d, n, j, type), ilocked' = [ilocked EXCEPT ![j] = p], Set(p, r2(j))
       PROVE  IInv'
  <2> DEFINE r == r2(j)
             e == <<d, n>>
             k == IF type = "dir" THEN 1 ELSE 0
  <2>1. j # None /\ j \in 0..NINODES /\ inode[d].ent[n] = None /\ k \in {0, 1}
    BY <1>14, NoInum
  <2>2. Set(p, r)
    BY <1>14
  <2> HIDE DEF i, d, n, c, type
  <2>3. r \in Locals /\ Is(r, "made", j, None, None, <<d>>) /\ r.call = c /\ r.name = n
    BY <1>5, <1>7, <1>11, <1>12, <2>1 DEF Locals, Is, n, c
  <2> HIDE DEF r
  <2>4. r.ip = j /\ r.dp = None /\ r.old = None /\ r.puts = <<d>> /\ r.dropping = FALSE /\ r.pc = "made"
    BY <2>3 DEF Is
  <2>5. Shape(r)
    BY <1>12, <2>1, <2>4 DEF Shape
  <2>6. loc'[p] = r /\ Others(p)
    BY <1>2, <1>8, <2>2, <2>3, SetLocals DEF Others
  <2>7. /\ inode' \in [Inums -> Node] /\ OneTree'
        /\ \A x : LinksOf(inode', x) \ {e} = LinksOf(inode, x) \ {e}
        /\ \A x \in Inums :
             /\ inode'[x].type = IF x = j THEN type ELSE inode[x].type
             /\ inode'[x].nlink = IF x = j THEN 1 ELSE inode[x].nlink + (IF x = d THEN k ELSE 0)
             /\ x \notin {d, j} => inode'[x].ent = inode[x].ent
        /\ inode[j].nlink = 0 /\ j # d
        /\ \A x \in Inums : /\ LB(inode, e, x) = 0
                            /\ LB(inode', e, x) = IF x = j THEN 1 ELSE IF x = d THEN k ELSE 0
    BY <1>7, <1>10, <1>14, <2>1, Allocated
  <2> HIDE DEF k
  <2>8. /\ ivalid' \in [Inums -> BOOLEAN] /\ ivalid'[j] /\ ivalid'[d]
        /\ \A x \in Inums \ {d, j} : ivalid'[x] = ivalid[x]
    <3>1. Loaded(d, j) \in [Inums -> BOOLEAN] /\ Loaded(d, j)[d] /\ \A x \in Inums \ {d, j} : Loaded(d, j)[x] = ivalid[x]
      BY <1>2, <1>7 DEF Loaded, Typed
    <3> QED  BY <1>7, <1>14, <3>1
  <2>9. ValidKept
    <3>1. inode'[d].type # "free" /\ inode'[j].type # "free"
      BY <1>7, <1>10, <2>7
    <3> QED  BY <2>8, <3>1 DEF ValidKept
  <2>10. ilocked[j] = Unlocked /\ ilocked[d] = Unlocked
    BY <1>1, <1>2, <1>14 DEF Locked, CanLock
  <2>11. NodesKept(p)
    <3> SUFFICES ASSUME NEW x \in Inums
                 PROVE  /\ inode[x].type # "free" => inode'[x].type = inode[x].type
                        /\ (inode'[x].type = inode[x].type /\ inode'[x].nlink = inode[x].nlink) \/ inode'[x].nlink # 0
                        /\ ilocked[x] \notin {Unlocked, p} => inode'[x].ent = inode[x].ent
      BY DEF NodesKept
    <3>1. inode[x].nlink \in Nat
      BY CountPositive
    <3>2. CASE x = j
      BY <1>14, <2>7, <2>10, <3>2
    <3>3. CASE x = d
      BY <2>1, <2>7, <2>10, <3>1, <3>3
    <3>4. CASE x \notin {d, j}
      BY <2>7, <3>1, <3>4
    <3> QED  BY <3>2, <3>3, <3>4
  <2>12. Balance(p, r, j)
    BY <1>8, <1>9, <2>4, PutsBIs, NoInum DEF Balance, B
  <2>13. LiveLocals(p, r)
    <3>1. (cwd'[p] # None => inode'[cwd'[p]].type # "free") /\ (opened'[p] # None => inode'[opened'[p]].type # "free")
      BY <1>5, <1>8, <1>11, <2>11, LiveKept
    <3>2. inode'[j].type # "free"
      BY <1>10, <2>7
    <3> QED  BY <1>12, <2>4, <3>1, <3>2 DEF LiveLocals, Live
  <2>14. KnownAt(p)'
    BY <1>5, <1>8, <2>3, <2>4, <2>6 DEF KnownAt, c
  <2>15. LocksMoved(p)
    <3>1. (\A x \in Inums : HasLocked(p, x) <=> x = None) /\ (\A x \in Inums : HasLocked(p, x)' <=> x = j)
      BY <1>5, <2>4, <2>6, NoInum DEF HasLocked
    <3>2. \A x \in Inums : ilocked'[x] = IF x = j THEN p ELSE IF x = None THEN Unlocked ELSE ilocked[x]
      BY <1>2, <1>14, NoInum DEF Typed
    <3>3. j \in Inums => ilocked[j] \in {Unlocked, p} /\ ivalid'[j] /\ inode'[j].type # "free"
      BY <1>10, <2>7, <2>8, <2>10
    <3>4. LocksPass(p, None, j)
      BY <3>1, <3>2, <3>3 DEF LocksPass
    <3> QED  BY <1>2, <3>4, LocksHeld
  <2>16. Covered'
    <3>1. ASSUME NEW x \in Inums
          PROVE  inode'[x].nlink - LB(inode', e, x) - PB(p, x)' >= inode[x].nlink - LB(inode, e, x) - PB(p, x)
      <4>1. PB(p, x) = 0 /\ PB(p, x)' = 0
        BY <1>5, <1>7, <2>4, <2>6, NoInum DEF PB
      <4>2. inode[x].nlink \in Nat
        BY CountPositive
      <4>3. /\ LB(inode, e, x) = 0 /\ LB(inode', e, x) = IF x = j THEN 1 ELSE IF x = d THEN k ELSE 0
            /\ inode'[x].nlink = IF x = j THEN 1 ELSE inode[x].nlink + (IF x = d THEN k ELSE 0)
        BY <2>7
      <4>4. inode[j].nlink = 0 /\ j # d
        BY <2>7
      <4> HIDE DEF e
      <4> QED  BY <2>1, <4>1, <4>2, <4>3, <4>4
    <3>2. \A x \in Inums : LinksOf(inode', x) \ {e} = LinksOf(inode, x) \ {e}
      BY <2>7
    <3> HIDE DEF e
    <3> QED  BY <2>6, <2>7, <3>1, <3>2, CoverMoved
  <2>17. ilocked' \in [Inums -> Procs \cup {Unlocked}]
    BY <1>2, <1>14 DEF Typed
  <2> QED  BY <1>1, <1>8, <1>14, <2>2, <2>3, <2>4, <2>5, <2>7, <2>8, <2>9, <2>11, <2>12, <2>13, <2>14, <2>15, <2>16, <2>17, GenMove
<1> QED  BY <1>4, <1>13, <1>14

-----------------------------------------------------------------------------
\* iput().

\* The pointers that p has, when it is about to put one.
LEMMA PuttingFacts ==
  ASSUME IInv, NEW p \in Procs, Putting(p)
  PROVE  /\ loc[p] \in Locals /\ Shape(loc[p]) /\ loc[p].puts # <<>> /\ ipanic = "none"
         /\ Head(loc[p].puts) \in Inums /\ Pointers(p)[6] = Head(loc[p].puts)
         /\ Len(loc[p].puts) \in {1, 2}
         /\ Tail(loc[p].puts) \in Seq(Inums) /\ Len(Tail(loc[p].puts)) = Len(loc[p].puts) - 1
         /\ Len(loc[p].puts) = 2 => Tail(loc[p].puts)[1] = loc[p].puts[2]
         /\ Head(loc[p].puts) = loc[p].puts[1]
<1>1. loc[p] \in Locals /\ Shape(loc[p])
  BY DEF IInv, Typed, Shaped
<1>2. loc[p].puts # <<>> /\ ipanic = "none"
  BY DEF Putting
<1>3. loc[p].puts \in Seq(Inums)
  BY <1>1 DEF Locals
<1> DEFINE q == loc[p].puts
<1> HIDE DEF q
<1>4. q \in Seq(Inums) /\ q # <<>>
  BY <1>2, <1>3 DEF q
<1>5. Len(q) \in Nat /\ Len(q) # 0 /\ Len(q) <= 2
  <2>1. Len(q) \in Nat /\ Len(q) # 0
    BY <1>4, LenProperties, EmptySeq
  <2> QED  BY <1>1, <2>1 DEF Shape, q
<1>6. /\ Head(q) \in Inums /\ Head(q) = q[1] /\ Tail(q) \in Seq(Inums) /\ Len(Tail(q)) = Len(q) - 1
      /\ \A i \in 1..Len(Tail(q)) : Tail(q)[i] = q[i + 1]
  BY <1>4, HeadTailProperties
<1>7. Len(q) \in {1, 2}
  <2>1. \A m \in Nat : m # 0 /\ m <= 2 => m \in {1, 2}
    OBVIOUS
  <2> QED  BY <1>5, <2>1, Zenon
<1>8. Len(q) = 2 => Tail(q)[1] = q[2]
  <2>1. Len(q) = 2 => 1 \in 1..Len(Tail(q)) /\ 1 + 1 = 2
    BY <1>6
  <2> QED  BY <1>6, <2>1
<1>9. Pointers(p)[6] = q[1]
  <2>1. 1 <= Len(q)
    BY <1>7
  <2> QED  BY <2>1 DEF Pointers, ToPut, q
<1> QED  BY <1>1, <1>2, <1>6, <1>7, <1>8, <1>9 DEF q

\* Besides the one that p is about to put, i has other pointers, or it has none.
LEMMA OtherPointers ==
  ASSUME IInv, NEW p \in Procs, NEW i \in Inums, Pointers(p)[6] = i
  PROVE  /\ iref[i] \in Nat /\ iref[i] > 0
         /\ iref[i] = 1 => \A q \in Procs, k \in 1..7 : Pointers(q)[k] = i => q = p /\ k = 6
         /\ iref[i] # 1 => \E q \in Procs, k \in 1..7 : Pointers(q)[k] = i /\ ~(q = p /\ k = 6)
<1>1. iref[i] = Cardinality(OthersRefs(p, i)) + Refs(p, i) /\ Cardinality(OthersRefs(p, i)) \in Nat /\ Refs(p, i) \in Nat
  BY RefsSplitAlways DEF RefsSplit, IInv, Counted
<1> DEFINE f == Pointers(p)
<1>2. \A x : B(x, i) \in {0, 1} /\ (B(x, i) = 1 <=> x = i)
  BY DEF B
<1>3. Refs(p, i) = B(f[1], i) + B(f[2], i) + B(f[3], i) + B(f[4], i) + B(f[5], i) + 1 + B(f[7], i)
  BY <1>2 DEF Refs
<1>4. \A q \in Procs, k \in 1..7 : q # p /\ Pointers(q)[k] = i => <<q, k>> \in OthersRefs(p, i)
  BY DEF OthersRefs
<1>5. \A r \in OthersRefs(p, i) : r[1] \in Procs /\ r[1] # p /\ r[2] \in 1..7 /\ Pointers(r[1])[r[2]] = i
  BY DEF OthersRefs
<1>6. IsFiniteSet(OthersRefs(p, i))
  <2>1. IsFiniteSet(1..7)
    <3>1. \A a, b \in Int : IsFiniteSet(a..b)
      BY FS_Interval
    <3>2. 1 \in Int /\ 7 \in Int
      OBVIOUS
    <3> QED  BY <3>1, <3>2, Zenon
  <2>2. IsFiniteSet(Procs \X (1..7))
    BY <2>1, InodesFinite, FS_Product
  <2>3. OthersRefs(p, i) \subseteq Procs \X (1..7)
    BY DEF OthersRefs
  <2> QED  BY <2>2, <2>3, FS_Subset
<1>7. Cardinality(OthersRefs(p, i)) = 0 <=> OthersRefs(p, i) = {}
  BY <1>6, FS_EmptySet
<1>8. \A k \in 1..7 : k = 1 \/ k = 2 \/ k = 3 \/ k = 4 \/ k = 5 \/ k = 6 \/ k = 7
  OBVIOUS
<1> HIDE DEF f
<1>9. iref[i] \in Nat /\ iref[i] > 0
  BY <1>1, <1>2, <1>3
<1>10. ASSUME iref[i] = 1, NEW q \in Procs, NEW k \in 1..7, Pointers(q)[k] = i
       PROVE  q = p /\ k = 6
  <2>1. /\ B(f[1], i) = 0 /\ B(f[2], i) = 0 /\ B(f[3], i) = 0 /\ B(f[4], i) = 0 /\ B(f[5], i) = 0 /\ B(f[7], i) = 0
        /\ Cardinality(OthersRefs(p, i)) = 0
    BY <1>1, <1>2, <1>3, <1>10
  <2>2. q = p
    BY <1>4, <1>7, <1>10, <2>1
  <2>3. f[k] = i
    BY <1>10, <2>2 DEF f
  <2> QED  BY <1>2, <1>8, <2>1, <2>2, <2>3
<1>11. ASSUME iref[i] # 1 PROVE \E q \in Procs, k \in 1..7 : Pointers(q)[k] = i /\ ~(q = p /\ k = 6)
  <2>1. CASE OthersRefs(p, i) # {}
    BY <1>5, <2>1
  <2>2. CASE OthersRefs(p, i) = {}
    <3>1. Refs(p, i) # 1
      BY <1>1, <1>7, <1>11, <2>2
    <3>2. B(f[1], i) = 1 \/ B(f[2], i) = 1 \/ B(f[3], i) = 1 \/ B(f[4], i) = 1 \/ B(f[5], i) = 1 \/ B(f[7], i) = 1
      BY <1>2, <1>3, <3>1
    <3>3. f[1] = i \/ f[2] = i \/ f[3] = i \/ f[4] = i \/ f[5] = i \/ f[7] = i
      BY <1>2, <3>2
    <3>4. 1 \in 1..7 /\ 2 \in 1..7 /\ 3 \in 1..7 /\ 4 \in 1..7 /\ 5 \in 1..7 /\ 7 \in 1..7
      OBVIOUS
    <3>5. \E k \in 1..7 : f[k] = i /\ k # 6
      BY <3>3, <3>4
    <3> QED  BY <3>5 DEF f
  <2> QED  BY <2>1, <2>2
<1> QED  BY <1>9, <1>10, <1>11

\* The inode that is put is freed if nothing else refers to it.
LEMMA IputLockedStep ==
  ASSUME IInv, NEW p \in Procs, IputLocked(p)
  PROVE  IInv'
<1> DEFINE i == Head(loc[p].puts)
           unlinked == ivalid[i] /\ inode[i].nlink = 0
           r == [loc[p] EXCEPT !.dropping = TRUE]
<1>1. Putting(p) /\ ~loc[p].dropping /\ ilocked[i] = Unlocked
  BY DEF IputLocked
<1>2. /\ Typed /\ Shaped /\ Counted /\ WillBeFreed /\ Alive /\ FreeNotValid
      /\ Locked /\ Known /\ Covered /\ OneTree
  BY DEF IInv
<1>3. \/ /\ unlinked /\ iref[i] = 1
         /\ inode' = [inode EXCEPT ![i] = FreeInode] /\ ivalid' = [ivalid EXCEPT ![i] = FALSE]
      \/ ~(unlinked /\ iref[i] = 1) /\ inode' = inode /\ ivalid' = ivalid
  BY DEF IputLocked
<1>4. /\ raced' = raced \cup {j \in {i} : unlinked /\ \E q \in Procs \ {p} : loc[q].dropping /\ Head(loc[q].puts) = i}
      /\ Set(p, r) /\ UNCHANGED <<iref, ilocked, cwd, opened, nameCalls, ipanic>>
  BY DEF IputLocked
<1>5. /\ loc[p] \in Locals /\ Shape(loc[p]) /\ loc[p].puts # <<>> /\ ipanic = "none"
      /\ i \in Inums /\ Pointers(p)[6] = i
  BY <1>1, PuttingFacts
<1>6. /\ r \in Locals /\ r.dropping = TRUE /\ r.pc = loc[p].pc /\ r.call = loc[p].call /\ r.path = loc[p].path
      /\ r.name = loc[p].name /\ r.ip = loc[p].ip /\ r.dp = loc[p].dp /\ r.old = loc[p].old /\ r.puts = loc[p].puts
  BY <1>5 DEF Locals
<1>7. loc' \in [Procs -> Locals] /\ loc'[p] = r /\ \A q \in Procs \ {p} : loc'[q] = loc[q]
  BY <1>2, <1>4, <1>6, SetLocals
<1> HIDE DEF r
<1>8. \A q \in Procs :
        /\ loc'[q].pc = loc[q].pc /\ loc'[q].call = loc[q].call /\ loc'[q].path = loc[q].path
        /\ loc'[q].name = loc[q].name /\ loc'[q].ip = loc[q].ip /\ loc'[q].dp = loc[q].dp
        /\ loc'[q].old = loc[q].old /\ loc'[q].puts = loc[q].puts
        /\ loc'[q].dropping = IF q = p THEN TRUE ELSE loc[q].dropping
  BY <1>6, <1>7
<1>9. \A q \in Procs : Pointers(q)' = Pointers(q)
  BY <1>4, <1>8 DEF Pointers, ToPut
<1>10. \A x \in Inums : RefCount(x)' = RefCount(x)
  BY <1>9 DEF RefCount
<1>11. /\ iref[i] \in Nat /\ iref[i] > 0
       /\ iref[i] = 1 => \A q \in Procs, k \in 1..7 : Pointers(q)[k] = i => q = p /\ k = 6
       /\ iref[i] # 1 => \E q \in Procs, k \in 1..7 : Pointers(q)[k] = i /\ ~(q = p /\ k = 6)
  BY <1>5, OtherPointers
<1>12. PICK freed \in BOOLEAN :
         /\ freed => unlinked /\ iref[i] = 1
         /\ inode' = (IF freed THEN [inode EXCEPT ![i] = FreeInode] ELSE inode)
         /\ ivalid' = (IF freed THEN [ivalid EXCEPT ![i] = FALSE] ELSE ivalid)
         /\ ~freed => ~(unlinked /\ iref[i] = 1)
  <2>1. CASE unlinked /\ iref[i] = 1 /\ inode' = [inode EXCEPT ![i] = FreeInode] /\ ivalid' = [ivalid EXCEPT ![i] = FALSE]
    <3> WITNESS TRUE \in BOOLEAN
    <3> QED  BY <2>1
  <2>2. CASE ~(unlinked /\ iref[i] = 1) /\ inode' = inode /\ ivalid' = ivalid
    <3> WITNESS FALSE \in BOOLEAN
    <3> QED  BY <2>2
  <2> QED  BY <1>3, <2>1, <2>2
<1> HIDE DEF i
<1>13. FreeInode \in Node /\ FreeInode.type = "free" /\ FreeInode.nlink = 0 /\ FreeInode.ent = NoEntries
  <2>1. NoEntries \in [DEntries -> 0..NINODES]
    BY NoInum DEF NoEntries
  <2>2. <<>> \in Paths
    BY DEF Paths
  <2> QED  BY <2>1, <2>2 DEF FreeInode, Node
<1>14. /\ inode \in [Inums -> Node] /\ inode' \in [Inums -> Node] /\ ivalid' \in [Inums -> BOOLEAN]
       /\ \A x \in Inums : ~(freed /\ x = i) => inode'[x] = inode[x] /\ ivalid'[x] = ivalid[x]
       /\ freed => inode'[i] = FreeInode /\ ivalid'[i] = FALSE
  BY <1>2, <1>5, <1>12, <1>13 DEF Typed
<1>15. freed => inode[i].nlink = 0 /\ ivalid[i] /\ inode[i].type # "free" /\ LinksOf(inode, i) = {} /\ i # Root
  <2>1. freed => inode[i].nlink = 0 /\ ivalid[i] /\ inode[i].type # "free"
    BY <1>2, <1>5, <1>12 DEF FreeNotValid, i
  <2> QED  BY <1>5, <2>1, CountPositive DEF Base
\* The parts of the invariant.
<1>16. Typed'
  <2>1. raced' \subseteq Inums
    BY <1>2, <1>4, <1>5 DEF Typed, i
  <2> QED  BY <1>2, <1>4, <1>7, <1>14, <2>1 DEF Typed
<1>17. Shaped'
  <2> SUFFICES ASSUME NEW q \in Procs PROVE Shape(loc'[q])
    BY DEF Shaped
  <2>1. Shape(loc[q])
    BY <1>2 DEF Shaped
  <2>2. CASE q # p
    <3>1. loc'[q] = loc[q]
      BY <1>7, <2>2
    <3> QED  BY <2>1, <3>1
  <2>3. CASE q = p
    <3>1. Shape(loc[p]) /\ loc[p].puts # <<>>
      BY <1>5
    <3>2. Shape(r)
      BY <1>6, <3>1 DEF Shape
    <3> QED  BY <1>7, <2>3, <3>2
  <2> QED  BY <2>2, <2>3
<1>18. Counted'
  BY <1>2, <1>4, <1>10 DEF Counted
<1>19. WillBeFreed'
  <2> SUFFICES ASSUME NEW x \in Inums, inode'[x].type # "free", inode'[x].nlink = 0, x \notin raced'
               PROVE  ivalid'[x] /\ Firm(x)'
    BY DEF WillBeFreed
  <2>1. ~(freed /\ x = i)
    BY <1>13, <1>14
  <2>2. inode[x].type # "free" /\ inode[x].nlink = 0 /\ x \notin raced
    BY <1>4, <1>14, <2>1
  <2>3. ivalid'[x] /\ ivalid[x] /\ Firm(x)
    BY <1>2, <1>14, <2>1, <2>2 DEF WillBeFreed
  <2>4. CASE x # i
    <3>1. PICK q \in Procs, k \in 1..7 : Pointers(q)[k] = x /\ ~(k = 6 /\ loc[q].dropping)
      BY <2>3 DEF Firm
    <3>2. ~(q = p /\ k = 6)
      BY <1>5, <2>4, <3>1
    <3>3. Pointers(q)'[k] = x /\ ~(k = 6 /\ loc'[q].dropping)
      BY <1>8, <1>9, <3>1, <3>2
    <3> QED  BY <2>3, <3>3 DEF Firm
  <2>5. CASE x = i
    <3>1. iref[i] # 1 /\ unlinked
      BY <1>12, <2>1, <2>2, <2>3, <2>5 DEF i
    <3>2. PICK q \in Procs, k \in 1..7 : Pointers(q)[k] = i /\ ~(q = p /\ k = 6)
      BY <1>11, <3>1
    <3>3. ASSUME k = 6, loc'[q].dropping PROVE FALSE
      <4>1. q # p /\ loc[q].dropping
        BY <1>8, <3>2, <3>3
      <4>2. Putting(q)
        BY <1>2, <1>5, <4>1 DEF Putting, Shaped, Shape
      <4>3. Head(loc[q].puts) = i
        BY <3>2, <3>3, <4>2, PuttingFacts
      <4>4. i \in raced'
        BY <1>4, <3>1, <4>1, <4>3 DEF i
      <4> QED  BY <2>5, <4>4
    <3>4. Pointers(q)'[k] = x
      BY <1>9, <2>5, <3>2
    <3> QED  BY <2>3, <3>3, <3>4 DEF Firm
  <2> QED  BY <2>4, <2>5
<1>20. Alive'
  <2> SUFFICES ASSUME NEW q \in Procs PROVE AliveAt(q)'
    BY DEF Alive
  <2>1. AliveAt(q)
    BY <1>2 DEF Alive
  <2>2. \A k \in 1..7 : freed /\ Pointers(q)[k] = i => k = 6
    BY <1>11, <1>12
  <2>3. \A k \in 1..7 : Pointers(q)[k] # None => Pointers(q)[k] \in Inums
    BY <1>2, PointersTyped, NoInum
  <2> SUFFICES ASSUME NEW k \in 1..7, NEW x, x = Pointers(q)[k], x # None, inode'[x].type = "free", k # 6
               PROVE  k = 3 /\ loc'[q].name = ".." /\ loc'[q].pc \in {"walk", "last", "exists"}
    BY <1>9 DEF AliveAt
  <2>4. x \in Inums /\ ~(freed /\ x = i)
    BY <2>2, <2>3
  <2>5. inode[x].type = "free"
    BY <1>14, <2>4
  <2> QED  BY <1>8, <2>1, <2>5 DEF AliveAt
<1>21. FreeNotValid'
  BY <1>2, <1>14 DEF FreeNotValid
<1>22. Locked'
  <2>1. \A x \in Inums, q \in Procs : HasLocked(q, x)' <=> HasLocked(q, x)
    BY <1>8 DEF HasLocked
  <2>2. ilocked' = ilocked /\ ilocked[i] = Unlocked
    BY <1>1, <1>4 DEF i
  <2>3. \A x \in Inums : ilocked'[x] # Unlocked => inode'[x] = inode[x] /\ ivalid'[x] = ivalid[x]
    BY <1>14, <2>2
  <2> QED  BY <1>2, <2>1, <2>2, <2>3 DEF Locked
<1>23. Known'
  <2> SUFFICES ASSUME NEW q \in Procs PROVE KnownAt(q)'
    BY DEF Known
  <2>1. KnownAt(q) /\ Shape(loc[q])
    BY <1>2 DEF Known, Shaped
  <2>2. loc[q].dp \in 0..NINODES /\ loc[q].old \in 0..NINODES
    BY <1>2, PointersTyped
  <2>3. ~(freed /\ loc[q].dp = i) /\ ~(freed /\ loc[q].old = i)
    <3>1. Pointers(q)[4] = loc[q].dp /\ Pointers(q)[5] = loc[q].old
      BY DEF Pointers
    <3>2. 4 \in 1..7 /\ 5 \in 1..7 /\ 4 # 6 /\ 5 # 6
      OBVIOUS
    <3> QED  BY <1>11, <1>12, <3>1, <3>2
  <2>4. /\ loc[q].dp # None => inode'[loc[q].dp] = inode[loc[q].dp]
        /\ loc[q].old # None => inode'[loc[q].old] = inode[loc[q].old]
    BY <1>14, <2>2, <2>3, NoInum
  <2>5. loc[q].pc \in {"parent", "unlink", "unlock"} => loc[q].dp # None
    BY <2>1 DEF Shape
  <2> QED  BY <1>4, <1>8, <2>1, <2>4, <2>5 DEF KnownAt
\* Freeing an inode clears entries.
<1>24. /\ \A x \in Inums : inode'[x].nlink = inode[x].nlink
       /\ \A x \in Inums, n \in DEntries : inode'[x].ent[n] # None => inode'[x].ent[n] = inode[x].ent[n] /\ inode'[x] = inode[x]
       /\ \A x \in Inums : inode'[x].type # "free" => inode'[x].type = inode[x].type /\ inode'[x] = inode[x]
  <2>1. \A n \in DEntries : NoEntries[n] = None
    BY DEF NoEntries
  <2> QED  BY <1>13, <1>14, <1>15, <2>1
<1>25. OneTree'
  <2>1. EntriesOfDirs(inode) /\ DotDotUp(inode) /\ NoCircle(inode)
    BY <1>2 DEF OneTree
  <2>2. EntriesOfDirs(inode')
    <3>1. inode'[Root] = inode[Root]
      BY <1>14, <1>15, NoInum
    <3>2. \A x \in Inums : inode'[x].type # "dir" => inode'[x].ent = NoEntries
      BY <1>13, <1>14, <2>1 DEF EntriesOfDirs
    <3>3. \A x \in Inums : inode'[x].type = "free" => inode'[x] = FreeInode
      BY <1>14, <2>1 DEF EntriesOfDirs
    <3> QED  BY <2>1, <3>1, <3>2, <3>3 DEF EntriesOfDirs
  <2>3. DotDotUp(inode')
    <3>1. \A x \in Inums : inode'[x].type = "dir" => inode'[x].ent[".."] # None
      BY <1>24, <2>1 DEF DotDotUp
    <3>2. ASSUME NEW d \in Inums, NEW n \in Forward, inode'[d].ent[n] # None, inode'[d].ent[n] # d,
                 inode'[inode'[d].ent[n]].type = "dir"
          PROVE  inode'[inode'[d].ent[n]].ent[".."] = d
      <4> DEFINE x == inode'[d].ent[n]
      <4>1. x = inode[d].ent[n] /\ n \in DEntries
        BY <1>24, <3>2 DEF Forward
      <4>2. x \in Inums
        <5>1. x \in 0..NINODES
          BY <1>14, <4>1 DEF Node
        <5> QED  BY <3>2, <5>1, NoInum
      <4>3. inode[x].type = "dir" /\ inode'[x] = inode[x]
        BY <1>24, <3>2, <4>2
      <4>4. inode[x].ent[".."] = d
        BY <2>1, <3>2, <4>1, <4>3 DEF DotDotUp
      <4> QED  BY <4>3, <4>4
    <3> QED  BY <3>1, <3>2 DEF DotDotUp
  <2>4. NoCircle(inode')
    <3>1. \A x \in Inums, n \in DNames : inode'[x].ent[n] \in {inode[x].ent[n], None}
      BY <1>24 DEF DEntries
    <3> QED  BY <2>1, <3>1, NoCircleLess
  <2> QED  BY <2>2, <2>3, <2>4 DEF OneTree
<1>26. Covered'
  <2> SUFFICES ASSUME NEW x \in Inums
               PROVE  inode'[x].nlink >= Cardinality(LinksOf(inode', x)) + Cardinality(Pending(x)') + Base(x)
    BY DEF Covered
  <2>1. inode[x].nlink >= Cardinality(LinksOf(inode, x)) + Cardinality(Pending(x)) + Base(x)
    BY <1>2 DEF Covered
  <2>2. Pending(x)' = Pending(x)
    BY <1>8 DEF Pending
  <2>3. LinksOf(inode', x) \subseteq LinksOf(inode, x)
    <3>1. ASSUME NEW a \in Inums, NEW b \in Forward, <<a, b>> \in LinksOf(inode', x)
          PROVE  <<a, b>> \in LinksOf(inode, x)
      <4> DEFINE y == inode'[a].ent[b]
      <4>1. y # None /\ y # a /\ (y = x \/ (a = x /\ inode'[y].type = "dir"))
        BY <3>1 DEF LinksOf
      <4>2. y = inode[a].ent[b]
        BY <1>24, <4>1 DEF Forward
      <4>3. y \in Inums
        <5>1. y \in 0..NINODES
          BY <1>14 DEF Node, Forward
        <5> QED  BY <4>1, <5>1, NoInum
      <4>4. inode'[y].type = "dir" => inode[y].type = "dir"
        BY <1>24, <4>3
      <4> QED  BY <4>1, <4>2, <4>4 DEF LinksOf
    <3>2. LinksOf(inode', x) \subseteq Inums \X Forward
      BY DEF LinksOf
    <3>3. \A l \in Inums \X Forward : \E a \in Inums, b \in Forward : l = <<a, b>>
      OBVIOUS
    <3> QED  BY <3>1, <3>2, <3>3
  <2>4. /\ IsFiniteSet(LinksOf(inode, x)) /\ Cardinality(LinksOf(inode, x)) \in Nat
        /\ Cardinality(LinksOf(inode', x)) \in Nat
    BY LinksOfFinite
  <2>5. Cardinality(LinksOf(inode', x)) <= Cardinality(LinksOf(inode, x))
    BY <2>3, <2>4, FS_Subset
  <2>6. Cardinality(Pending(x)) \in Nat /\ Base(x) \in Nat /\ inode[x].nlink \in Nat
    BY PendingFinite, CountPositive DEF Base
  <2>7. inode'[x].nlink = inode[x].nlink
    BY <1>24
  <2> QED  BY <2>1, <2>2, <2>4, <2>5, <2>6, <2>7
<1>27. Panicked'
  BY <1>4, <1>5 DEF Panicked
<1> QED  BY <1>16, <1>17, <1>18, <1>19, <1>20, <1>21, <1>22, <1>23, <1>25, <1>26, <1>27 DEF IInv

\* The pointer is gone, with the count it had.
LEMMA IputDropStep ==
  ASSUME IInv, NEW p \in Procs, IputDrop(p)
  PROVE  IInv'
<1> DEFINE i == Head(loc[p].puts)
           r == [loc[p] EXCEPT !.puts = Tail(@), !.dropping = FALSE]
<1>1. Putting(p) /\ loc[p].dropping /\ iref' = [iref EXCEPT ![i] = @ - 1] /\ Set(p, r)
      /\ UNCHANGED <<inode, ivalid, ilocked, cwd, opened, raced, nameCalls, ipanic>>
  BY DEF IputDrop
<1>2. /\ Typed /\ Shaped /\ Counted /\ WillBeFreed /\ Alive /\ FreeNotValid
      /\ Locked /\ Known /\ Covered /\ OneTree
  BY DEF IInv
<1>3. /\ loc[p] \in Locals /\ Shape(loc[p]) /\ loc[p].puts # <<>> /\ ipanic = "none"
      /\ i \in Inums /\ Pointers(p)[6] = i
      /\ Len(loc[p].puts) \in {1, 2}
      /\ Tail(loc[p].puts) \in Seq(Inums) /\ Len(Tail(loc[p].puts)) = Len(loc[p].puts) - 1
      /\ Len(loc[p].puts) = 2 => Tail(loc[p].puts)[1] = loc[p].puts[2]
      /\ i = loc[p].puts[1]
  BY <1>1, PuttingFacts
<1>4. /\ r \in Locals /\ r.dropping = FALSE /\ r.pc = loc[p].pc /\ r.call = loc[p].call /\ r.path = loc[p].path
      /\ r.name = loc[p].name /\ r.ip = loc[p].ip /\ r.dp = loc[p].dp /\ r.old = loc[p].old
      /\ r.puts = Tail(loc[p].puts)
  BY <1>3 DEF Locals
<1>5. loc' \in [Procs -> Locals] /\ loc'[p] = r /\ \A q \in Procs \ {p} : loc'[q] = loc[q]
  BY <1>1, <1>2, <1>4, SetLocals
<1> HIDE DEF r
<1>6. \A q \in Procs :
        /\ loc'[q].pc = loc[q].pc /\ loc'[q].call = loc[q].call /\ loc'[q].path = loc[q].path
        /\ loc'[q].name = loc[q].name /\ loc'[q].ip = loc[q].ip /\ loc'[q].dp = loc[q].dp
        /\ loc'[q].old = loc[q].old
  BY <1>4, <1>5
<1>7. Others(p)
  BY <1>1, <1>5 DEF Others
<1>8. \A q \in Procs \ {p} : Pointers(q)' = Pointers(q)
  BY <1>7, OthersPoint
\* The second pointer becomes the first.
<1>9. /\ ToPut(p, 1)' = ToPut(p, 2) /\ ToPut(p, 2)' = None /\ ToPut(p, 1) = i
      /\ \A x : PutsB(loc[p].puts, x) = PutsB(Tail(loc[p].puts), x) + B(i, x)
  <2> DEFINE s == loc[p].puts  t == Tail(loc[p].puts)
  <2>1. loc'[p].puts = t
    BY <1>4, <1>5
  <2>2. Len(t) = Len(s) - 1 /\ Len(s) \in {1, 2} /\ (Len(s) = 2 => t[1] = s[2]) /\ i = s[1]
    BY <1>3
  <2>3. \A x : B(i, x) \in {0, 1} /\ B(t[1], x) \in {0, 1}
    BY DEF B
  <2>4. /\ ToPut(p, 1)' = (IF 1 <= Len(t) THEN t[1] ELSE None)
        /\ ToPut(p, 2)' = (IF 2 <= Len(t) THEN t[2] ELSE None)
        /\ ToPut(p, 1) = (IF 1 <= Len(s) THEN s[1] ELSE None)
        /\ ToPut(p, 2) = (IF 2 <= Len(s) THEN s[2] ELSE None)
    BY <2>1 DEF ToPut
  <2>5. \A x : PutsB(s, x) = (IF 1 <= Len(s) THEN B(s[1], x) ELSE 0) + (IF 2 <= Len(s) THEN B(s[2], x) ELSE 0)
    BY DEF PutsB
  <2>6. \A x : PutsB(t, x) = (IF 1 <= Len(t) THEN B(t[1], x) ELSE 0) + (IF 2 <= Len(t) THEN B(t[2], x) ELSE 0)
    BY DEF PutsB
  <2> HIDE DEF s, t, i
  <2> DEFINE G1 == ToPut(p, 1)' = ToPut(p, 2) /\ ToPut(p, 2)' = None /\ ToPut(p, 1) = i
             G2 == \A x : PutsB(s, x) = PutsB(t, x) + B(i, x)
  <2>7. G1
    <3>1. CASE Len(s) = 1
      BY <2>2, <2>4, <3>1
    <3>2. CASE Len(s) = 2
      BY <2>2, <2>4, <3>2
    <3> QED  BY <2>2, <3>1, <3>2
  <2>8. G2
    <3>1. CASE Len(s) = 1
      BY <2>2, <2>3, <2>5, <2>6, <3>1
    <3>2. CASE Len(s) = 2
      BY <2>2, <2>3, <2>5, <2>6, <3>2
    <3> QED  BY <2>2, <3>1, <3>2
  <2> QED  BY <2>7, <2>8 DEF s, t
<1>10. /\ iref[i] \in Nat /\ iref[i] > 0
  BY <1>3, OtherPointers
<1>11. \A x \in Inums : iref'[x] = iref[x] - B(i, x) /\ iref[x] \in Nat
  <2>1. iref \in [Inums -> Nat]
    BY <1>2 DEF Typed
  <2> HIDE DEF i
  <2> QED  BY <1>1, <1>3, <2>1 DEF B
<1> HIDE DEF i
\* The parts of the invariant.
<1>12. Typed'
  <2>1. iref' \in [Inums -> Nat]
    <3>1. iref \in [Inums -> Nat]
      BY <1>2 DEF Typed
    <3>2. iref[i] - 1 \in Nat
      BY <1>10
    <3> QED  BY <1>1, <1>3, <3>1, <3>2 DEF i
  <2> QED  BY <1>1, <1>2, <1>5, <2>1 DEF Typed
<1>13. Shaped'
  <2> SUFFICES ASSUME NEW q \in Procs PROVE Shape(loc'[q])
    BY DEF Shaped
  <2>1. Shape(loc[q])
    BY <1>2 DEF Shaped
  <2>2. CASE q # p
    <3>1. loc'[q] = loc[q]
      BY <1>5, <2>2
    <3> QED  BY <2>1, <3>1
  <2>3. CASE q = p
    <3>1. Len(r.puts) <= 2
      <4>1. \A m, k : m \in {1, 2} /\ k = m - 1 => k <= 2
        OBVIOUS
      <4>2. Len(Tail(loc[p].puts)) <= 2
        BY <1>3, <4>1, Zenon
      <4> QED  BY <1>4, <4>2, Zenon
    <3>2. Shape(r)
      BY <1>3, <1>4, <3>1 DEF Shape
    <3> QED  BY <1>5, <2>3, <3>2
  <2> QED  BY <2>2, <2>3
<1>14. Counted'
  <2> SUFFICES ASSUME NEW x \in Inums PROVE iref'[x] = RefCount(x)'
    BY DEF Counted
  <2>1. RefCount(x)' = RefCount(x) - Refs(p, x) + Refs(p, x)' /\ RefCount(x) \in Nat /\ Refs(p, x) \in Nat /\ Refs(p, x)' \in Nat
    BY <1>7, OthersPoint
  <2>2. Refs(p, x) = Five(p, x) + PutsB(loc[p].puts, x)
    BY RefsFormAlways DEF RefsForm
  <2>3. Refs(p, x)' = Five(p, x)' + PutsB(Tail(loc[p].puts), x)
    <3>1. RefsForm'
      BY RefsFormAlways, PTL
    <3>2. Refs(p, x)' = Five(p, x)' + PutsB(loc[p].puts, x)'
      BY <3>1 DEF RefsForm
    <3>3. PutsB(loc[p].puts, x)' = PutsB(loc'[p].puts, x)
      BY DEF PutsB, B
    <3> QED  BY <1>4, <1>5, <3>2, <3>3
  <2>4. Five(p, x)' = Five(p, x)
    BY <1>1, <1>6 DEF Five, B
  <2>5. PutsB(loc[p].puts, x) = PutsB(Tail(loc[p].puts), x) + B(i, x)
    BY <1>9
  <2>6. Five(p, x) \in Nat /\ PutsB(Tail(loc[p].puts), x) \in Nat /\ B(i, x) \in Nat
    BY DEF Five, PutsB, B
  <2>7. iref[x] = RefCount(x)
    BY <1>2 DEF Counted
  <2> QED  BY <1>11, <2>1, <2>2, <2>3, <2>4, <2>5, <2>6, <2>7
<1>15. /\ Pointers(p)'[1] = Pointers(p)[1] /\ Pointers(p)'[2] = Pointers(p)[2] /\ Pointers(p)'[3] = Pointers(p)[3]
       /\ Pointers(p)'[4] = Pointers(p)[4] /\ Pointers(p)'[5] = Pointers(p)[5]
       /\ Pointers(p)'[6] = Pointers(p)[7] /\ Pointers(p)'[7] = None
  BY <1>1, <1>6, <1>9 DEF Pointers
<1>16. WillBeFreed'
  <2> SUFFICES ASSUME NEW x \in Inums, inode[x].type # "free", inode[x].nlink = 0, x \notin raced
               PROVE  ivalid[x] /\ Firm(x)'
    BY <1>1 DEF WillBeFreed
  <2>1. ivalid[x] /\ Firm(x)
    BY <1>2 DEF WillBeFreed
  <2>2. PICK q \in Procs, k \in 1..7 : Pointers(q)[k] = x /\ ~(k = 6 /\ loc[q].dropping)
    BY <2>1 DEF Firm
  <2>3. CASE q # p
    <3>1. Pointers(q)' = Pointers(q) /\ loc'[q] = loc[q]
      BY <1>5, <1>8, <2>3
    <3> QED  BY <2>1, <2>2, <3>1 DEF Firm
  <2>4. CASE q = p
    <3>1. k # 6 /\ loc'[p].dropping = FALSE
      BY <1>1, <1>4, <1>5, <2>2, <2>4
    <3>2. k = 1 \/ k = 2 \/ k = 3 \/ k = 4 \/ k = 5 \/ k = 7
      BY <3>1
    <3>3. 1 \in 1..7 /\ 2 \in 1..7 /\ 3 \in 1..7 /\ 4 \in 1..7 /\ 5 \in 1..7 /\ 6 \in 1..7
      OBVIOUS
    <3>4. \E h \in 1..7 : Pointers(p)'[h] = x
      BY <1>15, <2>2, <2>4, <3>2, <3>3
    <3> QED  BY <2>1, <3>1, <3>4 DEF Firm
  <2> QED  BY <2>3, <2>4
<1>17. Alive'
  <2> SUFFICES ASSUME NEW q \in Procs PROVE AliveAt(q)'
    BY DEF Alive
  <2>1. AliveAt(q)
    BY <1>2 DEF Alive
  <2>2. AliveForm'
    BY AliveFormAlways, PTL
  <2>3. /\ Live(cwd[q]) /\ Live(opened[q]) /\ Live(loc[q].dp) /\ Live(loc[q].old) /\ Live(ToPut(q, 2))
        /\ Live(loc[q].ip) \/ (loc[q].name = ".." /\ loc[q].pc \in {"walk", "last", "exists"})
    BY <2>1, AliveFormAlways DEF AliveForm
  <2>4. Live(ToPut(q, 2))'
    <3>1. CASE q = p
      BY <1>9, <3>1 DEF Live
    <3>2. CASE q # p
      <4>1. loc'[q] = loc[q]
        BY <1>5, <3>2
      <4> QED  BY <1>1, <2>3, <4>1 DEF Live, ToPut
    <3> QED  BY <3>1, <3>2
  <2>5. /\ Live(cwd[q])' /\ Live(opened[q])' /\ Live(loc[q].dp)' /\ Live(loc[q].old)'
        /\ Live(loc[q].ip)' \/ (loc'[q].name = ".." /\ loc'[q].pc \in {"walk", "last", "exists"})
    BY <1>1, <1>6, <2>3 DEF Live
  <2> QED  BY <2>2, <2>4, <2>5 DEF AliveForm
<1>18. FreeNotValid'
  BY <1>1, <1>2 DEF FreeNotValid
<1>19. Locked'
  <2>1. \A x \in Inums, q \in Procs : HasLocked(q, x)' <=> HasLocked(q, x)
    BY <1>6 DEF HasLocked
  <2> QED  BY <1>1, <1>2, <2>1 DEF Locked
<1>20. Known'
  BY <1>1, <1>2, <1>6 DEF Known, KnownAt
<1>21. Covered'
  <2>1. \A x \in Inums : Pending(x)' = Pending(x)
    BY <1>6 DEF Pending
  <2> QED  BY <1>1, <1>2, <2>1 DEF Covered
<1>22. OneTree'
  BY <1>1, <1>2 DEF OneTree
<1>23. Panicked'
  BY <1>1, <1>3 DEF Panicked
<1> QED  BY <1>12, <1>13, <1>14, <1>16, <1>17, <1>18, <1>19, <1>20, <1>21, <1>22, <1>23 DEF IInv

\* The inode that is locked next is free only if ".." led to it.
LEMMA IlockNoTypeStep ==
  ASSUME IInv, NEW p \in Procs, IlockNoType(p)
  PROVE  IInv'
<1>1. /\ Typed /\ Shaped /\ Counted /\ WillBeFreed /\ Alive /\ FreeNotValid
      /\ Locked /\ Known /\ Covered /\ OneTree
  BY DEF IInv
<1>2. loc[p].puts = <<>> /\ Wanted(p) # None /\ inode[Wanted(p)].type = "free"
      /\ UNCHANGED <<inode, iref, ivalid, ilocked, cwd, opened, loc, raced, nameCalls>>
  BY DEF IlockNoType
<1>3. loc[p].name = ".."
  <2>1. /\ Live(loc[p].dp) /\ Live(loc[p].old)
        /\ Live(loc[p].ip) \/ loc[p].name = ".."
    BY <1>1, AliveFormAlways DEF AliveForm, Alive
  <2>2. Wanted(p) = loc[p].ip \/ Wanted(p) = loc[p].dp \/ Wanted(p) = loc[p].old
    BY <1>2 DEF Wanted
  <2> QED  BY <1>2, <2>1, <2>2 DEF Live
<1>4. Panicked'
  BY <1>2, <1>3 DEF Panicked, Wanted
<1>5. Typed' /\ Shaped' /\ FreeNotValid' /\ OneTree'
  BY <1>1, <1>2 DEF Typed, Shaped, FreeNotValid, OneTree
<1>6. \A q \in Procs : Pointers(q)' = Pointers(q)
  BY <1>2 DEF Pointers, ToPut
<1>7. Counted' /\ WillBeFreed' /\ Alive'
  BY <1>1, <1>2, <1>6 DEF Counted, RefCount, WillBeFreed, Firm, Alive, AliveAt
<1>8. Locked' /\ Known' /\ Covered'
  BY <1>1, <1>2 DEF Locked, HasLocked, Known, KnownAt, Covered, Pending
<1> QED  BY <1>4, <1>5, <1>7, <1>8 DEF IInv

-----------------------------------------------------------------------------
\* The invariant holds at the start.

LEMMA StartCounted ==
  ASSUME InodesInit
  PROVE  Counted /\ iref \in [Inums -> Nat] /\ \A i \in Inums : iref[i] > 0 => \E p \in Procs : i \in InUse(p)
<1>1. iref = [i \in Inums |-> Cardinality({p \in Procs : cwd[p] = i}) + Cardinality({p \in Procs : opened[p] = i})]
  BY DEF InodesInit
<1> SUFFICES ASSUME NEW i \in Inums
             PROVE  /\ iref[i] = RefCount(i) /\ iref[i] \in Nat
                    /\ iref[i] > 0 => \E p \in Procs : i \in InUse(p)
  BY <1>1 DEF Counted
<1> DEFINE C == {p \in Procs : cwd[p] = i}  O == {p \in Procs : opened[p] = i}
           all == {r \in Procs \X (1..7) : Pointers(r[1])[r[2]] = i}
<1>2. iref[i] = Cardinality(C) + Cardinality(O)
  BY <1>1
<1>3. /\ IsFiniteSet(C) /\ IsFiniteSet(O) /\ Cardinality(C) \in Nat /\ Cardinality(O) \in Nat
      /\ Cardinality(C) = 0 <=> C = {}
      /\ Cardinality(O) = 0 <=> O = {}
  <2>1. C \subseteq Procs /\ O \subseteq Procs
    OBVIOUS
  <2>2. IsFiniteSet(C) /\ IsFiniteSet(O)
    BY <2>1, InodesFinite, FS_Subset
  <2> QED  BY <2>2, FS_CardinalityType, FS_EmptySet
<1>4. /\ IsFiniteSet(C \X {1}) /\ Cardinality(C \X {1}) = Cardinality(C)
      /\ IsFiniteSet(O \X {2}) /\ Cardinality(O \X {2}) = Cardinality(O)
  <2>1. \A k : IsFiniteSet({k}) /\ Cardinality({k}) = 1
    BY FS_Singleton
  <2> HIDE DEF C, O
  <2>2. IsFiniteSet({1}) /\ Cardinality({1}) = 1 /\ IsFiniteSet({2}) /\ Cardinality({2}) = 1
    BY <2>1
  <2>3. /\ IsFiniteSet(C \X {1}) /\ Cardinality(C \X {1}) = Cardinality(C) * Cardinality({1})
        /\ IsFiniteSet(O \X {2}) /\ Cardinality(O \X {2}) = Cardinality(O) * Cardinality({2})
    BY <1>3, <2>2, FS_Product
  <2>4. \A m \in Nat : m * 1 = m
    OBVIOUS
  <2>5. Cardinality(C) * 1 = Cardinality(C) /\ Cardinality(O) * 1 = Cardinality(O)
    BY <1>3, <2>4
  <2> QED  BY <2>2, <2>3, <2>5, Zenon
<1>5. \A p \in Procs : Pointers(p) = <<cwd[p], opened[p], None, None, None, None, None>>
  <2>1. \A p \in Procs : loc[p] = NoLocals
    BY DEF InodesInit
  <2>2. Len(NoLocals.puts) = 0 /\ NoLocals.ip = None /\ NoLocals.dp = None /\ NoLocals.old = None
    BY EmptySeq DEF NoLocals
  <2>3. \A p \in Procs : ToPut(p, 1) = None /\ ToPut(p, 2) = None
    BY <2>1, <2>2 DEF ToPut
  <2> QED  BY <2>1, <2>2, <2>3 DEF Pointers
<1>6. all = (C \X {1}) \cup (O \X {2}) /\ (C \X {1}) \cap (O \X {2}) = {}
  <2>1. i # None
    BY NoInum
  <2>2. \A p \in Procs, k \in 1..7 : Pointers(p)[k] = i <=> (k = 1 /\ cwd[p] = i) \/ (k = 2 /\ opened[p] = i)
    <3> SUFFICES ASSUME NEW p \in Procs, NEW k \in 1..7
                 PROVE  Pointers(p)[k] = i <=> (k = 1 /\ cwd[p] = i) \/ (k = 2 /\ opened[p] = i)
      OBVIOUS
    <3> DEFINE f == Pointers(p)
    <3>1. f[1] = cwd[p] /\ f[2] = opened[p] /\ f[3] = None /\ f[4] = None /\ f[5] = None /\ f[6] = None /\ f[7] = None
      BY <1>5
    <3>2. k = 1 \/ k = 2 \/ k = 3 \/ k = 4 \/ k = 5 \/ k = 6 \/ k = 7
      OBVIOUS
    <3> HIDE DEF f
    <3>3. f[k] = i <=> (k = 1 /\ cwd[p] = i) \/ (k = 2 /\ opened[p] = i)
      BY <2>1, <3>1, <3>2
    <3> QED  BY <3>3 DEF f
  <2>3. ASSUME NEW p \in Procs, NEW k \in 1..7
        PROVE  <<p, k>> \in all <=> <<p, k>> \in (C \X {1}) \cup (O \X {2})
    <3>1. <<p, k>> \in all <=> Pointers(p)[k] = i
      OBVIOUS
    <3>2. <<p, k>> \in (C \X {1}) \cup (O \X {2}) <=> (k = 1 /\ cwd[p] = i) \/ (k = 2 /\ opened[p] = i)
      OBVIOUS
    <3> QED  BY <2>2, <3>1, <3>2
  <2>4. all \subseteq Procs \X (1..7) /\ (C \X {1}) \cup (O \X {2}) \subseteq Procs \X (1..7)
    <3>1. all \subseteq Procs \X (1..7)
      OBVIOUS
    <3>2. C \X {1} \subseteq Procs \X (1..7) /\ O \X {2} \subseteq Procs \X (1..7)
      OBVIOUS
    <3> QED  BY <3>1, <3>2
  <2>5. \A r \in Procs \X (1..7) : \E p \in Procs, k \in 1..7 : r = <<p, k>>
    OBVIOUS
  <2> HIDE DEF all
  <2> DEFINE two == (C \X {1}) \cup (O \X {2})
  <2>6. all = two
    <3>1. all \subseteq Procs \X (1..7) /\ two \subseteq Procs \X (1..7)
      BY <2>4
    <3>2. \A p \in Procs, k \in 1..7 : <<p, k>> \in all <=> <<p, k>> \in two
      BY <2>3
    <3> HIDE DEF two
    <3>3. ASSUME NEW r \in Procs \X (1..7) PROVE r \in all <=> r \in two
      <4>1. PICK p \in Procs, k \in 1..7 : r = <<p, k>>
        BY <2>5, Zenon
      <4> QED  BY <3>2, <4>1, Zenon
    <3> QED  BY <3>1, <3>3, Zenon
  <2>7. (C \X {1}) \cap (O \X {2}) = {}
    <3>1. \A r \in C \X {1} : r[2] = 1
      OBVIOUS
    <3>2. \A r \in O \X {2} : r[2] = 2
      OBVIOUS
    <3> QED  BY <3>1, <3>2
  <2> QED  BY <2>6, <2>7
<1>7. Cardinality(all) = Cardinality(C) + Cardinality(O) - Cardinality({})
  <2> HIDE DEF C, O, all
  <2> QED  BY <1>4, <1>6, FS_Union
<1>8. RefCount(i) = Cardinality(all)
  BY DEF RefCount
<1>9. iref[i] > 0 => C # {} \/ O # {}
  BY <1>2, <1>3
<1>10. C # {} \/ O # {} => \E p \in Procs : i \in InUse(p)
  BY NoInum DEF InUse
<1> HIDE DEF C, O, all
<1> QED  BY <1>2, <1>3, <1>7, <1>8, <1>9, <1>10, FS_EmptySet

LEMMA InvStart == InodesInit => IInv
<1> SUFFICES ASSUME InodesInit PROVE IInv
  OBVIOUS
<1>1. PICK t \in Trees :
        /\ inode = t.inode /\ cwd = t.cwd /\ opened = t.opened
        /\ ivalid = [i \in Inums |-> iref[i] > 0]
        /\ ilocked = [i \in Inums |-> Unlocked]
        /\ loc = [p \in Procs |-> NoLocals]
        /\ raced = {} /\ nameCalls = 0 /\ ipanic = "none"
  BY DEF InodesInit
<1>2. InOrder(t)
  BY InodesInputs
<1>3. /\ inode \in [Inums -> Node]
      /\ EntriesOfDirs(inode) /\ DotDotUp(inode) /\ NoCircle(inode)
      /\ \A i \in Inums : inode[i].type # "free" => inode[i].nlink > 0
      /\ \A i \in Inums : inode[i].nlink >= Cardinality(LinksOf(inode, i)) + IF i = Root THEN 1 ELSE 0
      /\ cwd \in [Procs -> Inums] /\ \A p \in Procs : inode[cwd[p]].type # "free"
      /\ opened \in [Procs -> 0..NINODES]
      /\ \A p \in Procs : opened[p] # None => inode[opened[p]].type # "free"
  <2>1. InOrder(t) <=>
          /\ inode \in [Inums -> Node]
          /\ EntriesOfDirs(inode) /\ DotDotUp(inode) /\ NoCircle(inode)
          /\ \A i \in Inums : inode[i].type # "free" => inode[i].nlink > 0
          /\ \A i \in Inums : inode[i].nlink >= Cardinality(LinksOf(inode, i)) + IF i = Root THEN 1 ELSE 0
          /\ cwd \in [Procs -> Inums] /\ \A p \in Procs : inode[cwd[p]].type # "free"
          /\ opened \in [Procs -> 0..NINODES]
          /\ \A p \in Procs : opened[p] # None => inode[opened[p]].type # "free"
    BY <1>1, Zenon DEF InOrder
  <2> QED  BY <1>2, <2>1
<1>4. \A p \in Procs : loc[p] = NoLocals
  BY <1>1
<1>5. NoLocals \in Locals /\ Shape(NoLocals)
      /\ NoLocals.pc = "idle" /\ NoLocals.ip = None /\ NoLocals.dp = None /\ NoLocals.old = None
      /\ NoLocals.puts = <<>> /\ NoLocals.dropping = FALSE /\ NoLocals.call.name = "none"
  BY NoLocalsIs DEF NoLocals, NoCall
<1>6. Typed
  <2>1. ivalid \in [Inums -> BOOLEAN]
    BY <1>1
  <2>2. ilocked \in [Inums -> Procs \cup {Unlocked}]
    BY <1>1
  <2>3. loc \in [Procs -> Locals]
    BY <1>1, <1>5
  <2> QED  BY <1>1, <1>3, <2>1, <2>2, <2>3, StartCounted DEF Typed
<1>7. Shaped
  BY <1>4, <1>5 DEF Shaped
<1>8. WillBeFreed
  <2>1. \A i \in Inums : inode[i].nlink \in Nat
    BY <1>3 DEF Node
  <2> QED  BY <1>3, <2>1 DEF WillBeFreed
<1>9. Alive
  <2> SUFFICES ASSUME NEW p \in Procs PROVE AliveAt(p)
    BY DEF Alive
  <2>1. ToPut(p, 2) = None
    BY <1>4, <1>5, EmptySeq DEF ToPut
  <2>2. /\ Live(cwd[p]) /\ Live(opened[p]) /\ Live(loc[p].dp) /\ Live(loc[p].old) /\ Live(ToPut(p, 2))
        /\ Live(loc[p].ip)
    BY <1>3, <1>4, <1>5, <2>1 DEF Live
  <2> QED  BY <2>2, AliveFormAlways DEF AliveForm
<1>10. FreeNotValid
  <2>1. \A i \in Inums : ivalid[i] => iref[i] > 0
    BY <1>1
  <2>2. \A p \in Procs : \A i \in InUse(p) : inode[i].type # "free"
    BY <1>3 DEF InUse
  <2> QED  BY <2>1, <2>2, StartCounted DEF FreeNotValid
<1>11. Locked
  <2>1. \A p \in Procs : p # Unlocked
    BY InodesFinite
  <2> QED  BY <1>1, <1>4, <1>5, <2>1 DEF Locked, HasLocked
<1>12. Known
  BY <1>4, <1>5 DEF Known, KnownAt
<1>13. Covered
  <2> SUFFICES ASSUME NEW i \in Inums
               PROVE  inode[i].nlink >= Cardinality(LinksOf(inode, i)) + Cardinality(Pending(i)) + Base(i)
    BY DEF Covered
  <2>1. Pending(i) = {}
    BY <1>4, <1>5, NoInum DEF Pending
  <2>2. Cardinality(Pending(i)) = 0
    BY <2>1, FS_EmptySet
  <2>3. Cardinality(LinksOf(inode, i)) \in Nat /\ Base(i) \in Nat /\ inode[i].nlink \in Nat
    BY <1>3, LinksOfFinite DEF Base, Node
  <2>4. inode[i].nlink >= Cardinality(LinksOf(inode, i)) + Base(i)
    BY <1>3 DEF Base
  <2> QED  BY <2>2, <2>3, <2>4
<1>14. OneTree /\ Panicked
  BY <1>1, <1>3 DEF OneTree, Panicked
<1> QED  BY <1>6, <1>7, <1>8, <1>9, <1>10, <1>11, <1>12, <1>13, <1>14, StartCounted DEF IInv

-----------------------------------------------------------------------------
\* The steps together.

LEMMA InvKept == IInv /\ [InodesNext]_inodesVars => IInv'
<1> SUFFICES ASSUME IInv, [InodesNext]_inodesVars PROVE IInv'
  OBVIOUS
<1>1. CASE InodesNext
  <2>1. PICK p \in Procs :
          \/ \E c \in Calls : StartCall(p, c)
          \/ CloseFile(p) \/ Walk1(p)
          \/ OpenLast(p) \/ Chdir(p) \/ LinkOld(p) \/ LinkNew(p) \/ UnlockParent(p) \/ LinkUndo(p)
          \/ CreateParent(p) \/ Made(p) \/ Exists(p)
          \/ UnlinkParent(p) \/ UnlinkEntry(p) \/ Unlinked(p)
          \/ IputLocked(p) \/ IputDrop(p) \/ IlockNoType(p)
    BY <1>1 DEF InodesNext
  <2>2. CASE \E c \in Calls : StartCall(p, c)
    BY <2>2, StartCallStep
  <2>3. CASE CloseFile(p) \/ Walk1(p) \/ OpenLast(p) \/ Chdir(p) \/ LinkOld(p) \/ LinkNew(p)
    BY <2>3, CloseFileStep, Walk1Step, OpenLastStep, ChdirStep, LinkOldStep, LinkNewStep
  <2>4. CASE UnlockParent(p) \/ LinkUndo(p) \/ CreateParent(p) \/ Made(p) \/ Exists(p)
    BY <2>4, UnlockParentStep, LinkUndoStep, CreateParentStep, MadeStep, ExistsStep
  <2>5. CASE UnlinkParent(p) \/ UnlinkEntry(p) \/ Unlinked(p)
    BY <2>5, UnlinkParentStep, UnlinkEntryStep, UnlinkedStep
  <2>6. CASE IputLocked(p) \/ IputDrop(p) \/ IlockNoType(p)
    BY <2>6, IputLockedStep, IputDropStep, IlockNoTypeStep
  <2> QED  BY <2>1, <2>2, <2>3, <2>4, <2>5, <2>6
<1>2. CASE UNCHANGED inodesVars
  <2>1. UNCHANGED <<inode, iref, ivalid, ilocked, cwd, opened, loc, raced, nameCalls, ipanic>>
    BY <1>2 DEF inodesVars
  <2>2. \A q \in Procs : Pointers(q)' = Pointers(q)
    BY <2>1 DEF Pointers, ToPut
  <2>3. Typed' /\ Shaped' /\ FreeNotValid' /\ OneTree' /\ Panicked'
    BY <2>1 DEF IInv, Typed, Shaped, FreeNotValid, OneTree, Panicked, Wanted
  <2>4. Counted' /\ WillBeFreed' /\ Alive'
    BY <2>1, <2>2 DEF IInv, Counted, RefCount, WillBeFreed, Firm, Alive, AliveAt
  <2>5. Locked' /\ Known' /\ Covered'
    BY <2>1 DEF IInv, Locked, HasLocked, Known, KnownAt, Covered, Pending
  <2> QED  BY <2>3, <2>4, <2>5 DEF IInv
<1> QED  BY <1>1, <1>2

LEMMA InvAlways == InodesSpec => []IInv
BY InvStart, InvKept, PTL DEF InodesSpec

-----------------------------------------------------------------------------
\* What the invariant says of the properties.

LEMMA InvRefs == ASSUME IInv PROVE RefsHeld
<1> SUFFICES ASSUME NEW i \in Inums
             PROVE  /\ iref[i] = RefCount(i)
                    /\ inode[i].type # "free" /\ inode[i].nlink = 0 /\ iref[i] = 0 => i \in raced
  BY DEF RefsHeld
<1>1. iref[i] = RefCount(i)
  BY DEF IInv, Counted
<1>2. ASSUME Firm(i) PROVE iref[i] > 0
  <2>1. \E q \in Procs, k \in 1..7 : Pointers(q)[k] = i
    BY <1>2 DEF Firm
  <2> QED  BY <2>1, PointedReferenced DEF IInv
<1>3. ~(0 > 0)
  OBVIOUS
<1> QED  BY <1>1, <1>2, <1>3 DEF IInv, WillBeFreed

\* A linked directory besides the root has an entry in its "..", another directory.
LEMMA LinkedUp ==
  ASSUME IInv, NEW d \in Linked, d # Root
  PROVE  \E m \in DNames : /\ inode[inode[d].ent[".."]].ent[m] = d
                           /\ inode[d].type = "dir" /\ inode[d].ent[".."] \in Inums
<1> DEFINE S == {Root} \cup {x \in Inums : inode[x].type = "dir" /\ \E e \in Inums, n \in DNames : inode[e].ent[n] = x}
<1>1. S \in SUBSET Inums /\ Root \in S /\ KidsOf(S) \subseteq S
  BY NoInum DEF KidsOf
<1>2. d \in Inums /\ d \in S
  BY <1>1 DEF Linked
<1>3. PICK e \in Inums, m \in DNames : inode[e].ent[m] = d /\ inode[d].type = "dir"
  BY <1>2
<1>4. e # d
  <2>1. {e} \in SUBSET Inums /\ {e} # {}
    OBVIOUS
  <2>2. \E x \in {e} : \A n \in DNames : inode[x].ent[n] \notin {e}
    BY <2>1 DEF IInv, OneTree, NoCircle
  <2> QED  BY <1>3, <2>2
<1>5. d # None /\ m \in Forward
  BY <1>2, NoInum, InodesFinite DEF Forward, DEntries
<1>6. inode[d].ent[".."] = e
  BY <1>2, <1>3, <1>4, <1>5 DEF IInv, OneTree, DotDotUp
<1> QED  BY <1>3, <1>6

LEMMA InvLinks == ASSUME IInv PROVE LinksCovered
<1> DEFINE places == Linked \X (DNames \cup {".."})
<1> SUFFICES ASSUME NEW i \in Inums, NEW E, E = {e \in places : inode[e[1]].ent[e[2]] = i /\ e[1] # i}
             PROVE  inode[i].nlink >= Cardinality(E) /\ (E # {} => inode[i].type # "free")
  BY DEF LinksCovered
<1> DEFINE L == LinksOf(inode, i)
           Up(d) == CHOOSE m \in DNames : inode[i].ent[m] = d
           f == [e \in E |-> IF e[2] = ".." THEN <<i, Up(e[1])>> ELSE e]
<1>1. \A n \in DNames : n \in Forward /\ n # ".." /\ n \in DEntries
  BY InodesFinite DEF Forward, DEntries
<1>2. \A e \in E : /\ e[1] \in Linked /\ e[1] \in Inums /\ e[2] \in DNames \cup {".."} /\ e = <<e[1], e[2]>>
                   /\ inode[e[1]].ent[e[2]] = i /\ e[1] # i
  BY DEF Linked
\* A ".." that names i is counted by the entry of i that it belongs to.
<1>3. ASSUME NEW e \in E, e[2] = ".."
      PROVE  Up(e[1]) \in DNames /\ inode[i].ent[Up(e[1])] = e[1] /\ inode[e[1]].type = "dir"
  <2>1. e[1] \in Linked /\ inode[e[1]].ent[".."] = i /\ e[1] # i
    BY <1>2, <1>3
  <2>2. e[1] # Root
    BY <2>1 DEF IInv, OneTree, EntriesOfDirs
  <2>3. \E m \in DNames : inode[i].ent[m] = e[1] /\ inode[e[1]].type = "dir"
    BY <2>1, <2>2, LinkedUp
  <2> QED  BY <2>3
<1>4. \A e \in E : f[e] = IF e[2] = ".." THEN <<i, Up(e[1])>> ELSE e
  OBVIOUS
<1> HIDE DEF Up
<1>5. ASSUME NEW e \in E PROVE f[e] \in L
  <2>1. CASE e[2] = ".."
    <3> DEFINE m == Up(e[1])
    <3>1. m \in DNames /\ inode[i].ent[m] = e[1] /\ inode[e[1]].type = "dir"
      BY <1>3, <2>1
    <3>2. e[1] # None /\ e[1] # i
      BY <1>2, NoInum
    <3>3. <<i, m>> \in Inums \X Forward
      BY <1>1, <3>1
    <3> HIDE DEF m
    <3>4. <<i, m>> \in LinksOf(inode, i)
      BY <3>1, <3>2, <3>3 DEF LinksOf
    <3> QED  BY <1>4, <2>1, <3>4 DEF m
  <2>2. CASE e[2] # ".."
    <3>1. e[2] \in DNames /\ e[1] \in Inums /\ inode[e[1]].ent[e[2]] = i /\ e[1] # i /\ e = <<e[1], e[2]>>
      BY <1>2, <2>2
    <3>2. <<e[1], e[2]>> \in Inums \X Forward
      BY <1>1, <3>1
    <3>3. e \in Inums \X Forward
      BY <3>1, <3>2
    <3>4. e \in LinksOf(inode, i)
      BY <3>1, <3>3, NoInum DEF LinksOf
    <3> QED  BY <1>4, <2>2, <3>4
  <2> QED  BY <2>1, <2>2
<1>6. ASSUME NEW a \in E, NEW b \in E, f[a] = f[b] PROVE a = b
  <2>1. CASE a[2] = ".." /\ b[2] = ".."
    <3>1. <<i, Up(a[1])>> = <<i, Up(b[1])>>
      BY <1>4, <1>6, <2>1
    <3>2. Up(a[1]) = Up(b[1])
      BY <3>1
    <3>3. a[1] = b[1]
      BY <1>3, <2>1, <3>2
    <3> QED  BY <1>2, <2>1, <3>3
  <2>2. CASE a[2] # ".." /\ b[2] # ".."
    BY <1>4, <1>6, <2>2
  <2>3. CASE a[2] = ".." /\ b[2] # ".."
    <3>1. <<i, Up(a[1])>> = b
      BY <1>4, <1>6, <2>3
    <3> QED  BY <1>2, <3>1
  <2>4. CASE a[2] # ".." /\ b[2] = ".."
    <3>1. <<i, Up(b[1])>> = a
      BY <1>4, <1>6, <2>4
    <3> QED  BY <1>2, <3>1
  <2> QED  BY <2>1, <2>2, <2>3, <2>4
<1>7. f \in Injection(E, L)
  <2>1. f \in [E -> L]
    BY <1>5
  <2> HIDE DEF f
  <2> QED  BY <1>6, <2>1 DEF Injection, IsInjective
<1>8. IsFiniteSet(L) /\ Cardinality(L) \in Nat
  BY LinksOfFinite
<1>9. IsFiniteSet(E) /\ Cardinality(E) <= Cardinality(L)
  <2> HIDE DEF f, L
  <2> QED  BY <1>7, <1>8, FS_Injection
<1>10. inode[i].nlink >= Cardinality(E)
  <2>1. inode[i].nlink >= Cardinality(L) + Cardinality(Pending(i)) + Base(i)
    BY DEF IInv, Covered
  <2>2. Cardinality(Pending(i)) \in Nat /\ Base(i) \in Nat /\ inode[i].nlink \in Nat /\ Cardinality(E) \in Nat
    BY <1>9, PendingFinite, CountPositive, FS_CardinalityType DEF Base
  <2> HIDE DEF L
  <2> QED  BY <1>8, <1>9, <2>1, <2>2
<1>11. E # {} => inode[i].type # "free"
  <2>1. E # {} => L # {}
    BY <1>5
  <2>2. E # {} => inode[i].nlink > 0
    BY <2>1, CountPositive
  <2>3. inode[i].type = "free" => inode[i].nlink = 0
    BY DEF IInv, OneTree, EntriesOfDirs, FreeInode
  <2>4. ~(0 > 0)
    OBVIOUS
  <2> QED  BY <2>2, <2>3, <2>4
<1> QED  BY <1>10, <1>11

LEMMA InvHeld == ASSUME IInv PROVE HeldNotFreed
<1>1. ASSUME NEW p \in Procs, NEW i \in InUse(p) PROVE inode[i].type # "free"
  <2>1. Live(cwd[p]) /\ Live(opened[p])
    BY AliveFormAlways DEF AliveForm, IInv, Alive
  <2> QED  BY <2>1 DEF Live, InUse
<1> QED  BY <1>1 DEF HeldNotFreed, IInv, Panicked

\* Who waits for the lock of who waits is in unlink(), and goes down the tree.
LEMMA InvCycles == ASSUME IInv PROVE CyclesThroughIput
<1> SUFFICES ASSUME NEW S \in SUBSET {p \in Procs : loc[p].puts = <<>> /\ Wanted(p) # None}, S # {},
                    \A p \in S : ilocked[Wanted(p)] \in S
             PROVE  FALSE
  BY DEF CyclesThroughIput
<1> DEFINE T == {q \in S : loc[q].pc = "unlink"}
           D == {loc[q].dp : q \in T}
<1>1. ASSUME NEW p \in S
      PROVE  \E q \in T : Wanted(p) = loc[q].dp
  <2>1. PICK q \in S : ilocked[Wanted(p)] = q
    OBVIOUS
  <2>2. q \in Procs /\ loc[q].puts = <<>> /\ Wanted(q) # None
    OBVIOUS
  <2>3. Wanted(p) \in Inums
    <3>1. p \in Procs /\ Wanted(p) # None /\ loc[p].puts = <<>>
      OBVIOUS
    <3>2. loc[p].ip \in 0..NINODES /\ loc[p].dp \in 0..NINODES /\ loc[p].old \in 0..NINODES
      BY <3>1, PointersTyped DEF IInv
    <3> QED  BY <3>1, <3>2, NoInum DEF Wanted
  <2>4. HasLocked(q, Wanted(p))
    BY <2>1, <2>2, <2>3 DEF IInv, Locked
  <2>5. loc[q].pc = "unlink"
    BY <2>2, <2>4 DEF HasLocked, Wanted
  <2> QED  BY <2>4, <2>5 DEF HasLocked
<1>2. D # {}
  <2>1. PICK p \in S : TRUE
    OBVIOUS
  <2>2. PICK q \in T : Wanted(p) = loc[q].dp
    BY <1>1
  <2>3. loc[q].dp \in D
    OBVIOUS
  <2> QED  BY <2>3
<1>3. D \in SUBSET Inums
  <2>1. ASSUME NEW q \in T PROVE loc[q].dp \in Inums
    <3>1. q \in Procs /\ loc[q].pc = "unlink"
      OBVIOUS
    <3>2. loc[q].dp # None /\ loc[q].dp \in 0..NINODES
      BY <3>1, PointersTyped DEF IInv, Shaped, Shape
    <3> QED  BY <3>2, NoInum
  <2> QED  BY <2>1
<1>4. PICK d \in D : \A n \in DNames : inode[d].ent[n] \notin D
  <2> HIDE DEF D
  <2> QED  BY <1>2, <1>3 DEF IInv, OneTree, NoCircle
<1>5. PICK q \in T : d = loc[q].dp
  BY <1>4
<1>6. q \in Procs /\ loc[q].pc = "unlink" /\ loc[q].puts = <<>>
  OBVIOUS
<1>7. loc[q].name \in DNames /\ inode[d].ent[loc[q].name] = loc[q].ip
  BY <1>5, <1>6 DEF IInv, Shaped, Shape, Known, KnownAt
<1>8. Wanted(q) = loc[q].ip
  BY <1>6 DEF Wanted
<1>9. loc[q].ip \in D
  BY <1>1, <1>8
<1> QED  BY <1>4, <1>7, <1>9

-----------------------------------------------------------------------------
\* The fields of inodes and of the inode cache keep their types, in every
\* interleaving of the calls (fs.c, struct inode): nlink and ref stay numbers from 0 up.
THEOREM InodesTyped == InodesSpec => []InodesTypeOK
<1>1. IInv => InodesTypeOK
  BY DEF IInv, Typed, InodesTypeOK
<1> QED  BY <1>1, InvAlways, PTL

\* iget(), idup() and iput() are balanced on every path through every call of
\* sysfile.c: ip->ref is the number of pointers to the inode, and an inode that
\* has lost its last link and pointer is free, but for the ones two iput()s raced for.
THEOREM RefsHeldAlways == InodesSpec => []RefsHeld
<1> QED  BY InvRefs, InvAlways, PTL

\* nlink, that sys_link(), sys_unlink() and create() change one lock at a time,
\* covers every entry and every ".." of a directory that has a path.
THEOREM LinksCoveredAlways == InodesSpec => []LinksCovered
<1> QED  BY InvLinks, InvAlways, PTL

\* iput() does not free what a process has open or as its working directory; and the
\* panic of ilock() needs a walk through ".." of a removed directory.
THEOREM HeldNotFreedAlways == InodesSpec => []HeldNotFreed
<1> QED  BY InvHeld, InvAlways, PTL

\* The locks of inodes that the calls take, one under the other only from a
\* directory to its entry, make no circle without iput().
THEOREM CyclesOnlyThroughIput == InodesSpec => []CyclesThroughIput
<1> QED  BY InvCycles, InvAlways, PTL
=============================================================================
