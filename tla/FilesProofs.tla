------------------------------ MODULE FilesProofs -----------------------------
(***************************************************************************)
(* Proofs about Files.tla: with any number of processes, descriptors and   *)
(* files, and a ring and counters of any size, references are counted, the *)
(* sleepers on a pipe have a cause, and a pipe is a first-in first-out     *)
(* channel of bytes.                                                       *)
(*                                                                         *)
(* RefsCounted is not inductive alone.  A pipe keeps its page while a      *)
(* process is inside read() or write() because that process still has the  *)
(* descriptor (Holding), so that its file keeps a reference; an end is     *)
(* closed once because one file, or one close under way, stands for it     *)
(* (OneEnd); and open() sets the fields of a file that nobody else has yet *)
(* (HalfOpen).                                                             *)
(***************************************************************************)
EXTENDS Files, FiniteSetTheorems, SequenceTheorems, WellFoundedInduction, TLAPS

Places == {"unused", "user", "opening", "exiting", "closing",
           "read", "read_sleep", "write", "write_sleep"}

UserCall    == [slot : Slots \cup {NoFile}, bytes : Seq(Bytes), n : Nat]
ClosingCall == [type : {"FD_PIPE", "FD_INODE"}, writable : BOOLEAN, then : {"user", "exiting"}]

\* The ring holds bytes; what it holds at the start is never read.
Cells == Bytes \cup {CHOOSE b \in Bytes : TRUE}

File == [ref : Nat, type : {"FD_NONE", "FD_PIPE", "FD_INODE"}, writable : BOOLEAN]
Ring == [nread : 0..(COUNTER - 1), nwrite : 0..(COUNTER - 1), data : [0..(PIPESIZE - 1) -> Cells],
         readopen : BOOLEAN, writeopen : BOOLEAN]

Types ==
  /\ ofile \in [FProcs -> [FDs -> Slots \cup {NoFile}]]
  /\ file \in [Slots -> File]
  /\ pipe \in Ring
  /\ pageFree \in BOOLEAN
  /\ killedProcs \subseteq FProcs
  /\ fpc \in [FProcs -> Places]
  /\ call \in [FProcs -> UserCall \cup ClosingCall]
  /\ \A p \in FProcs : IF fpc[p] = "closing" THEN call[p] \in ClosingCall ELSE call[p] \in UserCall

\* The descriptors, in a table o of them, that refer to the file f.
Refs(o, f) == {pf \in FProcs \X FDs : o[pf[1]][pf[2]] = f}

\* f->ref counts them.
FileRefsCounted == \A f \in Slots : file[f].ref = Cardinality(Refs(ofile, f))

InodeFiles == {f \in Slots : file[f].type = "FD_INODE"}
Openers    == {p \in FProcs : fpc[p] = "opening"}
Closers    == {p \in FProcs : fpc[p] = "closing" /\ call[p].type = "FD_INODE"}

InodeCounted == inodeRefs = Cardinality(InodeFiles) + Cardinality(Openers) + Cardinality(Closers)

FreeAreBlank == \A f \in Slots : file[f].ref = 0 => file[f].type = "FD_NONE"

\* A file is opened by the only process that has it.
HalfOpen ==
  \A p \in FProcs : fpc[p] = "opening" =>
    /\ call[p].slot \in Slots
    /\ file[call[p].slot].type = "FD_NONE" /\ file[call[p].slot].ref # 0
    /\ \A q \in FProcs, fd \in FDs : ofile[q][fd] = call[p].slot => q = p

PipeFile(f, w)   == file[f].type = "FD_PIPE" /\ file[f].writable = w
PipeCloser(p, w) == fpc[p] = "closing" /\ call[p].type = "FD_PIPE" /\ call[p].writable = w

\* One file, or one close under way, stands for an end of the pipe.
OneEnd ==
  \A w \in BOOLEAN :
    /\ \A f, g \in Slots : PipeFile(f, w) /\ PipeFile(g, w) => f = g
    /\ \A p, q \in FProcs : PipeCloser(p, w) /\ PipeCloser(q, w) => p = q
    /\ \A f \in Slots, p \in FProcs : ~(PipeFile(f, w) /\ PipeCloser(p, w))

EndsCounted ==
  /\ pipe.writeopen <=> EndOpen(TRUE)
  /\ pipe.readopen <=> EndOpen(FALSE)
  /\ pageFree <=> ~pipe.readopen /\ ~pipe.writeopen

\* Where a process is in piperead() and in pipewrite().
AtPc(w) == IF w THEN {"write", "write_sleep"} ELSE {"read", "read_sleep"}

\* A process inside read() or write() still has the descriptor it called with.
Holding ==
  \A w \in BOOLEAN, p \in FProcs : fpc[p] \in AtPc(w) =>
    /\ call[p].slot \in Slots /\ PipeFile(call[p].slot, w)
    /\ \E fd \in FDs : ofile[p][fd] = call[p].slot

UnusedHaveNone == \A p \in FProcs : fpc[p] = "unused" => \A fd \in FDs : ofile[p][fd] = NoFile

RefsInv ==
  /\ Types /\ FileRefsCounted /\ InodeCounted /\ FreeAreBlank /\ HalfOpen
  /\ OneEnd /\ EndsCounted /\ Holding /\ UnusedHaveNone

-----------------------------------------------------------------------------
\* A set of numbers that is not empty has a least one: Min, in filealloc() and
\* in fdalloc().
LEMMA LeastBelow ==
  ASSUME NEW S, S \subseteq Nat, S # {}
  PROVE  \E x \in S : \A y \in S : x <= y
<1> DEFINE R == OpToRel(<, Nat)
<1>1. IsWellFoundedOn(R, Nat)
  BY NatLessThanWellFounded
<1>2. \A x \in S, y \in S : y < x => <<y, x>> \in R
  BY DEF OpToRel
<1> HIDE DEF R
<1>3. \E x \in S : \A y \in S : ~ (<<y, x>> \in R)
  BY <1>1, WFMin
<1>4. \E x \in S : \A y \in S : ~(y < x)
  BY <1>2, <1>3, Zenon
<1> QED BY <1>4

LEMMA LeastOf ==
  ASSUME NEW S, S \subseteq Nat, S # {}
  PROVE  Min(S) \in S
BY LeastBelow, Zenon DEF Min

\* A set with two members has a least one and a second.
LEMMA TwoLeast ==
  ASSUME NEW S, S \subseteq Nat, IsFiniteSet(S), Cardinality(S) >= 2
  PROVE  Min(S) \in S /\ Second(S) \in S /\ Min(S) # Second(S)
<1>1. S # {}
  BY FS_EmptySet
<1>2. Min(S) \in S
  BY <1>1, LeastOf
<1>3. Cardinality(S \ {Min(S)}) = Cardinality(S) - 1 /\ IsFiniteSet(S \ {Min(S)})
  BY <1>2, FS_RemoveElement
<1>4. S \ {Min(S)} # {}
  BY <1>3, FS_EmptySet, FS_CardinalityType
<1>5. Min(S \ {Min(S)}) \in S \ {Min(S)}
  BY <1>4, LeastOf
<1> QED BY <1>2, <1>5 DEF Second

LEMMA Numbers ==
  /\ Slots \subseteq Nat /\ IsFiniteSet(Slots) /\ NoFile \notin Slots
  /\ FDs \subseteq Nat /\ IsFiniteSet(FDs)
  /\ IsFiniteSet(FProcs) /\ InitProc \in FProcs
  /\ NoFile \in Nat
BY FilesAssumption, FS_Interval DEF Slots, FDs, NoFile

LEMMA SlotFree ==
  /\ FreeSlots # {} => Min(FreeSlots) \in FreeSlots
  /\ Cardinality(FreeSlots) >= 2 =>
       Min(FreeSlots) \in FreeSlots /\ Second(FreeSlots) \in FreeSlots /\ Min(FreeSlots) # Second(FreeSlots)
<1>1. FreeSlots \subseteq Nat /\ FreeSlots \subseteq Slots
  BY Numbers DEF FreeSlots
<1>2. IsFiniteSet(FreeSlots)
  BY <1>1, Numbers, FS_Subset
<1> QED BY <1>1, <1>2, LeastOf, TwoLeast

LEMMA FreeFD ==
  ASSUME NEW p \in FProcs
  PROVE  /\ FreeFDs(p) # {} => Min(FreeFDs(p)) \in FreeFDs(p)
         /\ Cardinality(FreeFDs(p)) >= 2 =>
              /\ Min(FreeFDs(p)) \in FreeFDs(p) /\ Second(FreeFDs(p)) \in FreeFDs(p)
              /\ Min(FreeFDs(p)) # Second(FreeFDs(p))
<1>1. FreeFDs(p) \subseteq Nat /\ FreeFDs(p) \subseteq FDs
  BY Numbers DEF FreeFDs
<1>2. IsFiniteSet(FreeFDs(p))
  BY <1>1, Numbers, FS_Subset
<1> QED BY <1>1, <1>2, LeastOf, TwoLeast

-----------------------------------------------------------------------------
\* Counting the descriptors of a file.
LEMMA RefsFinite ==
  ASSUME NEW o, NEW f
  PROVE  IsFiniteSet(Refs(o, f)) /\ Cardinality(Refs(o, f)) \in Nat
<1>1. IsFiniteSet(FProcs \X FDs)
  BY Numbers, FS_Product
<1>2. Refs(o, f) \in SUBSET (FProcs \X FDs)
  BY DEF Refs
<1> QED BY <1>1, <1>2, FS_Subset, FS_CardinalityType

\* A file that a descriptor refers to is counted, one with no reference has no
\* descriptor.
LEMMA RefsSome ==
  ASSUME NEW o, NEW f, NEW p \in FProcs, NEW fd \in FDs, o[p][fd] = f
  PROVE  Cardinality(Refs(o, f)) > 0
<1>1. <<p, fd>> \in Refs(o, f)
  BY DEF Refs
<1> QED BY <1>1, RefsFinite, FS_EmptySet

LEMMA RefsNone ==
  ASSUME NEW o, NEW f, Cardinality(Refs(o, f)) = 0
  PROVE  \A p \in FProcs, fd \in FDs : o[p][fd] # f
<1> SUFFICES ASSUME NEW p \in FProcs, NEW fd \in FDs, o[p][fd] = f PROVE FALSE
  OBVIOUS
<1>1. Cardinality(Refs(o, f)) > 0
  BY RefsSome
<1> QED BY <1>1

\* The only reference is the one descriptor that is known.
LEMMA RefsOne ==
  ASSUME NEW o, NEW f, Cardinality(Refs(o, f)) <= 1,
         NEW p \in FProcs, NEW fd \in FDs, o[p][fd] = f
  PROVE  \A q \in FProcs, e \in FDs : o[q][e] = f => q = p /\ e = fd
<1>1. Cardinality(Refs(o, f)) = 1
  <2>1. Cardinality(Refs(o, f)) > 0
    BY RefsSome
  <2> QED BY <2>1, RefsFinite
<1>2. PICK x : Refs(o, f) = {x}
  BY <1>1, RefsFinite, FS_Singleton
<1>3. ASSUME NEW q \in FProcs, NEW e \in FDs, o[q][e] = f
      PROVE  <<q, e>> = x
  BY <1>2, <1>3 DEF Refs
<1> QED BY <1>3

\* By how much the references to f change when a descriptor goes from old to
\* new.
Change(f, old, new) == IF f = old /\ f # new THEN -1 ELSE IF f # old /\ f = new THEN 1 ELSE 0

\* One descriptor is set to g.
LEMMA RefsSet ==
  ASSUME NEW o \in [FProcs -> [FDs -> Slots \cup {NoFile}]],
         NEW p \in FProcs, NEW fd \in FDs, NEW g \in Slots \cup {NoFile}, NEW f \in Slots
  PROVE  Cardinality(Refs([o EXCEPT ![p][fd] = g], f)) =
           Cardinality(Refs(o, f)) + Change(f, o[p][fd], g)
<1> DEFINE new == [o EXCEPT ![p][fd] = g]
<1>1. \A q \in FProcs, e \in FDs : new[q][e] = IF q = p /\ e = fd THEN g ELSE o[q][e]
  OBVIOUS
<1> HIDE DEF new
<1>2. CASE f = g
  <2>1. Refs(new, f) = Refs(o, f) \cup {<<p, fd>>}
    BY <1>1, <1>2 DEF Refs
  <2>2. <<p, fd>> \in Refs(o, f) <=> f = o[p][fd]
    BY DEF Refs
  <2>3. Cardinality(Refs(new, f)) = IF f = o[p][fd] THEN Cardinality(Refs(o, f)) ELSE Cardinality(Refs(o, f)) + 1
    BY <2>1, <2>2, RefsFinite, FS_AddElement
  <2> QED BY <2>3, <1>2, RefsFinite DEF new, Change
<1>3. CASE f # g
  <2>1. Refs(new, f) = Refs(o, f) \ {<<p, fd>>}
    BY <1>1, <1>3 DEF Refs
  <2>2. <<p, fd>> \in Refs(o, f) <=> f = o[p][fd]
    BY DEF Refs
  <2>3. Cardinality(Refs(new, f)) = IF f = o[p][fd] THEN Cardinality(Refs(o, f)) - 1 ELSE Cardinality(Refs(o, f))
    <3>1. IsFiniteSet(Refs(o, f))
      BY RefsFinite
    <3>2. Cardinality(Refs(o, f) \ {<<p, fd>>}) =
            IF <<p, fd>> \in Refs(o, f) THEN Cardinality(Refs(o, f)) - 1 ELSE Cardinality(Refs(o, f))
      BY <3>1, FS_RemoveElement
    <3> QED BY <2>1, <2>2, <3>2
  <2> QED BY <2>3, <1>3, RefsFinite DEF new, Change
<1> QED BY <1>2, <1>3

\* The child of fork() gets the descriptors of its parent.
LEMMA RefsFork ==
  ASSUME NEW o \in [FProcs -> [FDs -> Slots \cup {NoFile}]],
         NEW p \in FProcs, NEW c \in FProcs, NEW f \in Slots,
         \A fd \in FDs : o[c][fd] = NoFile
  PROVE  /\ Cardinality(Refs([o EXCEPT ![c] = o[p]], f)) =
              Cardinality(Refs(o, f)) + Cardinality({fd \in FDs : o[p][fd] = f})
         /\ Cardinality({fd \in FDs : o[p][fd] = f}) \in Nat
<1> DEFINE new == [o EXCEPT ![c] = o[p]]
           S == {fd \in FDs : o[p][fd] = f}
           T == {c} \X S
<1>1. \A q \in FProcs, e \in FDs : new[q][e] = IF q = c THEN o[p][e] ELSE o[q][e]
  OBVIOUS
<1>2. f # NoFile
  BY Numbers
<1>3. Refs(new, f) = Refs(o, f) \cup T
  BY <1>1, <1>2 DEF Refs
<1>4. Refs(o, f) \cap T = {}
  BY <1>2 DEF Refs
<1>5. IsFiniteSet(S) /\ Cardinality(S) \in Nat
  BY Numbers, FS_Subset, FS_CardinalityType
<1> HIDE DEF S, new
<1>6. IsFiniteSet(T) /\ Cardinality(T) = Cardinality(S)
  <2>1. IsFiniteSet({c}) /\ Cardinality({c}) = 1
    BY FS_Singleton
  <2>2. IsFiniteSet(T) /\ Cardinality(T) = 1 * Cardinality(S)
    BY <2>1, <1>5, FS_Product
  <2> QED BY <2>2, <1>5
<1> HIDE DEF T
<1>7. Cardinality(Refs(new, f)) = Cardinality(Refs(o, f)) + Cardinality(T)
  <2>1. Cardinality(Refs(new, f)) = Cardinality(Refs(o, f)) + Cardinality(T) - Cardinality({})
    BY <1>3, <1>4, <1>6, RefsFinite, FS_Union
  <2> QED BY <2>1, <1>5, <1>6, RefsFinite, FS_EmptySet
<1> QED BY <1>5, <1>6, <1>7 DEF S, new

-----------------------------------------------------------------------------
\* The initial state.
LEMMA RefsInit == FilesInit => RefsInv
<1> SUFFICES ASSUME FilesInit PROVE RefsInv
  OBVIOUS
<1>1. \A p \in FProcs : fpc[p] \in {"user", "unused"} /\ call[p] = NoCall
  BY DEF FilesInit
<1>2. \A f \in Slots : file[f].ref = 0 /\ file[f].type = "FD_NONE"
  BY DEF FilesInit, ClosedFile
<1>3. \A p \in FProcs, fd \in FDs : ofile[p][fd] = NoFile
  BY DEF FilesInit
<1>4. Types
  <2>1. NoCall \in UserCall
    BY DEF NoCall, UserCall, NoFile
  <2>2. pipe \in Ring
    BY FilesAssumption DEF FilesInit, Ring, Cells
  <2>3. ClosedFile \in File
    BY DEF ClosedFile, File
  <2> QED BY <2>1, <2>2, <2>3, <1>1 DEF FilesInit, Types, Places, NoFile
<1>5. FileRefsCounted
  <2>1. \A f \in Slots : Refs(ofile, f) = {}
    BY <1>3, Numbers DEF Refs
  <2> QED BY <2>1, <1>2, FS_EmptySet DEF FileRefsCounted
<1>6. InodeCounted
  <2>1. InodeFiles = {} /\ Openers = {} /\ Closers = {}
    BY <1>1, <1>2 DEF InodeFiles, Openers, Closers
  <2> QED BY <2>1, FS_EmptySet DEF InodeCounted, FilesInit
<1>7. FreeAreBlank /\ HalfOpen /\ OneEnd /\ Holding /\ UnusedHaveNone
  BY <1>1, <1>2, <1>3 DEF FreeAreBlank, HalfOpen, OneEnd, PipeFile, PipeCloser, Holding, AtPc, UnusedHaveNone
<1>8. EndsCounted
  BY <1>1, <1>2 DEF EndsCounted, EndOpen, FilesInit
<1> QED BY <1>4, <1>5, <1>6, <1>7, <1>8 DEF RefsInv

-----------------------------------------------------------------------------
\* A step that leaves the files alone: each process stays, or goes from a place
\* that is not open() or the end of fileclose() to one that is not either.
Calm(q) ==
  \/ fpc'[q] = fpc[q] /\ call'[q] = call[q]
  \/ /\ fpc[q] \notin {"opening", "closing"} /\ call'[q] \in UserCall
     /\ \/ fpc'[q] \in {"user", "exiting"}
        \/ fpc'[q] = "unused" /\ \A fd \in FDs : ofile[q][fd] = NoFile
        \/ \E w \in BOOLEAN :
             /\ fpc'[q] \in AtPc(w)
             /\ call'[q].slot \in Slots /\ PipeFile(call'[q].slot, w)
             /\ \E fd \in FDs : ofile[q][fd] = call'[q].slot

LEMMA CalmKeeps ==
  ASSUME RefsInv, UNCHANGED <<ofile, file, pageFree, inodeRefs>>,
         pipe' \in Ring, pipe'.readopen = pipe.readopen, pipe'.writeopen = pipe.writeopen,
         killedProcs' \subseteq FProcs,
         fpc' = [q \in FProcs |-> fpc'[q]], call' = [q \in FProcs |-> call'[q]],
         \A q \in FProcs : Calm(q)
  PROVE  RefsInv'
<1>1. \A q \in FProcs : /\ fpc'[q] = "opening" <=> fpc[q] = "opening"
                        /\ fpc'[q] = "closing" <=> fpc[q] = "closing"
                        /\ fpc[q] \in {"opening", "closing"} => call'[q] = call[q]
  BY DEF Calm, AtPc
<1>2. Types'
  <2>1. \A q \in FProcs : fpc'[q] \in Places
    BY DEF Calm, AtPc, Places, RefsInv, Types
  <2>2. \A q \in FProcs : IF fpc'[q] = "closing" THEN call'[q] \in ClosingCall ELSE call'[q] \in UserCall
    BY <1>1 DEF Calm, AtPc, RefsInv, Types
  <2> QED BY <2>1, <2>2 DEF RefsInv, Types
<1>3. FileRefsCounted' /\ FreeAreBlank'
  BY DEF RefsInv, FileRefsCounted, FreeAreBlank
<1>4. InodeCounted'
  <2>1. Openers' = Openers /\ Closers' = Closers /\ InodeFiles' = InodeFiles
    BY <1>1 DEF Openers, Closers, InodeFiles
  <2> QED BY <2>1 DEF RefsInv, InodeCounted
<1>5. HalfOpen'
  BY <1>1 DEF RefsInv, HalfOpen
<1>6. \A q \in FProcs, w \in BOOLEAN : PipeCloser(q, w)' <=> PipeCloser(q, w)
  BY <1>1 DEF PipeCloser
<1>7. OneEnd'
  BY <1>6 DEF RefsInv, OneEnd, PipeFile
<1>8. EndsCounted'
  BY <1>6 DEF RefsInv, EndsCounted, EndOpen, PipeCloser
<1>9. Holding'
  <2> SUFFICES ASSUME NEW w \in BOOLEAN, NEW q \in FProcs, fpc'[q] \in AtPc(w)
               PROVE  /\ call'[q].slot \in Slots /\ PipeFile(call'[q].slot, w)
                      /\ \E fd \in FDs : ofile[q][fd] = call'[q].slot
    BY DEF Holding, PipeFile
  <2>1. CASE fpc'[q] = fpc[q] /\ call'[q] = call[q]
    BY <2>1 DEF RefsInv, Holding
  <2>2. CASE ~(fpc'[q] = fpc[q] /\ call'[q] = call[q])
    BY <2>2 DEF Calm, AtPc
  <2> QED BY <2>1, <2>2
<1>10. UnusedHaveNone'
  BY DEF Calm, AtPc, RefsInv, UnusedHaveNone
<1> QED BY <1>2, <1>3, <1>4, <1>5, <1>7, <1>8, <1>9, <1>10 DEF RefsInv

-----------------------------------------------------------------------------
\* The arithmetic of counters that wrap and of positions in a ring.
LEMMA Division ==
  ASSUME NEW a \in Int, NEW m \in Nat \ {0}
  PROVE  a % m \in 0..(m - 1) /\ \E q \in Int : a = m * q + (a % m)
<1>1. a % m \in 0..(m - 1) /\ a \div m \in Int
  OBVIOUS
<1>2. a = m * (a \div m) + (a % m)
  OBVIOUS
<1> QED BY <1>1, <1>2

\* The only multiple of m between -m and m is 0.
LEMMA NoMultiple ==
  ASSUME NEW m \in Nat \ {0}, NEW q \in Int, NEW r \in Int, r = m * q, 0 - m < r, r < m
  PROVE  r = 0
<1>1. CASE q >= 1
  <2>1. m * q >= m
    BY <1>1
  <2> QED BY <2>1
<1>2. CASE q <= -1
  <2>1. m * q <= 0 - m
    BY <1>2
  <2> QED BY <2>1
<1> QED BY <1>1, <1>2

LEMMA Remainder ==
  ASSUME NEW m \in Nat \ {0}, NEW a \in Int, NEW q \in Int, NEW r \in 0..(m - 1), a = m * q + r
  PROVE  a % m = r
<1>1. PICK p \in Int : a = m * p + (a % m)
  BY Division
<1>2. a % m \in 0..(m - 1)
  BY Division
<1>3. (a % m) - r = m * (q - p)
  <2>1. m * (q - p) = m * q - m * p
    OBVIOUS
  <2> QED BY <2>1, <1>1, <1>2
<1>4. (a % m) - r = 0
  BY <1>3, <1>2, NoMultiple, q - p \in Int
<1> QED BY <1>4, <1>2

\* a % n, as a name: the provers match it better than the operator.
Wrap(a, n) == a % n

\* Positions less than a turn apart differ.
LEMMA Apart ==
  ASSUME NEW m \in Nat \ {0}, NEW a \in Int, NEW b \in Int, Wrap(a, m) = Wrap(b, m), a - b < m, b - a < m
  PROVE  a = b
<1>1. PICK p \in Int : a = m * p + (a % m)
  BY Division
<1>2. PICK q \in Int : b = m * q + (b % m)
  BY Division
<1>3. a % m \in 0..(m - 1)
  BY Division
<1>4. a - b = m * (p - q)
  <2>1. m * (p - q) = m * p - m * q
    OBVIOUS
  <2> QED BY <2>1, <1>1, <1>2, <1>3 DEF Wrap
<1>5. a - b = 0
  BY <1>4, NoMultiple, p - q \in Int
<1> QED BY <1>5

\* a is a whole number of turns of n from b.
Turns(a, b, n) == \E q \in Int : a = b + n * q

\* A counter that wraps at n still gives the position in a ring whose size
\* divides n.
LEMMA SamePosition ==
  ASSUME NEW m \in Nat \ {0}, NEW n \in Int, Wrap(n, m) = 0, NEW a \in Int, NEW b \in Int,
         Turns(a, b, n)
  PROVE  Wrap(a, m) = Wrap(b, m)
<1> PICK q \in Int : a = b + n * q
  BY DEF Turns
<1> DEFINE r == b % m
<1>1. PICK s \in Int : b = m * s + r
  BY Division
<1>2. PICK c \in Int : n = m * c + (n % m)
  BY Division
<1>3. r \in 0..(m - 1)
  BY Division
<1> HIDE DEF r
<1>4. n = m * c
  BY <1>2 DEF Wrap
<1>5. n * q = m * (c * q)
  BY <1>4
<1>6. m * s + m * (c * q) = m * (s + c * q)
  OBVIOUS
<1>7. s + c * q \in Int /\ m * s \in Int /\ n * q \in Int
  OBVIOUS
<1>8. a = m * (s + c * q) + r
  <2>1. a = (m * s + r) + n * q
    BY <1>1
  <2> QED BY <2>1, <1>3, <1>5, <1>6, <1>7
<1>9. a % m = r
  BY <1>3, <1>7, <1>8, Remainder
<1> QED BY <1>9 DEF r, Wrap

\* A counter behind another by u, both reduced at n.
LEMMA Behind ==
  ASSUME NEW n \in Nat \ {0}, NEW w \in Int, NEW r \in Int
  PROVE  /\ Wrap(w - r, n) \in 0..(n - 1)
         /\ \E q \in Int : w = (r + Wrap(w - r, n)) + n * q
<1> DEFINE d == w - r  u == Wrap(d, n)
<1>1. d \in Int
  OBVIOUS
<1> HIDE DEF d
<1>2. PICK q \in Int : d = n * q + u
  BY <1>1, Division DEF Wrap
<1>3. u \in 0..(n - 1)
  BY <1>1, Division DEF Wrap
<1> HIDE DEF u
<1>4. n * q \in Int
  OBVIOUS
<1>5. w = (r + u) + n * q
  BY <1>2, <1>3, <1>4 DEF d
<1> QED BY <1>3, <1>5 DEF u, d

\* k is added to the counter that is ahead, or to the one behind.
LEMMA Ahead ==
  ASSUME NEW n \in Nat \ {0}, NEW w \in Int, NEW r \in Int, NEW k \in Int,
         Wrap(w - r, n) + k \in 0..(n - 1)
  PROVE  Wrap(Wrap(w + k, n) - r, n) = Wrap(w - r, n) + k
<1> DEFINE u == Wrap(w - r, n)  x == w + k  v == Wrap(x, n)
<1>1. u \in 0..(n - 1) /\ u + k \in 0..(n - 1) /\ \E p \in Int : w = (r + u) + n * p
  BY Behind
<1>2. PICK p \in Int : w = (r + u) + n * p
  BY <1>1
<1> HIDE DEF u, x
<1>3. x \in Int
  BY DEF x
<1>4. PICK q \in Int : x = n * q + v
  BY <1>3, Division DEF Wrap
<1>5. v \in 0..(n - 1)
  BY <1>3, Division DEF Wrap
<1> HIDE DEF v
<1>6. n * (p - q) = n * p - n * q /\ n * p \in Int /\ n * q \in Int /\ p - q \in Int
  OBVIOUS
<1>7. v - r = n * (p - q) + (u + k)
  BY <1>1, <1>2, <1>4, <1>5, <1>6 DEF x
<1>8. v - r \in Int
  BY <1>5
<1>9. Wrap(v - r, n) = u + k
  BY <1>1, <1>6, <1>7, <1>8, Remainder DEF Wrap
<1> QED BY <1>9 DEF u, v, x

LEMMA CatchUp ==
  ASSUME NEW n \in Nat \ {0}, NEW w \in Int, NEW r \in Int, NEW k \in Int,
         Wrap(w - r, n) - k \in 0..(n - 1)
  PROVE  Wrap(w - Wrap(r + k, n), n) = Wrap(w - r, n) - k
<1> DEFINE u == Wrap(w - r, n)  x == r + k  v == Wrap(x, n)
<1>1. u \in 0..(n - 1) /\ u - k \in 0..(n - 1) /\ \E p \in Int : w = (r + u) + n * p
  BY Behind
<1>2. PICK p \in Int : w = (r + u) + n * p
  BY <1>1
<1> HIDE DEF u, x
<1>3. x \in Int
  BY DEF x
<1>4. PICK q \in Int : x = n * q + v
  BY <1>3, Division DEF Wrap
<1>5. v \in 0..(n - 1)
  BY <1>3, Division DEF Wrap
<1> HIDE DEF v
<1>6. n * (p + q) = n * p + n * q /\ n * p \in Int /\ n * q \in Int /\ p + q \in Int
  OBVIOUS
<1>7. w - v = n * (p + q) + (u - k)
  BY <1>1, <1>2, <1>4, <1>5, <1>6 DEF x
<1>8. w - v \in Int
  BY <1>5
<1>9. Wrap(w - v, n) = u - k
  BY <1>1, <1>6, <1>7, <1>8, Remainder DEF Wrap
<1> QED BY <1>9 DEF u, v, x

-----------------------------------------------------------------------------
\* The ring.  Position i of what is in the pipe, the oldest byte at 1.
Cell(i) == Wrap(pipe.nread + i - 1, PIPESIZE)

LEMMA RingNumbers ==
  /\ PIPESIZE \in Nat \ {0} /\ COUNTER \in Nat \ {0} /\ COUNTER \in Int
  /\ Wrap(COUNTER, PIPESIZE) = 0 /\ COUNTER > PIPESIZE
BY FilesAssumption DEF Wrap

LEMMA UsedRange ==
  ASSUME pipe \in Ring
  PROVE  Used \in 0..(COUNTER - 1) /\ Used \in Nat /\ Used = Wrap(pipe.nwrite - pipe.nread, COUNTER)
<1>1. pipe.nread \in Int /\ pipe.nwrite \in Int
  BY DEF Ring
<1>3. COUNTER \in Nat \ {0}
  BY RingNumbers
<1>2. Wrap(pipe.nwrite - pipe.nread, COUNTER) \in 0..(COUNTER - 1)
  BY ONLY <1>1, <1>3, Behind, Zenon
<1> QED BY <1>2, RingNumbers DEF Used, Wrap

\* data[nwrite + j - 1] is the position after the bytes in the pipe.
LEMMA NextCell ==
  ASSUME pipe \in Ring, NEW j \in Int
  PROVE  (pipe.nwrite + j - 1) % PIPESIZE = Cell(Used + j)
<1> DEFINE a == pipe.nwrite + j - 1  b == pipe.nread + (Used + j) - 1
<1>1. pipe.nread \in Int /\ pipe.nwrite \in Int
  BY DEF Ring
<1>2. Used \in Int
  BY UsedRange
<1>3. PICK q \in Int : pipe.nwrite = (pipe.nread + Used) + COUNTER * q
  <2>1. \E q \in Int : pipe.nwrite = (pipe.nread + Wrap(pipe.nwrite - pipe.nread, COUNTER)) + COUNTER * q
    <3>1. COUNTER \in Nat \ {0}
      BY RingNumbers
    <3> QED BY ONLY <1>1, <3>1, Behind, Zenon
  <2> QED BY <2>1, UsedRange, Zenon
<1>4. COUNTER * q \in Int
  BY RingNumbers
<1>5. a \in Int /\ b \in Int /\ Turns(a, b, COUNTER)
  <2>1. a = b + COUNTER * q
    BY <1>1, <1>2, <1>3, <1>4
  <2> QED BY <1>1, <1>2, <2>1 DEF Turns
<1> HIDE DEF a, b
<1>6. Wrap(a, PIPESIZE) = Wrap(b, PIPESIZE)
  BY <1>5, RingNumbers, SamePosition
<1> QED BY <1>6 DEF a, b, Cell, Wrap

LEMMA CellsDiffer ==
  ASSUME pipe \in Ring, NEW i \in Int, NEW j \in Int, Cell(i) = Cell(j), i - j < PIPESIZE, j - i < PIPESIZE
  PROVE  i = j
<1> DEFINE a == pipe.nread + i - 1  b == pipe.nread + j - 1
<1>1. pipe.nread \in Int
  BY DEF Ring
<1>2. a \in Int /\ b \in Int /\ a - b < PIPESIZE /\ b - a < PIPESIZE
  BY <1>1, RingNumbers
<1>3. Wrap(a, PIPESIZE) = Wrap(b, PIPESIZE)
  BY DEF Cell
<1> HIDE DEF a, b
<1>4. a = b
  BY <1>2, <1>3, RingNumbers, Apart
<1> QED BY <1>1, <1>4 DEF a, b

LEMMA CellRange == ASSUME pipe \in Ring, NEW i \in Int PROVE Cell(i) \in 0..(PIPESIZE - 1)
<1> DEFINE a == pipe.nread + i - 1
<1>1. a \in Int
  BY DEF Ring
<1> HIDE DEF a
<1>2. a % PIPESIZE \in 0..(PIPESIZE - 1)
  BY <1>1, RingNumbers, Division
<1> QED BY <1>2 DEF a, Cell, Wrap

\* What pipewrite() leaves when it has put k bytes of m into the pipe.
LEMMA FilledIs ==
  ASSUME pipe \in Ring, NEW m \in Seq(Bytes), NEW k \in Nat, k <= Len(m), Used + k <= PIPESIZE,
         pipe' = Filled(m, k)
  PROVE  /\ pipe' \in Ring
         /\ pipe'.readopen = pipe.readopen /\ pipe'.writeopen = pipe.writeopen
         /\ Used' = Used + k
         /\ pipe'.nread = pipe.nread
         /\ \A i \in 1..Used : pipe'.data[Cell(i)] = pipe.data[Cell(i)]
         /\ \A j \in 1..k : pipe'.data[Cell(Used + j)] = m[j]
<1> DEFINE at(i) == {j \in 1..k : (pipe.nwrite + j - 1) % PIPESIZE = i}
           data == [i \in DOMAIN pipe.data |-> IF at(i) = {} THEN pipe.data[i] ELSE m[Max(at(i))]]
<1>1. pipe' = [pipe EXCEPT !.nwrite = (@ + k) % COUNTER, !.data = data]
  BY DEF Filled
<1>2. pipe.nread \in Int /\ pipe.nwrite \in Int /\ DOMAIN pipe.data = 0..(PIPESIZE - 1)
  BY DEF Ring
<1>3. \A j \in 1..k : (pipe.nwrite + j - 1) % PIPESIZE = Cell(Used + j)
  BY NextCell
<1>4. Used \in Nat
  BY UsedRange
<1>5. ASSUME NEW j \in 1..k
      PROVE  at(Cell(Used + j)) = {j} /\ Max(at(Cell(Used + j))) = j
  <2>1. j \in at(Cell(Used + j))
    BY <1>3
  <2>2. ASSUME NEW h \in at(Cell(Used + j)) PROVE h = j
    <3>1. h \in 1..k /\ Cell(Used + h) = Cell(Used + j)
      BY <1>3
    <3>2. Used + h = Used + j
      BY <3>1, <1>4, RingNumbers, CellsDiffer
    <3> QED BY <3>1, <3>2, <1>4
  <2>3. at(Cell(Used + j)) = {j}
    BY <2>1, <2>2
  <2>4. Max({j}) = j
    BY DEF Max
  <2> QED BY <2>3, <2>4
<1>6. \A j \in 1..k : m[j] \in Bytes
  BY ElementOfSeq
<1>7. ASSUME NEW i \in 0..(PIPESIZE - 1), at(i) # {}
      PROVE  \E j \in 1..k : i = Cell(Used + j)
  BY <1>3, <1>7
<1>8. data \in [0..(PIPESIZE - 1) -> Cells]
  <2> SUFFICES ASSUME NEW i \in 0..(PIPESIZE - 1) PROVE data[i] \in Cells
    BY <1>2
  <2>1. CASE at(i) = {}
    BY <2>1, <1>2 DEF Ring
  <2>2. CASE at(i) # {}
    <3>1. PICK j \in 1..k : i = Cell(Used + j)
      BY <2>2, <1>7
    <3>2. data[i] = m[j]
      BY <1>2, <1>5, <2>2, <3>1
    <3> QED BY <3>2, <1>6 DEF Cells
  <2> QED BY <2>1, <2>2
<1>9. \A j \in 1..k : data[Cell(Used + j)] = m[j]
  <2> TAKE j \in 1..k
  <2>1. Cell(Used + j) \in 0..(PIPESIZE - 1)
    BY <1>4, CellRange, Used + j \in Int
  <2> QED BY <2>1, <1>2, <1>5
<1>10. \A i \in 1..Used : data[Cell(i)] = pipe.data[Cell(i)]
  <2> TAKE i \in 1..Used
  <2>1. Cell(i) \in 0..(PIPESIZE - 1)
    BY <1>4, CellRange, i \in Int
  <2>2. at(Cell(i)) = {}
    <3> SUFFICES ASSUME NEW j \in at(Cell(i)) PROVE FALSE
      OBVIOUS
    <3>1. j \in 1..k /\ Cell(Used + j) = Cell(i)
      BY <1>3
    <3>2. Used + j = i
      BY <3>1, <1>4, RingNumbers, CellsDiffer
    <3> QED BY <3>1, <3>2, <1>4
  <2> QED BY <2>1, <2>2, <1>2
<1> HIDE DEF data
<1>11. (pipe.nwrite + k) % COUNTER \in 0..(COUNTER - 1)
  <2>1. pipe.nwrite + k \in Int
    BY <1>2
  <2> QED BY <2>1, RingNumbers, Division
<1>12. /\ pipe' \in Ring /\ pipe'.data = data /\ pipe'.nread = pipe.nread
       /\ pipe'.readopen = pipe.readopen /\ pipe'.writeopen = pipe.writeopen
       /\ pipe'.nwrite = (pipe.nwrite + k) % COUNTER
  BY <1>1, <1>8, <1>11 DEF Ring
<1>13. Used' = Used + k
  <2>1. Used' = Wrap(Wrap(pipe.nwrite + k, COUNTER) - pipe.nread, COUNTER)
    BY <1>12 DEF Used, Wrap
  <2>2. Wrap(pipe.nwrite - pipe.nread, COUNTER) + k \in 0..(COUNTER - 1)
    BY <1>4, RingNumbers, UsedRange
  <2>3. Wrap(Wrap(pipe.nwrite + k, COUNTER) - pipe.nread, COUNTER) =
          Wrap(pipe.nwrite - pipe.nread, COUNTER) + k
    <3>1. pipe.nwrite \in Int /\ pipe.nread \in Int /\ COUNTER \in Nat \ {0} /\ k \in Int
      BY <1>2, RingNumbers
    <3> QED BY <2>2, <3>1, Ahead
  <2> QED BY <2>1, <2>3, UsedRange
<1> QED BY <1>9, <1>10, <1>12, <1>13

-----------------------------------------------------------------------------
RingInv == Used <= PIPESIZE /\ AsleepWithCause

FilesInv == RefsInv /\ RingInv

\* A step that moves no counter and closes no end keeps the sleepers' causes.
LEMMA RingSame ==
  ASSUME RingInv, pipe'.nread = pipe.nread, pipe'.nwrite = pipe.nwrite,
         pipe'.readopen = pipe.readopen, pipe'.writeopen = pipe.writeopen,
         \A q \in FProcs : fpc'[q] \in {"read_sleep", "write_sleep"} => fpc'[q] = fpc[q]
  PROVE  RingInv'
<1>1. Used' = Used
  BY DEF Used
<1> QED BY <1>1 DEF RingInv, AsleepWithCause, Room

\* The place of a process inside a call, and the call it is in.
LEMMA InCall ==
  ASSUME RefsInv, NEW p \in FProcs, NEW w \in BOOLEAN, fpc[p] \in AtPc(w)
  PROVE  /\ call[p] \in UserCall /\ call[p].slot \in Slots /\ PipeFile(call[p].slot, w)
         /\ \E fd \in FDs : ofile[p][fd] = call[p].slot
BY DEF RefsInv, Types, Holding, AtPc

\* p stays in its call with c left to do, or returns.
Next1(p, s, c) ==
  \/ s = "user" /\ c = NoCall
  \/ /\ c \in UserCall /\ c.slot = call[p].slot
     /\ \E w \in BOOLEAN : fpc[p] \in AtPc(w) /\ s \in AtPc(w)

LEMMA OneCalm ==
  ASSUME RefsInv, NEW p \in FProcs, NEW s, NEW c, Next1(p, s, c),
         fpc[p] \notin {"opening", "closing"}, fpc'[p] = s, call'[p] = c
  PROVE  Calm(p)
<1>1. CASE s = "user" /\ c = NoCall
  BY <1>1 DEF Calm, NoCall, UserCall, NoFile
<1>2. ASSUME NEW w \in BOOLEAN, fpc[p] \in AtPc(w), s \in AtPc(w), c \in UserCall, c.slot = call[p].slot
      PROVE  Calm(p)
  BY <1>2, InCall DEF Calm
<1> QED BY <1>1, <1>2 DEF Next1

LEMMA WakeCalm ==
  ASSUME RefsInv, NEW p \in FProcs, NEW s, NEW c, Next1(p, s, c),
         fpc[p] \notin {"opening", "closing"},
         NEW w \in BOOLEAN, NEW sleep \in AtPc(w), NEW run \in AtPc(w),
         Wake(p, s, sleep, run), call' = [call EXCEPT ![p] = c]
  PROVE  /\ fpc' = [q \in FProcs |-> fpc'[q]] /\ call' = [q \in FProcs |-> call'[q]]
         /\ \A q \in FProcs : Calm(q)
<1>1. fpc' = [q \in FProcs |-> fpc'[q]] /\ call' = [q \in FProcs |-> call'[q]]
  BY DEF Wake, RefsInv, Types
<1>2. fpc'[p] = s /\ call'[p] = c
  BY DEF Wake, RefsInv, Types
<1>3. Calm(p)
  BY <1>2, OneCalm
<1>4. ASSUME NEW q \in FProcs, q # p
      PROVE  Calm(q)
  <2>1. call'[q] = call[q]
    BY <1>4 DEF RefsInv, Types
  <2>2. CASE fpc[q] = sleep
    <3>1. fpc'[q] = run /\ fpc[q] \in AtPc(w)
      BY <1>4, <2>2 DEF Wake
    <3> QED BY <2>1, <3>1, InCall DEF Calm, AtPc
  <2>3. CASE fpc[q] # sleep
    BY <1>4, <2>1, <2>3 DEF Wake, Calm
  <2> QED BY <2>2, <2>3
<1> QED BY <1>1, <1>3, <1>4

LEMMA WalkCalm ==
  ASSUME RefsInv, NEW p \in FProcs, NEW s, NEW c, Walk(p, s), call' = [call EXCEPT ![p] = c],
         (fpc'[p] = s /\ call'[p] = c) => Calm(p)
  PROVE  /\ fpc' = [q \in FProcs |-> fpc'[q]] /\ call' = [q \in FProcs |-> call'[q]]
         /\ \A q \in FProcs : Calm(q)
<1>1. fpc' = [q \in FProcs |-> fpc'[q]] /\ call' = [q \in FProcs |-> call'[q]]
  BY DEF Walk, RefsInv, Types
<1>2. fpc'[p] = s /\ call'[p] = c
  BY DEF Walk, RefsInv, Types
<1>3. \A q \in FProcs : q # p => fpc'[q] = fpc[q] /\ call'[q] = call[q]
  BY DEF Walk, RefsInv, Types
<1> QED BY <1>1, <1>2, <1>3 DEF Calm

-----------------------------------------------------------------------------
\* The actions that leave the files alone.
LEMMA SameCall ==
  ASSUME RefsInv, NEW p \in FProcs, UNCHANGED call
  PROVE  call' = [call EXCEPT ![p] = call[p]]
BY DEF RefsInv, Types

LEMMA StartExitKeeps ==
  ASSUME FilesInv, NEW p \in FProcs, StartExit(p) \/ ExitDone(p)
  PROVE  FilesInv'
<1> PICK s \in {"exiting", "unused"} : Walk(p, s)
  BY DEF StartExit, ExitDone
<1>1. fpc[p] \in {"user", "exiting"} /\ UNCHANGED <<ofile, file, pipe, pageFree, inodeRefs, call>>
  BY DEF StartExit, ExitDone
<1>2. Walk(p, "unused") => \A fd \in FDs : ofile[p][fd] = NoFile
  <2>1. StartExit(p) => ~Walk(p, "unused")
    BY DEF StartExit, Walk, FilesInv, RefsInv, Types
  <2> QED BY <2>1 DEF ExitDone, OpenFDs
<1>3. (fpc'[p] = s /\ call'[p] = call[p]) => Calm(p)
  BY <1>1, <1>2 DEF Calm, FilesInv, RefsInv, Types
<1>4. RefsInv'
  <2>1. killedProcs' \subseteq FProcs /\ pipe' \in Ring
    BY <1>1 DEF StartExit, ExitDone, FilesInv, RefsInv, Types
  <2> QED BY <1>1, <1>3, <2>1, SameCall, WalkCalm, CalmKeeps DEF FilesInv
<1>5. RingInv'
  BY <1>1, RingSame DEF FilesInv, Walk, RefsInv, Types
<1> QED BY <1>4, <1>5 DEF FilesInv

LEMMA KillKeeps ==
  ASSUME FilesInv, NEW p \in FProcs, KillProc(p)
  PROVE  FilesInv'
<1> DEFINE s == CASE fpc[p] = "read_sleep" -> "read" [] fpc[p] = "write_sleep" -> "write" [] OTHER -> fpc[p]
<1>1. Walk(p, s) /\ UNCHANGED <<ofile, file, pipe, pageFree, inodeRefs, call>>
  BY DEF KillProc, Walk, FilesInv, RefsInv, Types
<1>2. (fpc'[p] = s /\ call'[p] = call[p]) => Calm(p)
  <2>1. ASSUME NEW w \in BOOLEAN, fpc[p] \in AtPc(w), fpc'[p] \in AtPc(w), call'[p] = call[p]
        PROVE  Calm(p)
    BY <2>1, InCall DEF Calm, FilesInv, AtPc
  <2>2. CASE fpc[p] = "read_sleep"
    BY <2>1, <2>2 DEF AtPc
  <2>3. CASE fpc[p] = "write_sleep"
    BY <2>1, <2>3 DEF AtPc
  <2>4. CASE fpc[p] \notin {"read_sleep", "write_sleep"}
    BY <2>4 DEF Calm
  <2> QED BY <2>2, <2>3, <2>4
<1>3. s \notin {"read_sleep", "write_sleep"}
  OBVIOUS
<1> HIDE DEF s
<1>4. RefsInv'
  <2>1. killedProcs' \subseteq FProcs /\ pipe' \in Ring
    BY <1>1 DEF KillProc, FilesInv, RefsInv, Types
  <2> QED BY <1>1, <1>2, <2>1, SameCall, WalkCalm, CalmKeeps DEF FilesInv
<1>5. RingInv'
  BY <1>1, <1>3, RingSame DEF FilesInv, Walk, RefsInv, Types
<1> QED BY <1>4, <1>5 DEF FilesInv

\* read() and write() of a pipe are entered with the file of a descriptor.
LEMMA EnterKeeps ==
  ASSUME FilesInv, NEW p \in FProcs, NEW fd \in FDs,
         (\E m \in Messages : SysWrite(p, fd, m)) \/ (\E n \in ReadSizes : SysRead(p, fd, n))
  PROVE  FilesInv'
<1>1. PICK w \in BOOLEAN, c \in UserCall :
        /\ c.slot = ofile[p][fd] /\ call' = [call EXCEPT ![p] = c]
        /\ Walk(p, IF w THEN "write" ELSE "read")
        /\ PipeFile(ofile[p][fd], w)
  <2>1. ofile[p][fd] \in Slots \cup {NoFile}
    BY DEF FilesInv, RefsInv, Types
  <2>2. ASSUME NEW m \in Messages, SysWrite(p, fd, m)
        PROVE  /\ [NoCall EXCEPT !.slot = ofile[p][fd], !.bytes = m] \in UserCall
               /\ [NoCall EXCEPT !.slot = ofile[p][fd], !.bytes = m].slot = ofile[p][fd]
               /\ PipeFile(ofile[p][fd], TRUE)
    BY <2>1, <2>2, FilesAssumption DEF SysWrite, NoCall, UserCall, PipeFile, FilesInv, RefsInv, Types, File, NoFile
  <2>3. ASSUME NEW n \in ReadSizes, SysRead(p, fd, n)
        PROVE  /\ [NoCall EXCEPT !.slot = ofile[p][fd], !.n = n] \in UserCall
               /\ [NoCall EXCEPT !.slot = ofile[p][fd], !.n = n].slot = ofile[p][fd]
               /\ PipeFile(ofile[p][fd], FALSE)
    <3>1. n \in Nat
      BY FilesAssumption
    <3>2. PipeFile(ofile[p][fd], FALSE)
      BY <2>1, <2>3 DEF SysRead, PipeFile, FilesInv, RefsInv, Types, File
    <3>3. NoCall \in UserCall
      BY DEF NoCall, UserCall, NoFile
    <3>4. [NoCall EXCEPT !.slot = ofile[p][fd], !.n = n] \in UserCall
      BY <2>1, <3>1, <3>3 DEF UserCall
    <3>5. [NoCall EXCEPT !.slot = ofile[p][fd], !.n = n].slot = ofile[p][fd]
      BY <3>3 DEF UserCall
    <3> QED BY <3>2, <3>4, <3>5
  <2>4. CASE \E m \in Messages : SysWrite(p, fd, m)
    <3>1. PICK m \in Messages : SysWrite(p, fd, m)
      BY <2>4
    <3>2. call' = [call EXCEPT ![p] = [NoCall EXCEPT !.slot = ofile[p][fd], !.bytes = m]] /\ Walk(p, "write")
      BY <3>1 DEF SysWrite
    <3> QED BY <2>2, <3>1, <3>2
  <2>5. CASE \E n \in ReadSizes : SysRead(p, fd, n)
    <3>1. PICK n \in ReadSizes : SysRead(p, fd, n)
      BY <2>5
    <3>2. call' = [call EXCEPT ![p] = [NoCall EXCEPT !.slot = ofile[p][fd], !.n = n]] /\ Walk(p, "read")
      BY <3>1 DEF SysRead
    <3> QED BY <2>3, <3>1, <3>2
  <2> QED BY <2>4, <2>5
<1>2. /\ fpc[p] = "user" /\ ofile[p][fd] # NoFile
      /\ UNCHANGED <<ofile, file, pipe, pageFree, inodeRefs, killedProcs>>
  BY DEF SysWrite, SysRead, InUser
<1>3. (fpc'[p] = (IF w THEN "write" ELSE "read") /\ call'[p] = c) => Calm(p)
  BY <1>1, <1>2 DEF Calm, AtPc, FilesInv, RefsInv, Types
<1>4. RefsInv'
  <2>1. killedProcs' \subseteq FProcs /\ pipe' \in Ring
    BY <1>2 DEF FilesInv, RefsInv, Types
  <2> QED BY <1>1, <1>2, <1>3, <2>1, WalkCalm, CalmKeeps DEF FilesInv
<1>5. RingInv'
  BY <1>1, <1>2, RingSame DEF FilesInv, Walk, RefsInv, Types
<1> QED BY <1>4, <1>5 DEF FilesInv

\* The room of the pipe, and what a writer has left.
LEMMA RoomRange ==
  ASSUME FilesInv
  PROVE  Room \in 0..PIPESIZE /\ Used \in 0..PIPESIZE /\ Used + Room = PIPESIZE
<1>1. Used \in Nat /\ Used <= PIPESIZE
  BY UsedRange DEF FilesInv, RefsInv, Types, RingInv
<1> QED BY <1>1, RingNumbers DEF Room

LEMMA WriterHas ==
  ASSUME FilesInv, NEW p \in FProcs, fpc[p] = "write"
  PROVE  call[p].bytes \in Seq(Bytes) /\ Len(call[p].bytes) \in Nat /\ call[p] \in UserCall
<1>1. call[p] \in UserCall
  BY DEF FilesInv, RefsInv, Types
<1>2. call[p].bytes \in Seq(Bytes)
  BY <1>1 DEF UserCall
<1> QED BY <1>1, <1>2, LenProperties

\* What the three ends of pipewrite() have in common: k bytes go in.
LEMMA WriteFills ==
  ASSUME FilesInv, NEW p \in FProcs, PipeWriteAll(p) \/ PipeWriteSleep(p) \/ PipeWriteFail(p)
  PROVE  \E k \in Nat :
           /\ k <= Len(call[p].bytes) /\ Used + k <= PIPESIZE /\ pipe' = Filled(call[p].bytes, k)
           /\ ~PipeWriteAll(p) => k = Room
<1> DEFINE m == call[p].bytes
<1>1. Len(m) \in Nat
  BY WriterHas DEF PipeWriteAll, PipeWriteSleep, PipeWriteFail
<1>2. CASE PipeWriteAll(p)
  <2>1. Len(m) <= Room /\ pipe' = Filled(m, Len(m))
    BY <1>2 DEF PipeWriteAll
  <2> QED BY <1>1, <1>2, <2>1, RoomRange
<1>3. CASE ~PipeWriteAll(p)
  <2>1. Len(m) > Room /\ pipe' = Filled(m, Room)
    BY <1>3 DEF PipeWriteSleep, PipeWriteFail
  <2> QED BY <1>1, <2>1, RoomRange
<1> QED BY <1>2, <1>3

LEMMA WriteKeeps ==
  ASSUME FilesInv, NEW p \in FProcs, PipeWriteAll(p) \/ PipeWriteSleep(p) \/ PipeWriteFail(p)
  PROVE  FilesInv'
<1> DEFINE m == call[p].bytes
<1>1. PICK k \in Nat : /\ k <= Len(m) /\ Used + k <= PIPESIZE /\ pipe' = Filled(m, k)
                       /\ ~PipeWriteAll(p) => k = Room
  BY WriteFills
<1>2. fpc[p] = "write" /\ UNCHANGED <<ofile, file, pageFree, inodeRefs, killedProcs>>
  BY DEF PipeWriteAll, PipeWriteSleep, PipeWriteFail
<1>3. m \in Seq(Bytes) /\ Len(m) \in Nat /\ call[p] \in UserCall
  BY <1>2, WriterHas
<1>4. /\ pipe' \in Ring /\ Used' = Used + k
      /\ pipe'.readopen = pipe.readopen /\ pipe'.writeopen = pipe.writeopen
  BY <1>1, <1>3, FilledIs DEF FilesInv, RefsInv, Types
<1>5. /\ fpc' = [q \in FProcs |-> fpc'[q]] /\ call' = [q \in FProcs |-> call'[q]]
      /\ \A q \in FProcs : Calm(q)
  <2>1. CASE PipeWriteAll(p)
    BY <1>2, <2>1, WakeCalm DEF PipeWriteAll, Next1, AtPc, FilesInv
  <2>2. CASE PipeWriteSleep(p)
    <3> DEFINE c == [call[p] EXCEPT !.bytes = SubSeq(m, Room + 1, Len(m))]
    <3>1. call' = [call EXCEPT ![p] = c]
      BY <2>2 DEF PipeWriteSleep
    <3>2. SubSeq(m, Room + 1, Len(m)) \in Seq(Bytes)
      <4>1. \A i \in (Room + 1)..Len(m) : m[i] \in Bytes
        BY <1>3, RoomRange, ElementOfSeq
      <4> QED BY <4>1, <1>3, RoomRange, SubSeqProperties
    <3>3. c \in UserCall /\ c.slot = call[p].slot
      BY <1>3, <3>2 DEF UserCall
    <3> HIDE DEF c
    <3>4. Next1(p, "write_sleep", c)
      BY <3>3, <1>2 DEF Next1, AtPc
    <3>5. Wake(p, "write_sleep", "read_sleep", "read")
      BY <2>2 DEF PipeWriteSleep
    <3>6. "read_sleep" \in AtPc(FALSE) /\ "read" \in AtPc(FALSE)
      BY DEF AtPc
    <3> QED BY <1>2, <3>1, <3>4, <3>5, <3>6, WakeCalm DEF FilesInv
  <2>3. CASE PipeWriteFail(p)
    <3>1. Walk(p, "user") /\ call' = [call EXCEPT ![p] = NoCall]
      BY <2>3 DEF PipeWriteFail
    <3>2. (fpc'[p] = "user" /\ call'[p] = NoCall) => Calm(p)
      BY <1>2, OneCalm DEF Next1, FilesInv
    <3> QED BY <3>1, <3>2, WalkCalm DEF FilesInv
  <2> QED BY <2>1, <2>2, <2>3
<1>6. RefsInv'
  BY <1>2, <1>4, <1>5, CalmKeeps DEF FilesInv, RefsInv, Types
<1>7. RingInv'
  <2>1. Used' <= PIPESIZE /\ Room' = Room - k
    BY <1>1, <1>4, RoomRange, RingNumbers DEF Room
  <2>2. \A q \in FProcs : fpc[q] = "write_sleep" => k = 0
    BY <1>1, <2>1, RoomRange DEF FilesInv, RingInv, AsleepWithCause
  <2>3. CASE PipeWriteAll(p)
    <3>1. \A q \in FProcs : fpc'[q] # "read_sleep" /\ (fpc'[q] = "write_sleep" => fpc[q] = "write_sleep")
      BY <2>3 DEF PipeWriteAll, Wake
    <3>2. \A q \in FProcs : fpc'[q] = "write_sleep" => pipe.readopen /\ Room' = 0
      BY <2>1, <2>2, <3>1, RoomRange DEF FilesInv, RingInv, AsleepWithCause
    <3> QED BY <1>4, <2>1, <3>1, <3>2 DEF RingInv, AsleepWithCause
  <2>4. CASE PipeWriteSleep(p)
    <3>1. \A q \in FProcs : fpc'[q] # "read_sleep"
      BY <2>4 DEF PipeWriteSleep, Wake
    <3>2. pipe.readopen /\ k = Room
      <4>1. ~PipeWriteAll(p)
        BY <2>4, <1>3, RoomRange DEF PipeWriteAll, PipeWriteSleep
      <4> QED BY <4>1, <1>1, <2>4 DEF PipeWriteSleep
    <3>3. Room' = 0
      BY <2>1, <3>2, RoomRange
    <3> QED BY <1>4, <2>1, <3>1, <3>2, <3>3 DEF RingInv, AsleepWithCause
  <2>5. CASE PipeWriteFail(p)
    <3>1. \A q \in FProcs : fpc'[q] \in {"read_sleep", "write_sleep"} => fpc'[q] = fpc[q]
      BY <2>5 DEF PipeWriteFail, Walk, FilesInv, RefsInv, Types
    <3>2. \A q \in FProcs : fpc'[q] = "write_sleep" => pipe.readopen /\ Room' = 0
      BY <2>1, <2>2, <3>1, RoomRange DEF FilesInv, RingInv, AsleepWithCause
    <3> QED BY <1>4, <2>1, <3>1, <3>2 DEF FilesInv, RingInv, AsleepWithCause
  <2> QED BY <2>3, <2>4, <2>5
<1> QED BY <1>6, <1>7 DEF FilesInv

\* What piperead() leaves when it has taken k bytes.
LEMMA ReadIs ==
  ASSUME pipe \in Ring, NEW k \in Nat, k <= Used,
         pipe' = [pipe EXCEPT !.nread = (@ + k) % COUNTER]
  PROVE  /\ pipe' \in Ring /\ Used' = Used - k
         /\ pipe'.readopen = pipe.readopen /\ pipe'.writeopen = pipe.writeopen
         /\ pipe'.data = pipe.data /\ pipe'.nwrite = pipe.nwrite
         /\ pipe'.nread = Wrap(pipe.nread + k, COUNTER)
<1>1. pipe.nread \in Int /\ pipe.nwrite \in Int /\ pipe.nread + k \in Int /\ COUNTER \in Nat \ {0} /\ k \in Int
  BY RingNumbers DEF Ring
<1>2. Wrap(pipe.nread + k, COUNTER) \in 0..(COUNTER - 1)
  BY <1>1, Division DEF Wrap
<1>3. /\ pipe' \in Ring
      /\ pipe'.readopen = pipe.readopen /\ pipe'.writeopen = pipe.writeopen
      /\ pipe'.data = pipe.data /\ pipe'.nwrite = pipe.nwrite
      /\ pipe'.nread = Wrap(pipe.nread + k, COUNTER)
  BY <1>2 DEF Ring, Wrap
<1>4. Used' = Wrap(pipe.nwrite - Wrap(pipe.nread + k, COUNTER), COUNTER)
  BY <1>3 DEF Used, Wrap
<1>5. Wrap(pipe.nwrite - pipe.nread, COUNTER) - k \in 0..(COUNTER - 1)
  BY UsedRange, <1>1
<1>6. Wrap(pipe.nwrite - Wrap(pipe.nread + k, COUNTER), COUNTER) =
        Wrap(pipe.nwrite - pipe.nread, COUNTER) - k
  BY <1>1, <1>5, CatchUp
<1> QED BY <1>3, <1>4, <1>6, UsedRange

LEMMA ReaderHas ==
  ASSUME FilesInv, NEW p \in FProcs, fpc[p] = "read"
  PROVE  call[p].n \in Nat /\ call[p] \in UserCall
BY DEF FilesInv, RefsInv, Types, UserCall

LEMMA ReadWaitKeeps ==
  ASSUME FilesInv, NEW p \in FProcs, PipeReadSleep(p) \/ PipeReadFail(p)
  PROVE  FilesInv'
<1>1. /\ fpc[p] = "read" /\ Used = 0 /\ pipe.writeopen
      /\ UNCHANGED <<ofile, file, pipe, pageFree, inodeRefs, killedProcs>>
  BY DEF PipeReadSleep, PipeReadFail
<1>2. /\ fpc' = [q \in FProcs |-> fpc'[q]] /\ call' = [q \in FProcs |-> call'[q]]
      /\ \A q \in FProcs : Calm(q)
  <2>1. CASE PipeReadSleep(p)
    <3>1. Walk(p, "read_sleep") /\ UNCHANGED call
      BY <2>1 DEF PipeReadSleep
    <3>2. Next1(p, "read_sleep", call[p])
      BY <1>1, ReaderHas DEF Next1, AtPc
    <3>3. (fpc'[p] = "read_sleep" /\ call'[p] = call[p]) => Calm(p)
      BY <1>1, <3>2, OneCalm DEF FilesInv
    <3> QED BY <3>1, <3>3, SameCall, WalkCalm DEF FilesInv
  <2>2. CASE PipeReadFail(p)
    <3>1. Walk(p, "user") /\ call' = [call EXCEPT ![p] = NoCall]
      BY <2>2 DEF PipeReadFail
    <3>2. (fpc'[p] = "user" /\ call'[p] = NoCall) => Calm(p)
      BY <1>1, OneCalm DEF Next1, FilesInv
    <3> QED BY <3>1, <3>2, WalkCalm DEF FilesInv
  <2> QED BY <2>1, <2>2
<1>3. RefsInv'
  BY <1>1, <1>2, CalmKeeps DEF FilesInv, RefsInv, Types
<1>4. RingInv'
  <2>1. Used' = Used /\ Room' = Room
    BY <1>1 DEF Used, Room
  <2>2. \A q \in FProcs : fpc[q] # "write_sleep"
    BY <1>1, RoomRange, RingNumbers DEF FilesInv, RingInv, AsleepWithCause
  <2>3. \A q \in FProcs : /\ fpc'[q] # "write_sleep"
                          /\ fpc'[q] = "read_sleep" => pipe.writeopen
    BY <1>1, <2>2 DEF PipeReadSleep, PipeReadFail, Walk, FilesInv, RefsInv, Types
  <2> QED BY <1>1, <2>1, <2>3 DEF FilesInv, RingInv, AsleepWithCause
<1> QED BY <1>3, <1>4 DEF FilesInv

\* The number of bytes that piperead() takes.
LEMMA ReadTakes ==
  ASSUME FilesInv, NEW p \in FProcs, PipeRead(p)
  PROVE  \E k \in Nat : /\ k <= Used /\ result' = SubSeq(InPipe, 1, k)
                        /\ pipe' = [pipe EXCEPT !.nread = (@ + k) % COUNTER]
<1> DEFINE k == IF call[p].n < Used THEN call[p].n ELSE Used
<1>1. call[p].n \in Nat /\ Used \in Nat
  BY ReaderHas, RoomRange DEF PipeRead
<1>2. k \in Nat /\ k <= Used
  BY <1>1
<1>3. result' = SubSeq(InPipe, 1, k) /\ pipe' = [pipe EXCEPT !.nread = (@ + k) % COUNTER]
  BY DEF PipeRead
<1> QED BY <1>2, <1>3

LEMMA ReadKeeps ==
  ASSUME FilesInv, NEW p \in FProcs, PipeRead(p)
  PROVE  FilesInv'
<1>1. PICK k \in Nat : k <= Used /\ pipe' = [pipe EXCEPT !.nread = (@ + k) % COUNTER]
  BY ReadTakes
<1>2. /\ fpc[p] = "read" /\ UNCHANGED <<ofile, file, pageFree, inodeRefs, killedProcs>>
      /\ (Used > 0 \/ ~pipe.writeopen)
      /\ Wake(p, "user", "write_sleep", "write") /\ call' = [call EXCEPT ![p] = NoCall]
  BY DEF PipeRead
<1>3. /\ pipe' \in Ring /\ Used' = Used - k
      /\ pipe'.readopen = pipe.readopen /\ pipe'.writeopen = pipe.writeopen
  BY <1>1, ReadIs DEF FilesInv, RefsInv, Types
<1>4. /\ fpc' = [q \in FProcs |-> fpc'[q]] /\ call' = [q \in FProcs |-> call'[q]]
      /\ \A q \in FProcs : Calm(q)
  BY <1>2, WakeCalm DEF Next1, AtPc, FilesInv
<1>5. RefsInv'
  BY <1>2, <1>3, <1>4, CalmKeeps DEF FilesInv, RefsInv, Types
<1>6. RingInv'
  <2>1. Used' <= PIPESIZE
    BY <1>1, <1>3, RoomRange, RingNumbers
  <2>2. \A q \in FProcs : /\ fpc'[q] # "write_sleep"
                          /\ fpc'[q] = "read_sleep" => pipe.writeopen
    BY <1>2 DEF Wake, FilesInv, RingInv, AsleepWithCause
  <2> QED BY <1>3, <2>1, <2>2 DEF RingInv, AsleepWithCause
<1> QED BY <1>5, <1>6 DEF FilesInv

-----------------------------------------------------------------------------
\* The actions that change what refers to a file, an inode or the pipe.
LEMMA InodeSetsFinite ==
  /\ IsFiniteSet(InodeFiles) /\ IsFiniteSet(Openers) /\ IsFiniteSet(Closers)
  /\ Cardinality(InodeFiles) \in Nat /\ Cardinality(Openers) \in Nat /\ Cardinality(Closers) \in Nat
<1>1. InodeFiles \in SUBSET Slots /\ Openers \in SUBSET FProcs /\ Closers \in SUBSET FProcs
  BY DEF InodeFiles, Openers, Closers
<1>2. IsFiniteSet(Slots) /\ IsFiniteSet(FProcs)
  BY Numbers
<1>3. IsFiniteSet(InodeFiles)
  BY <1>1, <1>2, FS_Subset
<1>4. IsFiniteSet(Openers) /\ IsFiniteSet(Closers)
  BY <1>1, <1>2, FS_Subset
<1> QED BY <1>3, <1>4, FS_CardinalityType

\* p goes to another place, with another call, and nobody else does.
Alone(p) ==
  /\ fpc' = [q \in FProcs |-> IF q = p THEN fpc'[p] ELSE fpc[q]]
  /\ call' = [q \in FProcs |-> IF q = p THEN call'[p] ELSE call[q]]

LEMMA CloseInodeKeeps ==
  ASSUME FilesInv, NEW p \in FProcs, CloseInode(p)
  PROVE  FilesInv'
<1>1. /\ fpc[p] = "closing" /\ call[p].type = "FD_INODE" /\ inodeRefs' = inodeRefs - 1
      /\ UNCHANGED <<ofile, file, pipe, pageFree, killedProcs>>
  BY DEF CloseInode
<1>2. call[p] \in ClosingCall
  BY <1>1 DEF FilesInv, RefsInv, Types
<1>3. fpc'[p] \in {"user", "exiting"} /\ call'[p] = NoCall /\ Alone(p)
  BY <1>2 DEF CloseInode, Walk, FilesInv, RefsInv, Types, ClosingCall, Alone
<1>4. NoCall \in UserCall
  BY DEF NoCall, UserCall, NoFile
<1>5. Types'
  <2>1. fpc' \in [FProcs -> Places] /\ call' \in [FProcs -> UserCall \cup ClosingCall]
    BY <1>3, <1>4 DEF FilesInv, RefsInv, Types, Alone, Places
  <2>2. \A q \in FProcs : IF fpc'[q] = "closing" THEN call'[q] \in ClosingCall ELSE call'[q] \in UserCall
    BY <1>3, <1>4 DEF FilesInv, RefsInv, Types, Alone
  <2> QED BY <1>1, <2>1, <2>2 DEF FilesInv, RefsInv, Types
<1>6. FileRefsCounted' /\ FreeAreBlank'
  BY <1>1 DEF FilesInv, RefsInv, FileRefsCounted, FreeAreBlank
<1>7. InodeCounted'
  <2>1. Closers' = Closers \ {p} /\ Openers' = Openers /\ InodeFiles' = InodeFiles /\ p \in Closers
    BY <1>1, <1>3 DEF Closers, Openers, InodeFiles, Alone
  <2>2. Cardinality(Closers \ {p}) = Cardinality(Closers) - 1
    BY <2>1, InodeSetsFinite, FS_RemoveElement
  <2> QED BY <1>1, <2>1, <2>2, InodeSetsFinite DEF FilesInv, RefsInv, InodeCounted
<1>8. HalfOpen'
  BY <1>1, <1>3 DEF FilesInv, RefsInv, HalfOpen, Alone
<1>9. \A q \in FProcs, w \in BOOLEAN : PipeCloser(q, w)' <=> PipeCloser(q, w)
  BY <1>1, <1>3 DEF PipeCloser, Alone
<1>10. OneEnd'
  BY <1>1, <1>9 DEF FilesInv, RefsInv, OneEnd, PipeFile
<1>11. EndsCounted'
  BY <1>1, <1>9 DEF FilesInv, RefsInv, EndsCounted, EndOpen, PipeCloser
<1>12. Holding'
  BY <1>1, <1>3 DEF FilesInv, RefsInv, Holding, PipeFile, AtPc, Alone
<1>13. UnusedHaveNone'
  BY <1>1, <1>3 DEF FilesInv, RefsInv, UnusedHaveNone, Alone
<1>14. RingInv'
  BY <1>1, <1>3, RingSame DEF FilesInv, Alone
<1> QED BY <1>5, <1>6, <1>7, <1>8, <1>10, <1>11, <1>12, <1>13, <1>14 DEF FilesInv, RefsInv

\* The last file of an end is gone: the end is closed, and the page is given
\* back with the second of them.
LEMMA ClosePipeKeeps ==
  ASSUME FilesInv, NEW p \in FProcs, ClosePipe(p)
  PROVE  FilesInv'
<1>1. /\ fpc[p] = "closing" /\ call[p].type = "FD_PIPE"
      /\ UNCHANGED <<ofile, file, inodeRefs, killedProcs>>
      /\ pageFree' = (~pipe'.readopen /\ ~pipe'.writeopen)
  BY DEF ClosePipe
<1>0. call[p] \in ClosingCall /\ call[p].writable \in BOOLEAN /\ call[p].then \in {"user", "exiting"}
  BY <1>1 DEF FilesInv, RefsInv, Types, ClosingCall
<1> PICK w \in BOOLEAN : w = call[p].writable
  BY <1>0
<1>2. w \in BOOLEAN /\ w = call[p].writable
  OBVIOUS
<1>3. PipeCloser(p, w)
  BY <1>1, <1>2 DEF PipeCloser
<1>4. pipe' = IF w THEN [pipe EXCEPT !.writeopen = FALSE] ELSE [pipe EXCEPT !.readopen = FALSE]
  BY <1>2 DEF ClosePipe
<1>5. Wake(p, call[p].then, IF w THEN "read_sleep" ELSE "write_sleep", IF w THEN "read" ELSE "write")
  BY <1>2 DEF ClosePipe
<1>6. /\ fpc' \in [FProcs -> Places] /\ call' \in [FProcs -> UserCall \cup ClosingCall]
      /\ call'[p] = NoCall /\ fpc'[p] \in {"user", "exiting"}
      /\ \A q \in FProcs : q # p =>
           /\ call'[q] = call[q]
           /\ fpc'[q] = IF w /\ fpc[q] = "read_sleep" THEN "read"
                        ELSE IF ~w /\ fpc[q] = "write_sleep" THEN "write" ELSE fpc[q]
  <2>1. NoCall \in UserCall
    BY DEF NoCall, UserCall, NoFile
  <2>2. call' = [call EXCEPT ![p] = NoCall]
    BY DEF ClosePipe
  <2> QED BY <1>0, <1>5, <2>1, <2>2 DEF Wake, FilesInv, RefsInv, Types, Places
<1>7. pipe' \in Ring
  BY <1>2, <1>4 DEF FilesInv, RefsInv, Types, Ring
<1>8. Types'
  <2>1. \A q \in FProcs : IF fpc'[q] = "closing" THEN call'[q] \in ClosingCall ELSE call'[q] \in UserCall
    <3>1. NoCall \in UserCall
      BY DEF NoCall, UserCall, NoFile
    <3> QED BY <1>6, <3>1 DEF FilesInv, RefsInv, Types
  <2> QED BY <1>1, <1>6, <1>7, <2>1 DEF FilesInv, RefsInv, Types
<1>9. FileRefsCounted' /\ FreeAreBlank'
  BY <1>1 DEF FilesInv, RefsInv, FileRefsCounted, FreeAreBlank
<1>10. InodeCounted'
  <2>1. Closers' = Closers /\ Openers' = Openers /\ InodeFiles' = InodeFiles
    BY <1>1, <1>6 DEF Closers, Openers, InodeFiles
  <2> QED BY <1>1, <2>1 DEF FilesInv, RefsInv, InodeCounted
<1>11. HalfOpen'
  BY <1>1, <1>6 DEF FilesInv, RefsInv, HalfOpen
<1>12. \A q \in FProcs, v \in BOOLEAN : PipeCloser(q, v)' <=> (q # p /\ PipeCloser(q, v))
  BY <1>1, <1>6 DEF PipeCloser
<1>13. OneEnd'
  BY <1>1, <1>12 DEF FilesInv, RefsInv, OneEnd, PipeFile
<1>14. \A v \in BOOLEAN : EndOpen(v)' <=> (v # w /\ EndOpen(v))
  <2>1. \A v \in BOOLEAN : EndOpen(v) <=> ((\E f \in Slots : PipeFile(f, v)) \/ \E q \in FProcs : PipeCloser(q, v))
    BY DEF EndOpen, PipeFile, PipeCloser
  <2>2. \A v \in BOOLEAN : EndOpen(v)' <=> ((\E f \in Slots : PipeFile(f, v)) \/ \E q \in FProcs : PipeCloser(q, v)')
    BY <1>1 DEF EndOpen, PipeFile, PipeCloser
  <2>3. ~EndOpen(w)'
    BY <1>2, <1>3, <1>12, <2>2 DEF FilesInv, RefsInv, OneEnd
  <2>4. ASSUME NEW v \in BOOLEAN, v # w PROVE ~PipeCloser(p, v)
    BY <2>4, <1>3 DEF PipeCloser
  <2> QED BY <1>12, <2>1, <2>2, <2>3, <2>4
<1>15. EndsCounted'
  <2>1. /\ pipe'.writeopen = (IF w THEN FALSE ELSE pipe.writeopen)
        /\ pipe'.readopen = (IF w THEN pipe.readopen ELSE FALSE)
    BY <1>4 DEF FilesInv, RefsInv, Types, Ring
  <2> QED BY <1>1, <1>2, <1>14, <2>1 DEF FilesInv, RefsInv, EndsCounted
<1>16. Holding'
  BY <1>1, <1>6 DEF FilesInv, RefsInv, Holding, PipeFile, AtPc
<1>17. UnusedHaveNone'
  BY <1>1, <1>6 DEF FilesInv, RefsInv, UnusedHaveNone
<1>18. RingInv'
  <2>1. /\ Used' = Used /\ Room' = Room
        /\ ~w => pipe'.writeopen = pipe.writeopen
        /\ w => pipe'.readopen = pipe.readopen
    BY <1>2, <1>4 DEF FilesInv, RefsInv, Types, Ring, Used, Room
  <2>2. \A q \in FProcs : /\ fpc'[q] = "read_sleep" => fpc[q] = "read_sleep" /\ ~w
                          /\ fpc'[q] = "write_sleep" => fpc[q] = "write_sleep" /\ w
    BY <1>2, <1>6
  <2> QED BY <2>1, <2>2 DEF FilesInv, RingInv, AsleepWithCause
<1> QED BY <1>8, <1>9, <1>10, <1>11, <1>13, <1>15, <1>16, <1>17, <1>18 DEF FilesInv, RefsInv

\* One descriptor of p is set to g.
Sets(p, fd, g) == ofile' = [ofile EXCEPT ![p][fd] = g]

LEMMA OneSet ==
  ASSUME FilesInv, NEW p \in FProcs, NEW fd \in FDs, NEW g \in Slots \cup {NoFile}, Sets(p, fd, g)
  PROVE  /\ ofile' \in [FProcs -> [FDs -> Slots \cup {NoFile}]]
         /\ \A q \in FProcs, e \in FDs : ofile'[q][e] = IF q = p /\ e = fd THEN g ELSE ofile[q][e]
         /\ \A f \in Slots :
              Cardinality(Refs(ofile', f)) =
                file[f].ref + Change(f, ofile[p][fd], g)
<1>1. ofile \in [FProcs -> [FDs -> Slots \cup {NoFile}]]
  BY DEF FilesInv, RefsInv, Types
<1>2. \A f \in Slots : file[f].ref = Cardinality(Refs(ofile, f))
  BY DEF FilesInv, RefsInv, FileRefsCounted
<1>3. \A f \in Slots : Cardinality(Refs([ofile EXCEPT ![p][fd] = g], f)) =
                           Cardinality(Refs(ofile, f)) + Change(f, ofile[p][fd], g)
  BY <1>1, RefsSet, Zenon
<1>4. \A f \in Slots : Cardinality(Refs(ofile', f)) =
                           Cardinality(Refs(ofile, f)) + Change(f, ofile[p][fd], g)
  BY <1>3, Zenon DEF Sets
<1>5. \A f \in Slots : Cardinality(Refs(ofile', f)) = file[f].ref + Change(f, ofile[p][fd], g)
  BY <1>2, <1>4, Zenon
<1> QED BY <1>1, <1>5 DEF Sets

\* A file that is free has no descriptor and nobody in a call on it.
LEMMA FreeFile ==
  ASSUME FilesInv, NEW f \in Slots, file[f].ref = 0
  PROVE  /\ file[f].type = "FD_NONE"
         /\ \A q \in FProcs, e \in FDs : ofile[q][e] # f
         /\ \A q \in FProcs : fpc[q] = "opening" => call[q].slot # f
<1>1. file[f].type = "FD_NONE"
  BY DEF FilesInv, RefsInv, FreeAreBlank
<1>2. Cardinality(Refs(ofile, f)) = 0
  BY DEF FilesInv, RefsInv, FileRefsCounted
<1>3. \A q \in FProcs, e \in FDs : ofile[q][e] # f
  BY <1>2, RefsNone
<1> QED BY <1>1, <1>3 DEF FilesInv, RefsInv, HalfOpen

LEMMA OpenKeeps ==
  ASSUME FilesInv, NEW p \in FProcs, SysOpen(p)
  PROVE  FilesInv'
<1> DEFINE f == Min(FreeSlots)  fd == Min(FreeFDs(p))
<1>1. /\ fpc[p] = "user" /\ inodeRefs' = inodeRefs + 1
      /\ file' = [file EXCEPT ![f].ref = 1] /\ ofile' = [ofile EXCEPT ![p][fd] = f]
      /\ call' = [call EXCEPT ![p].slot = f] /\ Walk(p, "opening")
      /\ UNCHANGED <<pipe, pageFree, killedProcs>>
  BY DEF SysOpen, InUser
<1>2. f \in Slots /\ file[f].ref = 0 /\ fd \in FDs /\ ofile[p][fd] = NoFile
  BY SlotFree, FreeFD DEF SysOpen, FreeSlots, FreeFDs
<1> PICK s \in Slots, d \in FDs : s = f /\ d = fd
  BY <1>2
<1> HIDE DEF f, fd
<1>3. /\ file[s].type = "FD_NONE" /\ file[s].ref = 0
      /\ \A q \in FProcs, e \in FDs : ofile[q][e] # s
      /\ \A q \in FProcs : fpc[q] = "opening" => call[q].slot # s
  BY <1>2, FreeFile
<1>4. /\ ofile' \in [FProcs -> [FDs -> Slots \cup {NoFile}]]
      /\ \A q \in FProcs, e \in FDs : ofile'[q][e] = IF q = p /\ e = d THEN s ELSE ofile[q][e]
      /\ \A h \in Slots : Cardinality(Refs(ofile', h)) = file[h].ref + (IF h = s THEN 1 ELSE 0)
  <2>1. s # NoFile /\ \A h \in Slots : h # NoFile
    BY Numbers
  <2>2. \A h \in Slots : file[h].ref \in Nat
    BY DEF FilesInv, RefsInv, Types, File
  <2>3. Sets(p, d, s)
    BY <1>1 DEF Sets
  <2>4. \A h \in Slots : Change(h, ofile[p][d], s) = IF h = s THEN 1 ELSE 0
    BY <1>2, <2>1 DEF Change
  <2>5. s \in Slots \cup {NoFile}
    OBVIOUS
  <2>6. /\ ofile' \in [FProcs -> [FDs -> Slots \cup {NoFile}]]
        /\ \A q \in FProcs, e \in FDs : ofile'[q][e] = IF q = p /\ e = d THEN s ELSE ofile[q][e]
        /\ \A h \in Slots : Cardinality(Refs(ofile', h)) = file[h].ref + Change(h, ofile[p][d], s)
    BY <2>3, <2>5, OneSet
  <2> QED BY <2>4, <2>6
<1>5. /\ file' \in [Slots -> File] /\ file'[s].ref = 1 /\ file'[s].type = "FD_NONE"
      /\ \A h \in Slots : h # s => file'[h] = file[h]
      /\ \A h \in Slots : file'[h].type = file[h].type /\ file'[h].writable = file[h].writable
  BY <1>1, <1>3 DEF FilesInv, RefsInv, Types, File
<1>6. call[p] \in UserCall
  BY <1>1 DEF FilesInv, RefsInv, Types
<1>7. fpc'[p] = "opening" /\ call'[p] \in UserCall /\ call'[p].slot = s /\ Alone(p)
  BY <1>1, <1>6 DEF Walk, FilesInv, RefsInv, Types, UserCall, Alone
<1>8. Types'
  <2>1. fpc' \in [FProcs -> Places] /\ call' \in [FProcs -> UserCall \cup ClosingCall]
    BY <1>7 DEF FilesInv, RefsInv, Types, Alone, Places
  <2>2. \A q \in FProcs : IF fpc'[q] = "closing" THEN call'[q] \in ClosingCall ELSE call'[q] \in UserCall
    BY <1>7 DEF FilesInv, RefsInv, Types, Alone
  <2> QED BY <1>1, <1>4, <1>5, <2>1, <2>2 DEF FilesInv, RefsInv, Types
<1>9. FileRefsCounted'
  <2> SUFFICES ASSUME NEW h \in Slots PROVE file'[h].ref = Cardinality(Refs(ofile', h))
    BY DEF FileRefsCounted, Refs
  <2>1. file[h].ref \in Nat
    BY DEF FilesInv, RefsInv, Types, File
  <2> QED BY <1>3, <1>4, <1>5, <2>1
<1>10. FreeAreBlank'
  BY <1>5 DEF FilesInv, RefsInv, FreeAreBlank
<1>11. InodeCounted'
  <2>1. Closers' = Closers /\ Openers' = Openers \cup {p} /\ InodeFiles' = InodeFiles /\ p \notin Openers
    BY <1>1, <1>5, <1>7 DEF Closers, Openers, InodeFiles, Alone
  <2>2. Cardinality(Openers \cup {p}) = Cardinality(Openers) + 1
    BY <2>1, InodeSetsFinite, FS_AddElement
  <2> QED BY <1>1, <2>1, <2>2, InodeSetsFinite DEF FilesInv, RefsInv, InodeCounted
<1>12. HalfOpen'
  <2> SUFFICES ASSUME NEW q \in FProcs, fpc'[q] = "opening"
               PROVE  /\ call'[q].slot \in Slots
                      /\ file'[call'[q].slot].type = "FD_NONE" /\ file'[call'[q].slot].ref # 0
                      /\ \A r \in FProcs, e \in FDs : ofile'[r][e] = call'[q].slot => r = q
    BY DEF HalfOpen
  <2>1. CASE q = p
    BY <2>1, <1>3, <1>4, <1>5, <1>7
  <2>2. CASE q # p
    <3>1. fpc[q] = "opening" /\ call'[q] = call[q] /\ call[q].slot # s
      BY <2>2, <1>3, <1>7 DEF Alone
    <3> QED BY <3>1, <1>4, <1>5 DEF FilesInv, RefsInv, HalfOpen
  <2> QED BY <2>1, <2>2
<1>13. \A q \in FProcs, w \in BOOLEAN : PipeCloser(q, w)' <=> PipeCloser(q, w)
  BY <1>1, <1>7 DEF PipeCloser, Alone
<1>14. \A h \in Slots, w \in BOOLEAN : PipeFile(h, w)' <=> PipeFile(h, w)
  BY <1>5 DEF PipeFile
<1>15. OneEnd'
  BY <1>13, <1>14 DEF FilesInv, RefsInv, OneEnd
<1>16. EndsCounted'
  BY <1>1, <1>13, <1>14 DEF FilesInv, RefsInv, EndsCounted, EndOpen, PipeCloser, PipeFile
<1>17. Holding'
  <2> SUFFICES ASSUME NEW w \in BOOLEAN, NEW q \in FProcs, fpc'[q] \in AtPc(w)
               PROVE  /\ call'[q].slot \in Slots /\ PipeFile(call[q].slot, w)'
                      /\ \E e \in FDs : ofile'[q][e] = call'[q].slot
    BY DEF Holding, PipeFile
  <2>1. q # p /\ fpc[q] \in AtPc(w) /\ call'[q] = call[q]
    BY <1>7 DEF AtPc, Alone
  <2> QED BY <2>1, <1>4, <1>14 DEF FilesInv, RefsInv, Holding, PipeFile
<1>18. UnusedHaveNone'
  BY <1>4, <1>7 DEF FilesInv, RefsInv, UnusedHaveNone, Alone
<1>19. RingInv'
  BY <1>1, <1>7, RingSame DEF FilesInv, Alone
<1> QED BY <1>8, <1>9, <1>10, <1>11, <1>12, <1>15, <1>16, <1>17, <1>18, <1>19 DEF FilesInv, RefsInv

\* A file with a reference has a descriptor.
LEMMA HasOwner ==
  ASSUME FilesInv, NEW f \in Slots, file[f].ref # 0
  PROVE  \E q \in FProcs, e \in FDs : ofile[q][e] = f
<1>1. Cardinality(Refs(ofile, f)) # 0
  BY DEF FilesInv, RefsInv, FileRefsCounted
<1>2. Refs(ofile, f) # {}
  BY <1>1, FS_EmptySet
<1> QED BY <1>2 DEF Refs

\* Each file that is being opened is being opened by one process.
LEMMA OpenedOnce ==
  ASSUME FilesInv, NEW p \in FProcs, NEW q \in FProcs,
         fpc[p] = "opening", fpc[q] = "opening", call[p].slot = call[q].slot
  PROVE  p = q
<1>1. PICK r \in FProcs, e \in FDs : ofile[r][e] = call[p].slot
  BY HasOwner DEF FilesInv, RefsInv, HalfOpen
<1> QED BY <1>1 DEF FilesInv, RefsInv, HalfOpen

LEMMA OpenDoneKeeps ==
  ASSUME FilesInv, NEW p \in FProcs, NEW w \in BOOLEAN, SysOpenDone(p, w)
  PROVE  FilesInv'
<1>1. /\ fpc[p] = "opening" /\ Walk(p, "user") /\ call' = [call EXCEPT ![p] = NoCall]
      /\ file' = [file EXCEPT ![call[p].slot].type = "FD_INODE", ![call[p].slot].writable = w]
      /\ UNCHANGED <<ofile, pipe, pageFree, inodeRefs, killedProcs>>
  BY DEF SysOpenDone
<1>2. /\ call[p].slot \in Slots /\ file[call[p].slot].type = "FD_NONE" /\ file[call[p].slot].ref # 0
      /\ \A q \in FProcs, e \in FDs : ofile[q][e] = call[p].slot => q = p
  BY <1>1 DEF FilesInv, RefsInv, HalfOpen
<1> PICK s \in Slots : s = call[p].slot
  BY <1>2
<1>3. /\ file' \in [Slots -> File] /\ file'[s].type = "FD_INODE"
      /\ \A h \in Slots : h # s => file'[h] = file[h]
      /\ \A h \in Slots : file'[h].ref = file[h].ref
  BY <1>1 DEF FilesInv, RefsInv, Types, File
<1>4. NoCall \in UserCall
  BY DEF NoCall, UserCall, NoFile
<1>5. fpc'[p] = "user" /\ call'[p] = NoCall /\ Alone(p)
  BY <1>1 DEF Walk, FilesInv, RefsInv, Types, Alone
<1>6. Types'
  <2>1. fpc' \in [FProcs -> Places] /\ call' \in [FProcs -> UserCall \cup ClosingCall]
    BY <1>4, <1>5 DEF FilesInv, RefsInv, Types, Alone, Places
  <2>2. \A q \in FProcs : IF fpc'[q] = "closing" THEN call'[q] \in ClosingCall ELSE call'[q] \in UserCall
    BY <1>4, <1>5 DEF FilesInv, RefsInv, Types, Alone
  <2> QED BY <1>1, <1>3, <2>1, <2>2 DEF FilesInv, RefsInv, Types
<1>7. FileRefsCounted'
  BY <1>1, <1>3 DEF FilesInv, RefsInv, FileRefsCounted
<1>8. FreeAreBlank'
  BY <1>2, <1>3 DEF FilesInv, RefsInv, FreeAreBlank
<1>9. InodeCounted'
  <2>1. /\ Closers' = Closers /\ Openers' = Openers \ {p} /\ InodeFiles' = InodeFiles \cup {s}
        /\ p \in Openers /\ s \notin InodeFiles
    BY <1>1, <1>2, <1>3, <1>5 DEF Closers, Openers, InodeFiles, Alone
  <2>2. Cardinality(Openers \ {p}) = Cardinality(Openers) - 1
    BY <2>1, InodeSetsFinite, FS_RemoveElement
  <2>3. Cardinality(InodeFiles \cup {s}) = Cardinality(InodeFiles) + 1
    BY <2>1, InodeSetsFinite, FS_AddElement
  <2> QED BY <1>1, <2>1, <2>2, <2>3, InodeSetsFinite DEF FilesInv, RefsInv, InodeCounted
<1>10. HalfOpen'
  <2> SUFFICES ASSUME NEW q \in FProcs, fpc'[q] = "opening"
               PROVE  /\ call'[q].slot \in Slots
                      /\ file'[call'[q].slot].type = "FD_NONE" /\ file'[call'[q].slot].ref # 0
                      /\ \A r \in FProcs, e \in FDs : ofile'[r][e] = call'[q].slot => r = q
    BY DEF HalfOpen
  <2>1. q # p /\ fpc[q] = "opening" /\ call'[q] = call[q]
    BY <1>5 DEF Alone
  <2>2. call[q].slot # s
    BY <2>1, <1>1, OpenedOnce
  <2> QED BY <1>1, <1>3, <2>1, <2>2 DEF FilesInv, RefsInv, HalfOpen
<1>11. \A q \in FProcs, v \in BOOLEAN : PipeCloser(q, v)' <=> PipeCloser(q, v)
  BY <1>1, <1>5 DEF PipeCloser, Alone
<1>12. \A h \in Slots, v \in BOOLEAN : PipeFile(h, v)' <=> PipeFile(h, v)
  BY <1>2, <1>3 DEF PipeFile
<1>13. OneEnd'
  BY <1>11, <1>12 DEF FilesInv, RefsInv, OneEnd
<1>14. EndsCounted'
  BY <1>1, <1>11, <1>12 DEF FilesInv, RefsInv, EndsCounted, EndOpen, PipeCloser, PipeFile
<1>15. Holding'
  <2> SUFFICES ASSUME NEW v \in BOOLEAN, NEW q \in FProcs, fpc'[q] \in AtPc(v)
               PROVE  /\ call'[q].slot \in Slots /\ PipeFile(call[q].slot, v)'
                      /\ \E e \in FDs : ofile'[q][e] = call'[q].slot
    BY DEF Holding, PipeFile
  <2>1. q # p /\ fpc[q] \in AtPc(v) /\ call'[q] = call[q]
    BY <1>5 DEF AtPc, Alone
  <2>2. /\ call[q].slot \in Slots /\ PipeFile(call[q].slot, v)
        /\ \E e \in FDs : ofile[q][e] = call[q].slot
    BY <2>1 DEF FilesInv, RefsInv, Holding
  <2> PICK h \in Slots : h = call[q].slot
    BY <2>2
  <2>3. PipeFile(h, v)'
    BY <2>2, <1>12
  <2> QED BY <2>1, <2>2, <2>3, <1>1 DEF PipeFile
<1>16. UnusedHaveNone'
  BY <1>1, <1>5 DEF FilesInv, RefsInv, UnusedHaveNone, Alone
<1>17. RingInv'
  BY <1>1, <1>5, RingSame DEF FilesInv, Alone
<1> QED BY <1>6, <1>7, <1>8, <1>9, <1>10, <1>13, <1>14, <1>15, <1>16, <1>17 DEF FilesInv, RefsInv

\* dup(): one descriptor and one reference more.
LEMMA DupKeeps ==
  ASSUME FilesInv, NEW p \in FProcs, NEW fd \in FDs, SysDup(p, fd)
  PROVE  FilesInv'
<1> DEFINE new == Min(FreeFDs(p))
<1>1. /\ fpc[p] = "user" /\ ofile' = [ofile EXCEPT ![p][new] = ofile[p][fd]]
      /\ file' = [file EXCEPT ![ofile[p][fd]].ref = @ + 1]
      /\ UNCHANGED <<pipe, pageFree, inodeRefs, killedProcs, fpc, call>>
  BY DEF SysDup, InUser
<1>2. ofile[p][fd] \in Slots /\ new \in FDs /\ ofile[p][new] = NoFile
  BY FreeFD DEF SysDup, FreeFDs, FilesInv, RefsInv, Types
<1> PICK f \in Slots, d \in FDs : f = ofile[p][fd] /\ d = new
  BY <1>2
<1> HIDE DEF new
<1>3. /\ ofile' \in [FProcs -> [FDs -> Slots \cup {NoFile}]]
      /\ \A q \in FProcs, e \in FDs : ofile'[q][e] = IF q = p /\ e = d THEN f ELSE ofile[q][e]
      /\ \A h \in Slots : Cardinality(Refs(ofile', h)) = file[h].ref + (IF h = f THEN 1 ELSE 0)
  <2>1. \A h \in Slots : h # NoFile
    BY Numbers
  <2>2. \A h \in Slots : Change(h, ofile[p][d], f) = IF h = f THEN 1 ELSE 0
    BY <1>2, <2>1 DEF Change
  <2>3. f \in Slots \cup {NoFile} /\ Sets(p, d, f)
    BY <1>1 DEF Sets
  <2>4. /\ ofile' \in [FProcs -> [FDs -> Slots \cup {NoFile}]]
        /\ \A q \in FProcs, e \in FDs : ofile'[q][e] = IF q = p /\ e = d THEN f ELSE ofile[q][e]
        /\ \A h \in Slots : Cardinality(Refs(ofile', h)) = file[h].ref + Change(h, ofile[p][d], f)
    BY <2>3, OneSet
  <2> QED BY <2>2, <2>4
<1>4. /\ file' \in [Slots -> File]
      /\ \A h \in Slots : /\ file'[h].ref = file[h].ref + (IF h = f THEN 1 ELSE 0)
                          /\ file'[h].type = file[h].type /\ file'[h].writable = file[h].writable
  BY <1>1 DEF FilesInv, RefsInv, Types, File
<1>5. \A h \in Slots : file[h].ref \in Nat
  BY DEF FilesInv, RefsInv, Types, File
<1>6. Types'
  BY <1>1, <1>3, <1>4 DEF FilesInv, RefsInv, Types
<1>7. FileRefsCounted'
  <2> SUFFICES ASSUME NEW h \in Slots PROVE file'[h].ref = Cardinality(Refs(ofile', h))
    BY DEF FileRefsCounted, Refs
  <2> QED BY <1>3, <1>4
<1>8. FreeAreBlank'
  BY <1>4, <1>5 DEF FilesInv, RefsInv, FreeAreBlank
<1>9. InodeCounted'
  <2>1. Closers' = Closers /\ Openers' = Openers /\ InodeFiles' = InodeFiles
    BY <1>1, <1>4 DEF Closers, Openers, InodeFiles
  <2> QED BY <1>1, <2>1 DEF FilesInv, RefsInv, InodeCounted
<1>10. HalfOpen'
  <2> SUFFICES ASSUME NEW q \in FProcs, fpc[q] = "opening"
               PROVE  /\ call[q].slot \in Slots
                      /\ file'[call[q].slot].type = "FD_NONE" /\ file'[call[q].slot].ref # 0
                      /\ \A r \in FProcs, e \in FDs : ofile'[r][e] = call[q].slot => r = q
    BY <1>1 DEF HalfOpen
  <2>1. q # p /\ call[q].slot # f
    BY <1>1 DEF FilesInv, RefsInv, HalfOpen
  <2> QED BY <2>1, <1>3, <1>4, <1>5 DEF FilesInv, RefsInv, HalfOpen
<1>11. \A h \in Slots, v \in BOOLEAN : PipeFile(h, v)' <=> PipeFile(h, v)
  BY <1>4 DEF PipeFile
<1>12. \A q \in FProcs, v \in BOOLEAN : PipeCloser(q, v)' <=> PipeCloser(q, v)
  BY <1>1 DEF PipeCloser
<1>13. OneEnd'
  BY <1>11, <1>12 DEF FilesInv, RefsInv, OneEnd
<1>14. EndsCounted'
  BY <1>1, <1>11, <1>12 DEF FilesInv, RefsInv, EndsCounted, EndOpen, PipeCloser, PipeFile
<1>15. Holding'
  <2> SUFFICES ASSUME NEW v \in BOOLEAN, NEW q \in FProcs, fpc[q] \in AtPc(v)
               PROVE  /\ call[q].slot \in Slots /\ PipeFile(call[q].slot, v)'
                      /\ \E e \in FDs : ofile'[q][e] = call[q].slot
    BY <1>1 DEF Holding, PipeFile
  <2>1. q # p
    BY <1>1 DEF AtPc
  <2>2. /\ call[q].slot \in Slots /\ PipeFile(call[q].slot, v)
        /\ \E e \in FDs : ofile[q][e] = call[q].slot
    BY DEF FilesInv, RefsInv, Holding
  <2> PICK h \in Slots : h = call[q].slot
    BY <2>2
  <2>3. PipeFile(h, v)'
    BY <2>2, <1>11
  <2> QED BY <2>1, <2>2, <2>3, <1>1, <1>3 DEF PipeFile
<1>16. UnusedHaveNone'
  BY <1>1, <1>3 DEF FilesInv, RefsInv, UnusedHaveNone
<1>17. RingInv'
  BY <1>1, RingSame DEF FilesInv
<1> QED BY <1>6, <1>7, <1>8, <1>9, <1>10, <1>13, <1>14, <1>15, <1>16, <1>17 DEF FilesInv, RefsInv

\* fork(): the child, whose slot has no descriptor, gets those of its parent.
LEMMA ForkKeeps ==
  ASSUME FilesInv, NEW p \in FProcs, NEW c \in FProcs, ForkFiles(p, c)
  PROVE  FilesInv'
<1> DEFINE more(f) == Cardinality({fd \in FDs : ofile[p][fd] = f})
<1>1. /\ fpc[p] = "user" /\ fpc[c] = "unused" /\ Walk(c, "user")
      /\ ofile' = [ofile EXCEPT ![c] = ofile[p]]
      /\ file' = [f \in Slots |-> [file[f] EXCEPT !.ref = @ + more(f)]]
      /\ UNCHANGED <<pipe, pageFree, inodeRefs, killedProcs, call>>
  BY DEF ForkFiles, InUser
<1>2. ofile \in [FProcs -> [FDs -> Slots \cup {NoFile}]] /\ \A fd \in FDs : ofile[c][fd] = NoFile
  BY <1>1 DEF FilesInv, RefsInv, Types, UnusedHaveNone
<1>3. \A f \in Slots : more(f) \in Nat /\ Cardinality(Refs(ofile', f)) = Cardinality(Refs(ofile, f)) + more(f)
  <2>1. \A f \in Slots : /\ Cardinality(Refs([ofile EXCEPT ![c] = ofile[p]], f)) = Cardinality(Refs(ofile, f)) + more(f)
                         /\ more(f) \in Nat
    BY ONLY <1>2, RefsFork, c \in FProcs, p \in FProcs, ZenonT(30)
  <2> QED BY <1>1, <2>1, Zenon
<1> HIDE DEF more
<1>4. /\ ofile' \in [FProcs -> [FDs -> Slots \cup {NoFile}]]
      /\ \A q \in FProcs, e \in FDs : ofile'[q][e] = IF q = c THEN ofile[p][e] ELSE ofile[q][e]
  BY <1>1, <1>2
<1>5. /\ file' \in [Slots -> File]
      /\ \A h \in Slots : /\ file'[h].ref = file[h].ref + more(h)
                          /\ file'[h].type = file[h].type /\ file'[h].writable = file[h].writable
  <2>1. ASSUME NEW h \in Slots
        PROVE  /\ file'[h] \in File /\ file'[h].ref = file[h].ref + more(h)
               /\ file'[h].type = file[h].type /\ file'[h].writable = file[h].writable
    <3>1. file[h] \in File /\ more(h) \in Nat
      BY <1>3 DEF FilesInv, RefsInv, Types
    <3>2. file'[h] = [file[h] EXCEPT !.ref = @ + more(h)]
      BY <1>1
    <3> DEFINE r == [file[h] EXCEPT !.ref = @ + more(h)]
    <3>3. r \in File /\ r.ref = file[h].ref + more(h) /\ r.type = file[h].type /\ r.writable = file[h].writable
      BY <3>1 DEF File
    <3>4. file'[h] = r
      BY <3>2
    <3> HIDE DEF r
    <3> QED BY <3>3, <3>4
  <2> QED BY <1>1, <2>1
<1>6. \A h \in Slots : file[h].ref \in Nat
  BY DEF FilesInv, RefsInv, Types, File
<1>7. fpc'[c] = "user" /\ p # c /\ call[c] \in UserCall /\ \A q \in FProcs : q # c => fpc'[q] = fpc[q]
  BY <1>1 DEF Walk, FilesInv, RefsInv, Types
<1>8. Types'
  <2>1. fpc' \in [FProcs -> Places]
    BY <1>1 DEF Walk, FilesInv, RefsInv, Types, Places
  <2>2. \A q \in FProcs : IF fpc'[q] = "closing" THEN call'[q] \in ClosingCall ELSE call'[q] \in UserCall
    BY <1>1, <1>7 DEF FilesInv, RefsInv, Types
  <2> QED BY <1>1, <1>4, <1>5, <2>1, <2>2 DEF FilesInv, RefsInv, Types
<1>9. FileRefsCounted'
  <2> SUFFICES ASSUME NEW h \in Slots PROVE file'[h].ref = Cardinality(Refs(ofile', h))
    BY DEF FileRefsCounted, Refs
  <2>1. file[h].ref = Cardinality(Refs(ofile, h))
    BY DEF FilesInv, RefsInv, FileRefsCounted
  <2> QED BY <1>3, <1>5, <2>1
<1>10. FreeAreBlank'
  BY <1>3, <1>5, <1>6 DEF FilesInv, RefsInv, FreeAreBlank
<1>11. InodeCounted'
  <2>1. Closers' = Closers /\ Openers' = Openers /\ InodeFiles' = InodeFiles
    BY <1>1, <1>5, <1>7 DEF Closers, Openers, InodeFiles
  <2> QED BY <1>1, <2>1 DEF FilesInv, RefsInv, InodeCounted
<1>12. HalfOpen'
  <2>0. call' = call
    BY <1>1
  <2> SUFFICES ASSUME NEW q \in FProcs, fpc'[q] = "opening"
               PROVE  /\ call[q].slot \in Slots
                      /\ file'[call[q].slot].type = "FD_NONE" /\ file'[call[q].slot].ref # 0
                      /\ \A r \in FProcs, e \in FDs : ofile'[r][e] = call[q].slot => r = q
    BY <2>0 DEF HalfOpen
  <2>1. q # c /\ q # p /\ fpc[q] = "opening"
    BY <1>1, <1>7
  <2>2. /\ call[q].slot \in Slots
        /\ file[call[q].slot].type = "FD_NONE" /\ file[call[q].slot].ref # 0
        /\ \A r \in FProcs, e \in FDs : ofile[r][e] = call[q].slot => r = q
    BY <2>1 DEF FilesInv, RefsInv, HalfOpen
  <2> QED BY <2>1, <2>2, <1>3, <1>4, <1>5, <1>6
<1>13. \A h \in Slots, v \in BOOLEAN : PipeFile(h, v)' <=> PipeFile(h, v)
  BY <1>5 DEF PipeFile
<1>14. \A q \in FProcs, v \in BOOLEAN : PipeCloser(q, v)' <=> PipeCloser(q, v)
  BY <1>1, <1>7 DEF PipeCloser
<1>15. OneEnd'
  BY <1>13, <1>14 DEF FilesInv, RefsInv, OneEnd
<1>16. EndsCounted'
  BY <1>1, <1>13, <1>14 DEF FilesInv, RefsInv, EndsCounted, EndOpen, PipeCloser, PipeFile
<1>17. Holding'
  <2> SUFFICES ASSUME NEW v \in BOOLEAN, NEW q \in FProcs, fpc'[q] \in AtPc(v)
               PROVE  /\ call[q].slot \in Slots /\ PipeFile(call[q].slot, v)'
                      /\ \E e \in FDs : ofile'[q][e] = call[q].slot
    BY <1>1 DEF Holding, PipeFile
  <2>1. q # c /\ fpc[q] \in AtPc(v)
    BY <1>7 DEF AtPc
  <2>2. /\ call[q].slot \in Slots /\ PipeFile(call[q].slot, v)
        /\ \E e \in FDs : ofile[q][e] = call[q].slot
    BY <2>1 DEF FilesInv, RefsInv, Holding
  <2> PICK h \in Slots : h = call[q].slot
    BY <2>2
  <2>3. PipeFile(h, v)'
    BY <2>2, <1>13
  <2> QED BY <2>1, <2>2, <2>3, <1>1, <1>4 DEF PipeFile
<1>18. UnusedHaveNone'
  BY <1>1, <1>4, <1>7 DEF FilesInv, RefsInv, UnusedHaveNone
<1>19. RingInv'
  BY <1>1, <1>7, RingSame DEF FilesInv
<1> QED BY <1>8, <1>9, <1>10, <1>11, <1>12, <1>15, <1>16, <1>17, <1>18, <1>19 DEF FilesInv, RefsInv

\* p drops a descriptor of f.
LEMMA OneDropped ==
  ASSUME FilesInv, NEW p \in FProcs, NEW fd \in FDs, NEW f \in Slots, ofile[p][fd] = f, Sets(p, fd, NoFile)
  PROVE  /\ ofile' \in [FProcs -> [FDs -> Slots \cup {NoFile}]]
         /\ \A q \in FProcs, e \in FDs : ofile'[q][e] = IF q = p /\ e = fd THEN NoFile ELSE ofile[q][e]
         /\ \A h \in Slots : Cardinality(Refs(ofile', h)) = file[h].ref + (IF h = f THEN -1 ELSE 0)
         /\ \A h \in Slots : file[h].ref \in Nat
         /\ file[f].ref >= 1
<1>1. \A h \in Slots : h # NoFile
  BY Numbers
<1>2. \A h \in Slots : Change(h, ofile[p][fd], NoFile) = IF h = f THEN -1 ELSE 0
  BY <1>1 DEF Change
<1>3. /\ ofile' \in [FProcs -> [FDs -> Slots \cup {NoFile}]]
      /\ \A q \in FProcs, e \in FDs : ofile'[q][e] = IF q = p /\ e = fd THEN NoFile ELSE ofile[q][e]
      /\ \A h \in Slots : Cardinality(Refs(ofile', h)) = file[h].ref + Change(h, ofile[p][fd], NoFile)
  <2>1. NoFile \in Slots \cup {NoFile}
    OBVIOUS
  <2> QED BY <2>1, OneSet
<1>4. file[f].ref >= 1
  <2>1. Cardinality(Refs(ofile, f)) > 0
    BY RefsSome
  <2> QED BY <2>1, RefsFinite DEF FilesInv, RefsInv, FileRefsCounted
<1>5. \A h \in Slots : file[h].ref \in Nat
  BY DEF FilesInv, RefsInv, Types, File
<1> QED BY <1>2, <1>3, <1>4, <1>5

\* A reference that is not the last.
LEMMA DropOneKeeps ==
  ASSUME FilesInv, NEW p \in FProcs, NEW fd \in FDs, NEW then \in {"user", "exiting"},
         NEW f \in Slots, f = ofile[p][fd], file[f].ref > 1 \/ file[f].type = "FD_NONE",
         fpc[p] \in {"user", "exiting"}, Drop(p, fd, then)
  PROVE  FilesInv'
<1>1. /\ ofile' = [ofile EXCEPT ![p][fd] = NoFile] /\ file' = [file EXCEPT ![f].ref = @ - 1]
      /\ Walk(p, then) /\ UNCHANGED <<pipe, pageFree, inodeRefs, killedProcs, call>>
  BY DEF Drop
<1>2. /\ ofile' \in [FProcs -> [FDs -> Slots \cup {NoFile}]]
      /\ \A q \in FProcs, e \in FDs : ofile'[q][e] = IF q = p /\ e = fd THEN NoFile ELSE ofile[q][e]
      /\ \A h \in Slots : Cardinality(Refs(ofile', h)) = file[h].ref + (IF h = f THEN -1 ELSE 0)
      /\ \A h \in Slots : file[h].ref \in Nat
      /\ file[f].ref >= 1
  <2>1. Sets(p, fd, NoFile)
    BY <1>1 DEF Sets
  <2> QED BY <2>1, OneDropped
<1>3. /\ file' \in [Slots -> File]
      /\ \A h \in Slots : /\ file'[h].ref = file[h].ref + (IF h = f THEN -1 ELSE 0)
                          /\ file'[h].type = file[h].type /\ file'[h].writable = file[h].writable
  BY <1>1, <1>2 DEF FilesInv, RefsInv, Types, File
<1>4. fpc'[p] = then /\ call[p] \in UserCall /\ \A q \in FProcs : q # p => fpc'[q] = fpc[q]
  BY <1>1 DEF Walk, FilesInv, RefsInv, Types
<1>5. Types'
  <2>1. fpc' \in [FProcs -> Places]
    BY <1>1 DEF Walk, FilesInv, RefsInv, Types, Places
  <2>2. \A q \in FProcs : IF fpc'[q] = "closing" THEN call'[q] \in ClosingCall ELSE call'[q] \in UserCall
    BY <1>1, <1>4 DEF FilesInv, RefsInv, Types
  <2> QED BY <1>1, <1>2, <1>3, <2>1, <2>2 DEF FilesInv, RefsInv, Types
<1>6. FileRefsCounted'
  <2> SUFFICES ASSUME NEW h \in Slots PROVE file'[h].ref = Cardinality(Refs(ofile', h))
    BY DEF FileRefsCounted, Refs
  <2> QED BY <1>2, <1>3
<1>7. FreeAreBlank'
  BY <1>2, <1>3 DEF FilesInv, RefsInv, FreeAreBlank
<1>8. InodeCounted'
  <2>1. Closers' = Closers /\ Openers' = Openers /\ InodeFiles' = InodeFiles
    BY <1>1, <1>3, <1>4 DEF Closers, Openers, InodeFiles
  <2> QED BY <1>1, <2>1 DEF FilesInv, RefsInv, InodeCounted
<1>9. HalfOpen'
  <2> SUFFICES ASSUME NEW q \in FProcs, fpc'[q] = "opening"
               PROVE  /\ call[q].slot \in Slots
                      /\ file'[call[q].slot].type = "FD_NONE" /\ file'[call[q].slot].ref # 0
                      /\ \A r \in FProcs, e \in FDs : ofile'[r][e] = call[q].slot => r = q
    BY <1>1 DEF HalfOpen
  <2>1. q # p /\ fpc[q] = "opening"
    BY <1>4
  <2>2. /\ call[q].slot \in Slots
        /\ file[call[q].slot].type = "FD_NONE" /\ file[call[q].slot].ref # 0
        /\ \A r \in FProcs, e \in FDs : ofile[r][e] = call[q].slot => r = q
    BY <2>1 DEF FilesInv, RefsInv, HalfOpen
  <2>3. call[q].slot # f /\ call[q].slot # NoFile
    BY <2>1, <2>2, Numbers
  <2> QED BY <2>2, <2>3, <1>2, <1>3
<1>10. \A h \in Slots, v \in BOOLEAN : PipeFile(h, v)' <=> PipeFile(h, v)
  BY <1>3 DEF PipeFile
<1>11. \A q \in FProcs, v \in BOOLEAN : PipeCloser(q, v)' <=> PipeCloser(q, v)
  BY <1>1, <1>4 DEF PipeCloser
<1>12. OneEnd'
  BY <1>10, <1>11 DEF FilesInv, RefsInv, OneEnd
<1>13. EndsCounted'
  BY <1>1, <1>10, <1>11 DEF FilesInv, RefsInv, EndsCounted, EndOpen, PipeCloser, PipeFile
<1>14. Holding'
  <2> SUFFICES ASSUME NEW v \in BOOLEAN, NEW q \in FProcs, fpc'[q] \in AtPc(v)
               PROVE  /\ call[q].slot \in Slots /\ PipeFile(call[q].slot, v)'
                      /\ \E e \in FDs : ofile'[q][e] = call[q].slot
    BY <1>1 DEF Holding, PipeFile
  <2>1. q # p /\ fpc[q] \in AtPc(v)
    BY <1>4 DEF AtPc
  <2>2. /\ call[q].slot \in Slots /\ PipeFile(call[q].slot, v)
        /\ \E e \in FDs : ofile[q][e] = call[q].slot
    BY <2>1 DEF FilesInv, RefsInv, Holding
  <2> PICK h \in Slots : h = call[q].slot
    BY <2>2
  <2>3. PipeFile(h, v)'
    BY <2>2, <1>10
  <2> QED BY <2>1, <2>2, <2>3, <1>1, <1>2 DEF PipeFile
<1>15. UnusedHaveNone'
  BY <1>2, <1>4 DEF FilesInv, RefsInv, UnusedHaveNone
<1>16. RingInv'
  BY <1>1, <1>4, RingSame DEF FilesInv
<1> QED BY <1>5, <1>6, <1>7, <1>8, <1>9, <1>12, <1>13, <1>14, <1>15, <1>16 DEF FilesInv, RefsInv

\* The last reference: the file is free, what it named is left to the second
\* half of fileclose().
LEMMA DropLastKeeps ==
  ASSUME FilesInv, NEW p \in FProcs, NEW fd \in FDs, NEW then \in {"user", "exiting"},
         NEW f \in Slots, f = ofile[p][fd], ~(file[f].ref > 1 \/ file[f].type = "FD_NONE"),
         fpc[p] \in {"user", "exiting"}, Drop(p, fd, then)
  PROVE  FilesInv'
<1>1. /\ ofile' = [ofile EXCEPT ![p][fd] = NoFile]
      /\ file' = [file EXCEPT ![f].ref = 0, ![f].type = "FD_NONE"]
      /\ call' = [call EXCEPT ![p] = [type |-> file[f].type, writable |-> file[f].writable, then |-> then]]
      /\ Walk(p, "closing") /\ UNCHANGED <<pipe, pageFree, inodeRefs, killedProcs>>
  BY DEF Drop
<1>2. /\ ofile' \in [FProcs -> [FDs -> Slots \cup {NoFile}]]
      /\ \A q \in FProcs, e \in FDs : ofile'[q][e] = IF q = p /\ e = fd THEN NoFile ELSE ofile[q][e]
      /\ \A h \in Slots : Cardinality(Refs(ofile', h)) = file[h].ref + (IF h = f THEN -1 ELSE 0)
      /\ \A h \in Slots : file[h].ref \in Nat
      /\ file[f].ref >= 1
  <2>1. Sets(p, fd, NoFile)
    BY <1>1 DEF Sets
  <2> QED BY <2>1, OneDropped
<1>3. file[f].ref = 1 /\ file[f].type \in {"FD_PIPE", "FD_INODE"} /\ file[f].writable \in BOOLEAN
  BY <1>2 DEF FilesInv, RefsInv, Types, File
<1>4. \A q \in FProcs, e \in FDs : ofile[q][e] = f => q = p /\ e = fd
  <2>1. Cardinality(Refs(ofile, f)) <= 1
    BY <1>3 DEF FilesInv, RefsInv, FileRefsCounted
  <2> QED BY <2>1, RefsOne
<1>5. /\ file' \in [Slots -> File] /\ file'[f].ref = 0 /\ file'[f].type = "FD_NONE"
      /\ \A h \in Slots : h # f => file'[h] = file[h]
  BY <1>1 DEF FilesInv, RefsInv, Types, File
<1>6. /\ fpc'[p] = "closing" /\ call'[p] \in ClosingCall /\ Alone(p)
      /\ call'[p].type = file[f].type /\ call'[p].writable = file[f].writable
  BY <1>1, <1>3 DEF Walk, FilesInv, RefsInv, Types, ClosingCall, Alone
<1>7. Types'
  <2>1. fpc' \in [FProcs -> Places] /\ call' \in [FProcs -> UserCall \cup ClosingCall]
    BY <1>6 DEF FilesInv, RefsInv, Types, Alone, Places
  <2>2. \A q \in FProcs : IF fpc'[q] = "closing" THEN call'[q] \in ClosingCall ELSE call'[q] \in UserCall
    BY <1>6 DEF FilesInv, RefsInv, Types, Alone
  <2> QED BY <1>1, <1>2, <1>5, <2>1, <2>2 DEF FilesInv, RefsInv, Types
<1>8. FileRefsCounted'
  <2> SUFFICES ASSUME NEW h \in Slots PROVE file'[h].ref = Cardinality(Refs(ofile', h))
    BY DEF FileRefsCounted, Refs
  <2> QED BY <1>2, <1>3, <1>5
<1>9. FreeAreBlank'
  BY <1>5 DEF FilesInv, RefsInv, FreeAreBlank
<1>10. InodeCounted'
  <2>1. Openers' = Openers
    BY <1>6 DEF Openers, Alone
  <2>2. CASE file[f].type = "FD_INODE"
    <3>1. /\ InodeFiles' = InodeFiles \ {f} /\ Closers' = Closers \cup {p}
          /\ f \in InodeFiles /\ p \notin Closers
      BY <2>2, <1>5, <1>6 DEF InodeFiles, Closers, Alone
    <3>2. Cardinality(InodeFiles \ {f}) = Cardinality(InodeFiles) - 1
      BY <3>1, InodeSetsFinite, FS_RemoveElement
    <3>3. Cardinality(Closers \cup {p}) = Cardinality(Closers) + 1
      BY <3>1, InodeSetsFinite, FS_AddElement
    <3> QED BY <1>1, <2>1, <3>1, <3>2, <3>3, InodeSetsFinite DEF FilesInv, RefsInv, InodeCounted
  <2>3. CASE file[f].type = "FD_PIPE"
    <3>1. InodeFiles' = InodeFiles
      BY <2>3, <1>5 DEF InodeFiles
    <3>2. Closers' = Closers
      BY <2>3, <1>6 DEF Closers, Alone
    <3> QED BY <1>1, <2>1, <3>1, <3>2 DEF FilesInv, RefsInv, InodeCounted
  <2> QED BY <1>3, <2>2, <2>3
<1>11. HalfOpen'
  <2> SUFFICES ASSUME NEW q \in FProcs, fpc'[q] = "opening"
               PROVE  /\ call'[q].slot \in Slots
                      /\ file'[call'[q].slot].type = "FD_NONE" /\ file'[call'[q].slot].ref # 0
                      /\ \A r \in FProcs, e \in FDs : ofile'[r][e] = call'[q].slot => r = q
    BY DEF HalfOpen
  <2>1. q # p /\ fpc[q] = "opening" /\ call'[q] = call[q]
    BY <1>6 DEF Alone
  <2>2. /\ call[q].slot \in Slots
        /\ file[call[q].slot].type = "FD_NONE" /\ file[call[q].slot].ref # 0
        /\ \A r \in FProcs, e \in FDs : ofile[r][e] = call[q].slot => r = q
    BY <2>1 DEF FilesInv, RefsInv, HalfOpen
  <2>3. call[q].slot # f /\ call[q].slot # NoFile
    BY <2>2, <1>3, Numbers
  <2> QED BY <2>1, <2>2, <2>3, <1>2, <1>5
<1>12. \A h \in Slots, v \in BOOLEAN : PipeFile(h, v)' <=> h # f /\ PipeFile(h, v)
  BY <1>5 DEF PipeFile
<1>13. \A q \in FProcs, v \in BOOLEAN : PipeCloser(q, v)' <=> IF q = p THEN PipeFile(f, v) ELSE PipeCloser(q, v)
  BY <1>6 DEF PipeFile, PipeCloser, Alone
<1>14. OneEnd'
  BY <1>12, <1>13 DEF FilesInv, RefsInv, OneEnd
<1>15. EndsCounted'
  <2>1. \A v \in BOOLEAN : EndOpen(v)' <=> ((\E h \in Slots : PipeFile(h, v)') \/ \E q \in FProcs : PipeCloser(q, v)')
    BY DEF EndOpen, PipeFile, PipeCloser
  <2>2. \A v \in BOOLEAN : EndOpen(v) <=> ((\E h \in Slots : PipeFile(h, v)) \/ \E q \in FProcs : PipeCloser(q, v))
    BY DEF EndOpen, PipeFile, PipeCloser
  <2>3. \A v \in BOOLEAN : ~PipeCloser(p, v)
    BY DEF PipeCloser
  <2>4. \A v \in BOOLEAN : EndOpen(v)' <=> EndOpen(v)
    BY <1>12, <1>13, <2>1, <2>2, <2>3
  <2> QED BY <1>1, <2>4 DEF FilesInv, RefsInv, EndsCounted
<1>16. Holding'
  <2> SUFFICES ASSUME NEW v \in BOOLEAN, NEW q \in FProcs, fpc'[q] \in AtPc(v)
               PROVE  /\ call'[q].slot \in Slots /\ PipeFile(call[q].slot, v)'
                      /\ \E e \in FDs : ofile'[q][e] = call'[q].slot
    BY DEF Holding, PipeFile
  <2>1. q # p /\ fpc[q] \in AtPc(v) /\ call'[q] = call[q]
    BY <1>6 DEF AtPc, Alone
  <2>2. /\ call[q].slot \in Slots /\ PipeFile(call[q].slot, v)
        /\ \E e \in FDs : ofile[q][e] = call[q].slot
    BY <2>1 DEF FilesInv, RefsInv, Holding
  <2> PICK h \in Slots : h = call[q].slot
    BY <2>2
  <2>3. PipeFile(h, v)'
    BY <2>1, <2>2, <1>4, <1>12
  <2> QED BY <2>1, <2>2, <2>3, <1>2 DEF PipeFile
<1>17. UnusedHaveNone'
  BY <1>2, <1>6 DEF FilesInv, RefsInv, UnusedHaveNone, Alone
<1>18. RingInv'
  BY <1>1, <1>6, RingSame DEF FilesInv, Alone
<1> QED BY <1>7, <1>8, <1>9, <1>10, <1>11, <1>14, <1>15, <1>16, <1>17, <1>18 DEF FilesInv, RefsInv

LEMMA CloseKeeps ==
  ASSUME FilesInv, NEW p \in FProcs, NEW fd \in FDs, SysClose(p, fd) \/ ExitClose(p)
  PROVE  FilesInv'
<1>1. ASSUME NEW e \in FDs, NEW then \in {"user", "exiting"}, ofile[p][e] # NoFile,
             fpc[p] \in {"user", "exiting"}, Drop(p, e, then)
      PROVE  FilesInv'
  <2> PICK f \in Slots : f = ofile[p][e]
    BY <1>1 DEF FilesInv, RefsInv, Types
  <2> QED BY <1>1, DropOneKeeps, DropLastKeeps
<1>2. CASE SysClose(p, fd)
  BY <1>1, <1>2 DEF SysClose, InUser
<1>3. CASE ExitClose(p)
  <2>1. Min(OpenFDs(p)) \in OpenFDs(p)
    BY <1>3, LeastOf, Numbers DEF ExitClose, OpenFDs
  <2> QED BY <1>1, <1>3, <2>1 DEF ExitClose, OpenFDs
<1> QED BY <1>2, <1>3

\* While the page of the pipe is free, nothing refers to a pipe.
LEMMA NoPipe ==
  ASSUME FilesInv, pageFree
  PROVE  /\ \A f \in Slots, v \in BOOLEAN : ~PipeFile(f, v)
         /\ \A q \in FProcs, v \in BOOLEAN : ~PipeCloser(q, v)
         /\ \A q \in FProcs, v \in BOOLEAN : fpc[q] \notin AtPc(v)
<1>1. \A v \in BOOLEAN : ~EndOpen(v)
  BY DEF FilesInv, RefsInv, EndsCounted
<1>2. /\ \A f \in Slots, v \in BOOLEAN : ~PipeFile(f, v)
      /\ \A q \in FProcs, v \in BOOLEAN : ~PipeCloser(q, v)
  BY <1>1 DEF EndOpen, PipeFile, PipeCloser
<1> QED BY <1>2 DEF FilesInv, RefsInv, Holding

\* Two descriptors of p that referred to nothing are set.
SetsTwo(p, d, e, r, w) ==
  /\ d # e /\ r # w /\ ofile[p][d] = NoFile /\ ofile[p][e] = NoFile
  /\ ofile' = [ofile EXCEPT ![p][d] = r, ![p][e] = w]

LEMMA TwoSet ==
  ASSUME FilesInv, NEW p \in FProcs, NEW d \in FDs, NEW e \in FDs,
         NEW r \in Slots, NEW w \in Slots, SetsTwo(p, d, e, r, w)
  PROVE  /\ ofile' \in [FProcs -> [FDs -> Slots \cup {NoFile}]]
         /\ \A q \in FProcs, x \in FDs :
              ofile'[q][x] = IF q = p /\ x = d THEN r ELSE IF q = p /\ x = e THEN w ELSE ofile[q][x]
         /\ \A h \in Slots :
              Cardinality(Refs(ofile', h)) = file[h].ref + (IF h \in {r, w} THEN 1 ELSE 0)
<1> DEFINE one == [ofile EXCEPT ![p][d] = r]
           two == [one EXCEPT ![p][e] = w]
<1>1. ofile \in [FProcs -> [FDs -> Slots \cup {NoFile}]]
  BY DEF FilesInv, RefsInv, Types
<1>0. /\ d # e /\ r # w /\ ofile[p][d] = NoFile /\ ofile[p][e] = NoFile
      /\ ofile' = [ofile EXCEPT ![p][d] = r, ![p][e] = w]
  BY DEF SetsTwo
<1>2. one \in [FProcs -> [FDs -> Slots \cup {NoFile}]] /\ one[p][e] = NoFile
  BY <1>0, <1>1
<1>3. ofile' = two /\ two \in [FProcs -> [FDs -> Slots \cup {NoFile}]]
  <2>1. ofile' = two
    BY <1>0
  <2> HIDE DEF one
  <2>2. two \in [FProcs -> [FDs -> Slots \cup {NoFile}]]
    BY <1>2
  <2> HIDE DEF two
  <2> QED BY <2>1, <2>2
<1>4. \A q \in FProcs, x \in FDs :
        ofile'[q][x] = IF q = p /\ x = d THEN r ELSE IF q = p /\ x = e THEN w ELSE ofile[q][x]
  BY <1>0, <1>1
<1>5. r \in Slots \cup {NoFile} /\ w \in Slots \cup {NoFile}
  OBVIOUS
<1>6. \A h \in Slots : Cardinality(Refs(one, h)) = Cardinality(Refs(ofile, h)) + Change(h, ofile[p][d], r)
  BY <1>1, <1>5, RefsSet, ZenonT(30)
<1> HIDE DEF one
<1>7. \A h \in Slots : Cardinality(Refs(two, h)) = Cardinality(Refs(one, h)) + Change(h, one[p][e], w)
  BY <1>2, <1>5, RefsSet, Zenon
<1>8. \A h \in Slots : Cardinality(Refs(ofile', h)) = Cardinality(Refs(two, h))
  BY <1>3, Zenon
<1> HIDE DEF two
<1>9. \A h \in Slots : Cardinality(Refs(ofile', h)) = file[h].ref + (IF h \in {r, w} THEN 1 ELSE 0)
  <2> TAKE h \in Slots
  <2>1. h # NoFile
    BY Numbers
  <2>2. file[h].ref = Cardinality(Refs(ofile, h)) /\ file[h].ref \in Nat
    BY DEF FilesInv, RefsInv, FileRefsCounted, Types, File
  <2>3. /\ Change(h, ofile[p][d], r) = (IF h = r THEN 1 ELSE 0)
        /\ Change(h, one[p][e], w) = (IF h = w THEN 1 ELSE 0)
    BY <1>0, <1>2, <2>1 DEF Change
  <2>4. Cardinality(Refs(ofile', h)) = file[h].ref + (IF h = r THEN 1 ELSE 0) + (IF h = w THEN 1 ELSE 0)
    <3>1. Cardinality(Refs(ofile', h)) =
            Cardinality(Refs(ofile, h)) + Change(h, ofile[p][d], r) + Change(h, one[p][e], w)
      BY <1>6, <1>7, <1>8, Zenon
    <3> QED BY <3>1, <2>2, <2>3, Zenon
  <2> QED BY <1>0, <2>2, <2>4
<1> QED BY <1>3, <1>4, <1>9

\* pipe(): nothing refers to the pipe before, each end has one file after.
LEMMA PipeKeeps ==
  ASSUME FilesInv, NEW p \in FProcs, SysPipe(p)
  PROVE  FilesInv'
<1> DEFINE sr == Min(FreeSlots)  sw == Second(FreeSlots)
           dr == Min(FreeFDs(p))  dw == Second(FreeFDs(p))
<1>1. /\ fpc[p] = "user" /\ pageFree /\ pageFree' = FALSE
      /\ pipe' = [pipe EXCEPT !.nread = 0, !.nwrite = 0, !.readopen = TRUE, !.writeopen = TRUE]
      /\ file' = [file EXCEPT ![sr] = [ref |-> 1, type |-> "FD_PIPE", writable |-> FALSE],
                              ![sw] = [ref |-> 1, type |-> "FD_PIPE", writable |-> TRUE]]
      /\ ofile' = [ofile EXCEPT ![p][dr] = sr, ![p][dw] = sw]
      /\ UNCHANGED <<inodeRefs, killedProcs, fpc, call>>
  BY DEF SysPipe, InUser
<1>2. /\ sr \in Slots /\ file[sr].ref = 0 /\ sw \in Slots /\ file[sw].ref = 0 /\ sr # sw
      /\ dr \in FDs /\ dw \in FDs /\ dr # dw /\ ofile[p][dr] = NoFile /\ ofile[p][dw] = NoFile
  <2>1. sr \in FreeSlots /\ sw \in FreeSlots /\ sr # sw
    BY SlotFree DEF SysPipe
  <2>2. dr \in FreeFDs(p) /\ dw \in FreeFDs(p) /\ dr # dw
    BY FreeFD DEF SysPipe
  <2> QED BY <2>1, <2>2 DEF FreeSlots, FreeFDs
<1> PICK r \in Slots, w \in Slots, d \in FDs, e \in FDs : r = sr /\ w = sw /\ d = dr /\ e = dw
  BY <1>2
<1> HIDE DEF sr, sw, dr, dw
<1>3. /\ ofile' \in [FProcs -> [FDs -> Slots \cup {NoFile}]]
      /\ \A q \in FProcs, x \in FDs :
           ofile'[q][x] = IF q = p /\ x = d THEN r ELSE IF q = p /\ x = e THEN w ELSE ofile[q][x]
      /\ \A h \in Slots : Cardinality(Refs(ofile', h)) = file[h].ref + (IF h \in {r, w} THEN 1 ELSE 0)
  <2>1. SetsTwo(p, d, e, r, w)
    BY <1>1, <1>2 DEF SetsTwo
  <2> QED BY <2>1, TwoSet
<1>4. /\ \A f \in Slots, v \in BOOLEAN : ~PipeFile(f, v)
      /\ \A q \in FProcs, v \in BOOLEAN : ~PipeCloser(q, v)
      /\ \A q \in FProcs, v \in BOOLEAN : fpc[q] \notin AtPc(v)
  BY <1>1, NoPipe
<1>5. /\ file' \in [Slots -> File]
      /\ file'[r] = [ref |-> 1, type |-> "FD_PIPE", writable |-> FALSE]
      /\ file'[w] = [ref |-> 1, type |-> "FD_PIPE", writable |-> TRUE]
      /\ \A h \in Slots : h \notin {r, w} => file'[h] = file[h]
  BY <1>1, <1>2 DEF FilesInv, RefsInv, Types, File
<1>6. /\ file[r].type = "FD_NONE" /\ file[r].ref = 0 /\ file[w].type = "FD_NONE" /\ file[w].ref = 0 /\ r # w
      /\ \A q \in FProcs : fpc[q] = "opening" => call[q].slot \notin {r, w}
  <2>1. file[r].ref = 0 /\ file[w].ref = 0
    BY <1>2
  <2> QED BY <1>2, <2>1, FreeFile
<1>7. /\ pipe' \in Ring /\ pipe'.readopen = TRUE /\ pipe'.writeopen = TRUE
      /\ pipe'.nread = 0 /\ pipe'.nwrite = 0
  <2>1. 0 \in 0..(COUNTER - 1)
    BY RingNumbers
  <2>2. pipe \in Ring
    BY DEF FilesInv, RefsInv, Types
  <2> QED BY <1>1, <2>1, <2>2 DEF Ring
<1>8. Types'
  BY <1>1, <1>3, <1>5, <1>7 DEF FilesInv, RefsInv, Types
<1>9. FileRefsCounted'
  <2> SUFFICES ASSUME NEW h \in Slots PROVE file'[h].ref = Cardinality(Refs(ofile', h))
    BY DEF FileRefsCounted, Refs
  <2>1. file[h].ref \in Nat
    BY DEF FilesInv, RefsInv, Types, File
  <2> QED BY <1>3, <1>5, <1>6, <2>1
<1>10. FreeAreBlank'
  BY <1>5 DEF FilesInv, RefsInv, FreeAreBlank
<1>11. InodeCounted'
  <2>1. Closers' = Closers /\ Openers' = Openers
    BY <1>1 DEF Closers, Openers
  <2>2. InodeFiles' = InodeFiles
    BY <1>5, <1>6 DEF InodeFiles
  <2> QED BY <1>1, <2>1, <2>2 DEF FilesInv, RefsInv, InodeCounted
<1>0. fpc' = fpc /\ call' = call
  BY <1>1
<1>12. HalfOpen'
  <2> SUFFICES ASSUME NEW q \in FProcs, fpc[q] = "opening"
               PROVE  /\ call[q].slot \in Slots
                      /\ file'[call[q].slot].type = "FD_NONE" /\ file'[call[q].slot].ref # 0
                      /\ \A x \in FProcs, y \in FDs : ofile'[x][y] = call[q].slot => x = q
    BY <1>0 DEF HalfOpen
  <2>1. call[q].slot \notin {r, w}
    BY <1>6
  <2>2. /\ call[q].slot \in Slots
        /\ file[call[q].slot].type = "FD_NONE" /\ file[call[q].slot].ref # 0
        /\ \A x \in FProcs, y \in FDs : ofile[x][y] = call[q].slot => x = q
    <3>1. HalfOpen
      BY DEF FilesInv, RefsInv
    <3> QED BY <3>1 DEF HalfOpen
  <2>3. file'[call[q].slot] = file[call[q].slot]
    BY <2>1, <2>2, <1>5
  <2>4. \A x \in FProcs, y \in FDs : ofile'[x][y] = call[q].slot => ofile[x][y] = call[q].slot
    BY <2>1, <1>3
  <2> QED BY <2>2, <2>3, <2>4
<1>13. \A h \in Slots, v \in BOOLEAN : PipeFile(h, v)' <=> h = IF v THEN w ELSE r
  <2> TAKE h \in Slots, v \in BOOLEAN
  <2>1. CASE h \notin {r, w}
    <3>1. ~PipeFile(h, v) /\ file'[h] = file[h]
      BY <2>1, <1>4, <1>5
    <3> QED BY <2>1, <3>1 DEF PipeFile
  <2>2. CASE h = r
    <3>1. file'[h].type = "FD_PIPE" /\ file'[h].writable = FALSE
      BY <2>2, <1>5
    <3>2. PipeFile(h, v)' <=> v = FALSE
      BY <3>1, Zenon DEF PipeFile
    <3> QED BY <3>2, <2>2, <1>6
  <2>3. CASE h = w
    <3>1. file'[h].type = "FD_PIPE" /\ file'[h].writable = TRUE
      BY <2>3, <1>5
    <3>2. PipeFile(h, v)' <=> v = TRUE
      BY <3>1, Zenon DEF PipeFile
    <3> QED BY <3>2, <2>3, <1>6
  <2> QED BY <2>1, <2>2, <2>3
<1>14. \A q \in FProcs, v \in BOOLEAN : ~PipeCloser(q, v)'
  BY <1>1, <1>4 DEF PipeCloser
<1>15. OneEnd'
  BY <1>13, <1>14 DEF OneEnd
<1>16. EndsCounted'
  <2>1. \A v \in BOOLEAN : EndOpen(v)' <=> ((\E h \in Slots : PipeFile(h, v)') \/ \E q \in FProcs : PipeCloser(q, v)')
    BY DEF EndOpen, PipeFile, PipeCloser
  <2>2. \A v \in BOOLEAN : EndOpen(v)'
    BY <1>13, <2>1
  <2> QED BY <1>1, <1>7, <2>2 DEF EndsCounted
<1>17. Holding' /\ \A q \in FProcs : fpc[q] \notin {"read_sleep", "write_sleep"}
  BY <1>1, <1>4 DEF Holding, AtPc
<1>18. UnusedHaveNone'
  BY <1>1, <1>3 DEF FilesInv, RefsInv, UnusedHaveNone
<1>19. RingInv'
  <2>1. Used' = 0
    <3>1. 0 = COUNTER * 0 + 0
      BY RingNumbers
    <3>2. 0 % COUNTER = 0
      BY <3>1, Remainder, RingNumbers
    <3> QED BY <1>7, <3>2 DEF Used
  <2> QED BY <1>1, <1>17, <2>1, RingNumbers DEF RingInv, AsleepWithCause
<1> QED BY <1>8, <1>9, <1>10, <1>11, <1>12, <1>15, <1>16, <1>17, <1>18, <1>19 DEF FilesInv, RefsInv

-----------------------------------------------------------------------------
\* Every action keeps the invariant.
Writes(p) == PipeWriteAll(p) \/ PipeWriteSleep(p) \/ PipeWriteFail(p)

LEMMA NextKeeps ==
  ASSUME FilesInv, [FilesNext]_filesVars
  PROVE  FilesInv'
<1>1. CASE UNCHANGED filesVars
  <2>1. RefsInv'
    BY <1>1 DEF FilesInv, RefsInv, Types, FileRefsCounted, InodeCounted, InodeFiles, Openers, Closers,
                FreeAreBlank, HalfOpen, OneEnd, PipeFile, PipeCloser, EndsCounted, EndOpen,
                Holding, UnusedHaveNone, filesVars
  <2>2. RingInv'
    BY <1>1, RingSame DEF FilesInv, filesVars
  <2> QED BY <2>1, <2>2 DEF FilesInv
<1>2. ASSUME NEW p \in FProcs, FileStep(p)
      PROVE  FilesInv'
  <2>1. CASE SysPipe(p) \/ SysOpen(p) \/ \E w \in BOOLEAN : SysOpenDone(p, w)
    BY <2>1, PipeKeeps, OpenKeeps, OpenDoneKeeps
  <2>2. CASE \E fd \in FDs : SysDup(p, fd) \/ SysClose(p, fd)
    BY <2>2, DupKeeps, CloseKeeps
  <2>3. CASE \E c \in FProcs : ForkFiles(p, c)
    BY <2>3, ForkKeeps
  <2>4. CASE StartExit(p) \/ ExitClose(p) \/ ExitDone(p) \/ KillProc(p)
    <3>1. 0 \in FDs
      BY FilesAssumption DEF FDs
    <3> QED BY <2>4, <3>1, StartExitKeeps, CloseKeeps, KillKeeps
  <2>5. CASE CloseInode(p) \/ ClosePipe(p)
    BY <2>5, CloseInodeKeeps, ClosePipeKeeps
  <2>6. CASE (\E fd \in FDs, m \in Messages : SysWrite(p, fd, m)) \/ (\E fd \in FDs, n \in ReadSizes : SysRead(p, fd, n))
    BY <2>6, EnterKeeps
  <2>7. CASE Writes(p)
    BY <2>7, WriteKeeps DEF Writes
  <2>8. CASE PipeReadSleep(p) \/ PipeReadFail(p) \/ PipeRead(p)
    BY <2>8, ReadWaitKeeps, ReadKeeps
  <2> QED BY <1>2, <2>1, <2>2, <2>3, <2>4, <2>5, <2>6, <2>7, <2>8 DEF FileStep, Writes
<1> QED BY <1>1, <1>2 DEF FilesNext

LEMMA InitHolds == FilesInit => FilesInv
<1> SUFFICES ASSUME FilesInit PROVE FilesInv
  OBVIOUS
<1>1. RefsInv
  BY RefsInit
<1>2. Used = 0
  <2>1. 0 = COUNTER * 0 + 0
    BY RingNumbers
  <2>2. 0 % COUNTER = 0
    BY <2>1, Remainder, RingNumbers
  <2>3. pipe.nwrite = 0 /\ pipe.nread = 0
    BY DEF FilesInit
  <2> QED BY <2>2, <2>3 DEF Used
<1>3. RingInv
  BY <1>2, RingNumbers DEF FilesInit, RingInv, AsleepWithCause
<1> QED BY <1>1, <1>3 DEF FilesInv

LEMMA InvHolds == FilesSpec => []FilesInv
<1>1. FilesInit => FilesInv
  BY InitHolds
<1>2. FilesInv /\ [FilesNext]_filesVars => FilesInv'
  BY NextKeeps
<1> QED BY <1>1, <1>2, PTL DEF FilesSpec

\* The descriptors refer to slots of ftable, no reference count goes below
\* zero, and the pipe never holds more than PIPESIZE bytes, whatever the two
\* counters have wrapped to.
THEOREM FilesTyped == FilesSpec => []FilesTypeOK
<1>1. FilesInv => FilesTypeOK
  <2> SUFFICES ASSUME FilesInv PROVE FilesTypeOK
    OBVIOUS
  <2>1. pipe.nread \in 0..(COUNTER - 1) /\ pipe.nwrite \in 0..(COUNTER - 1)
    BY DEF FilesInv, RefsInv, Types, Ring
  <2>2. inodeRefs \in Nat
    BY InodeSetsFinite DEF FilesInv, RefsInv, InodeCounted
  <2> QED BY <2>1, <2>2 DEF FilesTypeOK, FilesInv, RingInv, RefsInv, Types, File
<1> QED BY <1>1, InvHolds, PTL

\* filedup(), fileclose(), sys_open() and pipeclose() keep their counts: the
\* references of a file are its descriptors, those of the inode the files and
\* calls that name it, an end of the pipe is open while a file stands for it,
\* and the page of the pipe stays while a process is inside read() or write().
THEOREM ReferencesCounted == FilesSpec => []RefsCounted
<1>1. FilesInv => RefsCounted
  <2> SUFFICES ASSUME FilesInv PROVE RefsCounted
    OBVIOUS
  <2>1. \A f \in Slots : file[f].ref = Cardinality({pf \in FProcs \X FDs : ofile[pf[1]][pf[2]] = f})
    BY DEF FilesInv, RefsInv, FileRefsCounted, Refs
  <2>2. inodeRefs = Cardinality({f \in Slots : file[f].type = "FD_INODE"})
                  + Cardinality({p \in FProcs : fpc[p] = "opening"})
                  + Cardinality({p \in FProcs : fpc[p] = "closing" /\ call[p].type = "FD_INODE"})
    BY DEF FilesInv, RefsInv, InodeCounted, InodeFiles, Openers, Closers
  <2>3. \A p \in FProcs : fpc[p] \in {"read", "read_sleep", "write", "write_sleep"} => ~pageFree
    BY NoPipe DEF AtPc
  <2> QED BY <2>1, <2>2, <2>3 DEF RefsCounted, FilesInv, RefsInv, EndsCounted
<1> QED BY <1>1, InvHolds, PTL

-----------------------------------------------------------------------------
\* What the actions do to the ring.  All but read(), write() and pipe() leave
\* its counters and its data alone.
RingKept ==
  /\ pipe'.nread = pipe.nread /\ pipe'.nwrite = pipe.nwrite /\ pipe'.data = pipe.data
  /\ result' = <<>>

LEMMA OthersKeepRing ==
  ASSUME FilesInv, NEW p \in FProcs, FileStep(p), ~Writes(p), ~SysPipe(p), ~PipeRead(p)
  PROVE  RingKept
<1>1. CASE \/ SysOpen(p) \/ (\E w \in BOOLEAN : SysOpenDone(p, w))
           \/ (\E fd \in FDs : SysDup(p, fd)) \/ (\E c \in FProcs : ForkFiles(p, c))
           \/ StartExit(p) \/ ExitDone(p) \/ KillProc(p) \/ CloseInode(p)
           \/ PipeReadSleep(p) \/ PipeReadFail(p)
  BY <1>1 DEF SysOpen, SysOpenDone, SysDup, ForkFiles, StartExit, ExitDone, KillProc, CloseInode,
              PipeReadSleep, PipeReadFail, NothingRead, RingKept
<1>2. CASE \/ (\E fd \in FDs : SysClose(p, fd)) \/ ExitClose(p)
  BY <1>2 DEF SysClose, ExitClose, Drop, NothingRead, RingKept
<1>3. CASE \/ (\E fd \in FDs, m \in Messages : SysWrite(p, fd, m))
           \/ (\E fd \in FDs, n \in ReadSizes : SysRead(p, fd, n))
  BY <1>3 DEF SysWrite, SysRead, NothingRead, RingKept
<1>4. CASE ClosePipe(p)
  <2>1. pipe \in Ring
    BY DEF FilesInv, RefsInv, Types
  <2>2. pipe' = [pipe EXCEPT !.writeopen = FALSE] \/ pipe' = [pipe EXCEPT !.readopen = FALSE]
    BY <1>4 DEF ClosePipe
  <2>3. result' = <<>>
    BY <1>4 DEF ClosePipe, NothingRead
  <2> QED BY <2>1, <2>2, <2>3 DEF Ring, RingKept
<1> QED BY <1>1, <1>2, <1>3, <1>4 DEF FileStep, Writes

LEMMA NewPipeEmpty ==
  ASSUME FilesInv, NEW p \in FProcs, SysPipe(p)
  PROVE  Used' = 0 /\ result' = <<>>
<1>1. pipe \in Ring
  BY DEF FilesInv, RefsInv, Types
<1>2. pipe'.nread = 0 /\ pipe'.nwrite = 0
  BY <1>1 DEF SysPipe, Ring
<1>3. 0 = COUNTER * 0 + 0
  BY RingNumbers
<1>4. 0 % COUNTER = 0
  BY <1>3, Remainder, RingNumbers
<1> QED BY <1>2, <1>4 DEF Used, SysPipe, NothingRead

\* Only a write() adds bytes, and those that end with wakeup() leave no reader
\* asleep.
LEMMA NextTells ==
  ASSUME FilesInv, [FilesNext]_filesVars
  PROVE  ReadersTold
<1> SUFFICES ASSUME Used' > Used, NEW r \in FProcs, fpc[r] = "read_sleep", fpc'[r] = "read_sleep"
             PROVE  \E q \in killedProcs : fpc[q] = "write" /\ fpc'[q] = "user"
  BY DEF ReadersTold
<1>1. Used \in Nat /\ pipe \in Ring
  BY UsedRange DEF FilesInv, RefsInv, Types
<1>2. CASE UNCHANGED filesVars
  <2>1. Used' = Used
    BY <1>2 DEF Used, filesVars
  <2> QED BY <1>1, <2>1
<1>3. ASSUME NEW p \in FProcs, FileStep(p)
      PROVE  \E q \in killedProcs : fpc[q] = "write" /\ fpc'[q] = "user"
  <2>1. CASE SysPipe(p)
    BY <1>1, <2>1, NewPipeEmpty
  <2>2. CASE PipeRead(p)
    <3>1. PICK k \in Nat : k <= Used /\ pipe' = [pipe EXCEPT !.nread = (@ + k) % COUNTER]
      BY <2>2, ReadTakes
    <3>2. Used' = Used - k
      BY <3>1, <1>1, ReadIs
    <3> QED BY <1>1, <3>1, <3>2
  <2>3. CASE PipeWriteAll(p) \/ PipeWriteSleep(p)
    <3>1. fpc'[r] # "read_sleep"
      BY <2>3 DEF PipeWriteAll, PipeWriteSleep, Wake
    <3> QED BY <3>1
  <2>4. CASE PipeWriteFail(p)
    <3>1. PipeFile(call[r].slot, FALSE) /\ call[r].slot \in Slots
      BY InCall DEF FilesInv, AtPc
    <3>2. pipe.readopen
      BY <3>1 DEF FilesInv, RefsInv, EndsCounted, EndOpen, PipeFile
    <3>3. p \in killedProcs /\ fpc[p] = "write" /\ Walk(p, "user")
      BY <2>4, <3>2 DEF PipeWriteFail
    <3>4. fpc'[p] = "user"
      BY <3>3 DEF Walk, FilesInv, RefsInv, Types
    <3> QED BY <3>3, <3>4
  <2>5. CASE ~SysPipe(p) /\ ~PipeRead(p) /\ ~Writes(p)
    <3>1. RingKept
      BY <1>3, <2>5, OthersKeepRing
    <3>2. Used' = Used
      BY <3>1 DEF RingKept, Used
    <3> QED BY <1>1, <3>2
  <2> QED BY <2>1, <2>2, <2>3, <2>4, <2>5 DEF Writes
<1> QED BY <1>2, <1>3 DEF FilesNext

\* Nobody sleeps in piperead() or pipewrite() without a cause: wakeup() comes
\* with every change that a sleeper waits for, but for the bytes of a writer
\* that was killed.
THEOREM SleepersAreTold == FilesSpec => SleepersHaveCause
<1>1. FilesInv /\ FilesInv' /\ [FilesNext]_filesVars => [AsleepWithCause' /\ ReadersTold]_filesVars
  BY NextTells DEF FilesInv, RingInv
<1> QED BY <1>1, InvHolds, PTL DEF FilesSpec, SleepersHaveCause

-----------------------------------------------------------------------------
\* The refinement of Channel.
LEMMA InPipeIs ==
  ASSUME pipe \in Ring
  PROVE  /\ InPipe = [i \in 1..Used |-> pipe.data[Cell(i)]]
         /\ InPipe \in Seq(Cells) /\ Len(InPipe) = Used
         /\ \A i \in 1..Used : InPipe[i] = pipe.data[Cell(i)]
<1>1. InPipe = [i \in 1..Used |-> pipe.data[Cell(i)]]
  BY DEF InPipe, Cell, Wrap
<1>2. Used \in Nat
  BY UsedRange
<1>3. \A i \in 1..Used : pipe.data[Cell(i)] \in Cells
  <2> TAKE i \in 1..Used
  <2>1. Cell(i) \in 0..(PIPESIZE - 1)
    BY <1>2, CellRange, i \in Int
  <2> QED BY <2>1 DEF Ring
<1>4. InPipe \in [1..Used -> Cells]
  BY <1>1, <1>3
<1> QED BY <1>1, <1>2, <1>4, SeqDef, LenProperties

\* What is in the pipe, in this state and in the next.
Contents == /\ InPipe \in Seq(Cells) /\ Len(InPipe) = Used /\ Used \in Nat
               /\ \A i \in 1..Used : InPipe[i] = pipe.data[Cell(i)]

LEMMA InPipeHas == pipe \in Ring => Contents
BY InPipeIs, UsedRange DEF Contents

LEMMA InPipeWillHave == pipe' \in Ring => Contents'
<1>1. (pipe \in Ring => Contents)'
  BY InPipeHas, PTL
<1> QED BY <1>1

\* Bytes that stay in the pipe, with others after them.
LEMMA PutMaps ==
  ASSUME pipe \in Ring, pipe' \in Ring, Used <= Used', result' = <<>>,
         \A i \in 1..Used : pipe'.data[Cell(i)'] = pipe.data[Cell(i)]
  PROVE  Fifo!Put
<1>1. InPipe \in Seq(Cells) /\ Len(InPipe) = Used /\ Used \in Nat
      /\ \A i \in 1..Used : InPipe[i] = pipe.data[Cell(i)]
  BY InPipeIs, UsedRange
<1>2. InPipe' \in Seq(Cells) /\ Len(InPipe') = Used' /\ Used' \in Nat
      /\ \A i \in 1..Used' : InPipe'[i] = pipe'.data[Cell(i)']
  BY InPipeWillHave DEF Contents
<1> DEFINE s == SubSeq(InPipe', 1, Used)
<1>3. \A i \in 1..Used : InPipe'[i] \in Cells
  BY <1>1, <1>2, ElementOfSeq
<1>4. s \in Seq(Cells) /\ Len(s) = Used /\ \A i \in 1..Used : s[i] = InPipe'[i]
  BY <1>1, <1>3, SubSeqProperties
<1>5. s = InPipe
  <2>1. \A i \in 1..Used : s[i] = InPipe[i]
    BY <1>1, <1>2, <1>4
  <2> HIDE DEF s
  <2> QED BY <1>1, <1>4, <2>1, SeqEqual
<1>6. Used \in 0..Len(InPipe')
  BY <1>1, <1>2
<1> QED BY <1>5, <1>6 DEF Fifo!Put

\* The counter nread, moved on by k, is k positions further in the ring.
LEMMA CellMoves ==
  ASSUME pipe \in Ring, NEW k \in Nat, NEW i \in Int, pipe'.nread = Wrap(pipe.nread + k, COUNTER)
  PROVE  Cell(i)' = Cell(k + i)
<1> DEFINE n == pipe.nread + k
           a == Wrap(n, COUNTER) + i - 1
           b == n + i - 1
<1>1. n \in Int
  BY DEF Ring
<1>2. Cell(i)' = Wrap(a, PIPESIZE)
  BY DEF Cell
<1>3. Cell(k + i) = Wrap(b, PIPESIZE)
  <2>1. pipe.nread \in Int
    BY DEF Ring
  <2>2. pipe.nread + (k + i) - 1 = b
    BY <2>1
  <2> QED BY <2>2 DEF Cell
<1> HIDE DEF n
<1>4. PICK q \in Int : n = COUNTER * q + (n % COUNTER)
  BY <1>1, RingNumbers, Division
<1>5. n % COUNTER \in Int /\ COUNTER * q \in Int /\ COUNTER * (-q) = 0 - COUNTER * q
  BY <1>1, RingNumbers, Division
<1>6. a = b + COUNTER * (-q) /\ a \in Int /\ b \in Int
  BY <1>1, <1>4, <1>5 DEF Wrap
<1> HIDE DEF a, b
<1>7. Turns(a, b, COUNTER)
  BY <1>6, -q \in Int DEF Turns
<1>8. Wrap(a, PIPESIZE) = Wrap(b, PIPESIZE)
  BY <1>6, <1>7, RingNumbers, SamePosition
<1> QED BY <1>2, <1>3, <1>8

\* A sequence without its first k elements.
LEMMA Rest ==
  ASSUME NEW S, NEW t \in Seq(S), NEW k \in Nat, k <= Len(t)
  PROVE  /\ SubSeq(t, k + 1, Len(t)) \in Seq(S)
         /\ Len(SubSeq(t, k + 1, Len(t))) = Len(t) - k
         /\ \A i \in 1..(Len(t) - k) : SubSeq(t, k + 1, Len(t))[i] = t[k + i]
<1>1. Len(t) \in Nat /\ k + 1 \in Int /\ Len(t) \in Int
  BY LenProperties
<1>2. \A i \in (k + 1)..Len(t) : t[i] \in S
  BY <1>1, ElementOfSeq
<1> DEFINE m == k + 1  n == Len(t)
<1> HIDE DEF m, n
<1>3. m \in Int /\ n \in Int /\ \A i \in m..n : t[i] \in S
  BY <1>1, <1>2 DEF m, n
<1>4. /\ SubSeq(t, m, n) \in Seq(S)
      /\ Len(SubSeq(t, m, n)) = IF m <= n THEN n - m + 1 ELSE 0
      /\ \A i \in 1..(n - m + 1) : SubSeq(t, m, n)[i] = t[m + i - 1]
  BY <1>3, SubSeqProperties
<1>5. n - m + 1 = n - k /\ (IF m <= n THEN n - m + 1 ELSE 0) = n - k
      /\ \A i \in 1..(n - k) : m + i - 1 = k + i
  BY <1>1 DEF m, n
<1>6. \A i \in 1..(n - k) : SubSeq(t, m, n)[i] = t[k + i]
  BY <1>4, <1>5
<1> QED BY <1>4, <1>5, <1>6 DEF m, n

\* The first k bytes go to the reader, the others stay.
LEMMA GetMaps ==
  ASSUME pipe \in Ring, NEW k \in Nat, k <= Used, result' = SubSeq(InPipe, 1, k),
         pipe' = [pipe EXCEPT !.nread = (@ + k) % COUNTER]
  PROVE  Fifo!Get
<1>1. InPipe \in Seq(Cells) /\ Len(InPipe) = Used /\ Used \in Nat
      /\ \A i \in 1..Used : InPipe[i] = pipe.data[Cell(i)]
  BY InPipeHas DEF Contents
<1>2. /\ pipe' \in Ring /\ Used' = Used - k /\ pipe'.data = pipe.data
      /\ pipe'.nread = Wrap(pipe.nread + k, COUNTER)
  BY ReadIs
<1>3. InPipe' \in Seq(Cells) /\ Len(InPipe') = Used' /\ Used' \in Nat
      /\ \A i \in 1..Used' : InPipe'[i] = pipe'.data[Cell(i)']
  BY <1>2, InPipeWillHave DEF Contents
<1> DEFINE s == SubSeq(InPipe, k + 1, Len(InPipe))
<1>4. s \in Seq(Cells) /\ Len(s) = Used - k /\ \A i \in 1..(Used - k) : s[i] = InPipe[k + i]
  BY <1>1, Rest
<1>5. InPipe' = s
  <2>1. \A i \in 1..(Used - k) : InPipe'[i] = s[i]
    <3> TAKE i \in 1..(Used - k)
    <3>1. Cell(i)' = Cell(k + i)
      BY <1>2, CellMoves, i \in Int
    <3>2. k + i \in 1..Used /\ i \in 1..Used'
      BY <1>1, <1>2
    <3> HIDE DEF s
    <3> QED BY <3>1, <3>2, <1>1, <1>2, <1>3, <1>4
  <2> HIDE DEF s
  <2> QED BY <1>2, <1>3, <1>4, <2>1, SeqEqual
<1>6. k \in 0..Len(InPipe)
  BY <1>1
<1> QED BY <1>5, <1>6 DEF Fifo!Get

LEMMA WriteMaps ==
  ASSUME FilesInv, NEW p \in FProcs, Writes(p)
  PROVE  Fifo!Put
<1> DEFINE m == call[p].bytes
<1>1. PICK k \in Nat : k <= Len(m) /\ Used + k <= PIPESIZE /\ pipe' = Filled(m, k)
  BY WriteFills DEF Writes
<1>2. pipe \in Ring /\ m \in Seq(Bytes)
  BY WriterHas DEF Writes, PipeWriteAll, PipeWriteSleep, PipeWriteFail, FilesInv, RefsInv, Types
<1>3. /\ pipe' \in Ring /\ Used' = Used + k /\ pipe'.nread = pipe.nread
      /\ \A i \in 1..Used : pipe'.data[Cell(i)] = pipe.data[Cell(i)]
  BY <1>1, <1>2, FilledIs
<1>4. \A i \in 1..Used : Cell(i)' = Cell(i)
  BY <1>3 DEF Cell
<1>5. Used \in Nat /\ Used <= Used'
  BY <1>2, <1>3, UsedRange
<1>6. result' = <<>>
  BY DEF Writes, PipeWriteAll, PipeWriteSleep, PipeWriteFail, NothingRead
<1> QED BY <1>2, <1>3, <1>4, <1>5, <1>6, PutMaps

LEMMA NextMaps ==
  ASSUME FilesInv, FilesInv', [FilesNext]_filesVars
  PROVE  Fifo!Next \/ UNCHANGED <<InPipe, result>>
<1>1. pipe \in Ring /\ pipe' \in Ring /\ Used \in Nat
  BY UsedRange DEF FilesInv, RefsInv, Types
<1>2. CASE UNCHANGED filesVars
  BY <1>2 DEF filesVars, InPipe, Used
<1>3. ASSUME NEW p \in FProcs, FileStep(p)
      PROVE  Fifo!Next
  <2>1. CASE SysPipe(p)
    <3>1. Used' = 0 /\ result' = <<>>
      BY <2>1, NewPipeEmpty
    <3>2. InPipe' \in Seq(Cells) /\ Len(InPipe') = 0
      BY <1>1, <3>1, InPipeWillHave DEF Contents
    <3>3. InPipe' = <<>>
      BY <3>2, EmptySeq
    <3> QED BY <3>1, <3>3 DEF Fifo!Next, Fifo!Discard
  <2>2. CASE PipeRead(p)
    BY <1>1, <2>2, ReadTakes, GetMaps DEF Fifo!Next
  <2>3. CASE Writes(p)
    BY <2>3, WriteMaps DEF Fifo!Next
  <2>4. CASE ~SysPipe(p) /\ ~PipeRead(p) /\ ~Writes(p)
    <3>1. RingKept
      BY <1>3, <2>4, OthersKeepRing
    <3>2. Used <= Used' /\ \A i \in 1..Used : pipe'.data[Cell(i)'] = pipe.data[Cell(i)]
      BY <1>1, <3>1 DEF RingKept, Used, Cell
    <3> QED BY <1>1, <3>1, <3>2, PutMaps DEF RingKept, Fifo!Next
  <2> QED BY <2>1, <2>2, <2>3, <2>4
<1> QED BY <1>2, <1>3 DEF FilesNext

LEMMA InitMaps == FilesInit => Fifo!Init
<1> SUFFICES ASSUME FilesInit PROVE Fifo!Init
  OBVIOUS
<1>1. pipe \in Ring /\ pipe.nread = 0 /\ pipe.nwrite = 0 /\ result = <<>>
  BY InitHolds DEF FilesInv, RefsInv, Types, FilesInit
<1>2. Used = 0
  <2>1. 0 = COUNTER * 0 + 0
    BY RingNumbers
  <2>2. 0 % COUNTER = 0
    BY <2>1, Remainder, RingNumbers
  <2> QED BY <1>1, <2>2 DEF Used
<1>3. InPipe \in Seq(Cells) /\ Len(InPipe) = 0
  BY <1>1, <1>2, InPipeHas DEF Contents
<1>4. InPipe = <<>>
  BY <1>3, EmptySeq
<1> QED BY <1>1, <1>4 DEF Fifo!Init

\* piperead() gives the bytes that pipewrite() took, each once and in order,
\* however the two interleave, wait and fail, and wherever the counters wrap
\* (pipe.c:77-121).
THEOREM PipeIsChannel == FilesSpec => PipeIsFifo
<1>1. FilesInv /\ FilesInv' /\ [FilesNext]_filesVars => [Fifo!Next]_<<InPipe, result>>
  BY NextMaps
<1> QED BY <1>1, InitMaps, InvHolds, PTL DEF FilesSpec, PipeIsFifo, Fifo!Spec
===============================================================================
