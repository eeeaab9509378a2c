--------------------------------- MODULE Bmap ---------------------------------
(***************************************************************************)
(* Files as trees of blocks: balloc, bmap, itrunc, readi and writei of     *)
(* fs.c, and the image that mkfs.c builds, in assignment03/project03       *)
(* (single, double and triple indirect blocks).                            *)
(*                                                                         *)
(* A block holds BSIZE words; a word is a block number or a word of data.  *)
(* One action is one turn of the loop in writei() or one slot of           *)
(* ip->addrs in itrunc(): the inode is locked throughout, the bitmap is    *)
(* shared with the calls on other inodes.                                  *)
(***************************************************************************)
EXTENDS Integers, Sequences, FiniteSets, SequencesExt

CONSTANTS
  BFiles,      \* inodes
  NDIRECT,     \* fs.h
  BSIZE,       \* words of a block, fs.h: NINDIRECT
  FSSIZE,      \* blocks of the disk
  NMETA,       \* blocks in front of the data blocks
  Requests,    \* offset and number of words of the writes
  MaxImage,    \* bound: words of a file in the image
  MaxCalls     \* bound: calls of a behaviour

NINDIRECT   == BSIZE
D_NINDIRECT == NINDIRECT * NINDIRECT
T_NINDIRECT == D_NINDIRECT * NINDIRECT
MAXFILE     == NDIRECT + NINDIRECT + D_NINDIRECT + T_NINDIRECT
D_NINDIRECT_ADRS == NDIRECT + 1
T_NINDIRECT_ADRS == NDIRECT + 2

\* mkfs writes no file that needs a double indirect block: iappend() would
\* run past its array.
ASSUME BmapAssumption ==
  /\ BFiles # {} /\ NDIRECT \in Nat \ {0} /\ BSIZE \in Nat \ {0, 1}
  /\ FSSIZE \in Nat /\ NMETA \in 1..(FSSIZE - 1)
  /\ MaxImage \in 0..((NDIRECT + NINDIRECT) * BSIZE)
  /\ Requests \subseteq Nat \X Nat /\ MaxCalls \in Nat

VARIABLES
  used,      \* the bitmap
  block,     \* what each block holds
  addrs,     \* ip->addrs
  size,      \* ip->size
  op,        \* the call under way on each inode
  calls,     \* calls made so far
  state      \* "mkfs", "up" or "panic"

bmapVars == <<used, block, addrs, size, op, calls, state>>

DBlocks == 0..(FSSIZE - 1)
Zero    == [i \in 0..(BSIZE - 1) |-> 0]
Idle    == [kind |-> "idle"]

BmapInit ==
  /\ used = 0..(NMETA - 1)
  /\ block = [b \in DBlocks |-> Zero]
  /\ addrs = [f \in BFiles |-> [i \in 0..T_NINDIRECT_ADRS |-> 0]]
  /\ size = [f \in BFiles |-> 0]
  /\ op = [f \in BFiles |-> Idle]
  /\ calls = 0
  /\ state = "mkfs"

\* What the next call writes: another word than the calls before it.
Word == calls + 2

Least(a, b) == IF a < b THEN a ELSE b
-----------------------------------------------------------------------------
\* bmap().

\* Mutant of Path: bn %= NINDIRECT is forgotten before the last level.
PathSharedLeaf(bn) ==
  LET b1 == bn - NDIRECT  b2 == b1 - NINDIRECT  b3 == b2 - D_NINDIRECT IN
  CASE b1 < 0 -> <<bn>>
    [] b1 \in 0..(NINDIRECT - 1) -> <<NDIRECT, b1>>
    [] b2 \in 0..(D_NINDIRECT - 1) -> <<D_NINDIRECT_ADRS, b2 \div NINDIRECT, b2 % NINDIRECT>>
    [] b3 >= 0 -> <<T_NINDIRECT_ADRS, b3 \div D_NINDIRECT, (b3 % D_NINDIRECT) \div NINDIRECT,
                    (b3 % D_NINDIRECT) \div NINDIRECT>>

\* The index to follow in ip->addrs and in each indirect block.
Path(bn) ==
  LET b1 == bn - NDIRECT  b2 == b1 - NINDIRECT  b3 == b2 - D_NINDIRECT IN
  CASE b1 < 0 -> <<bn>>
    [] b1 \in 0..(NINDIRECT - 1) -> <<NDIRECT, b1>>
    [] b2 \in 0..(D_NINDIRECT - 1) -> <<D_NINDIRECT_ADRS, b2 \div NINDIRECT, b2 % NINDIRECT>>
    [] b3 >= 0 -> <<T_NINDIRECT_ADRS, b3 \div D_NINDIRECT, (b3 % D_NINDIRECT) \div NINDIRECT,
                    b3 % NINDIRECT>>

\* balloc() takes b and bzero() clears it.
Claim(s, b) == [s EXCEPT !.used = @ \cup {b}, !.block[b] = Zero]

FreeBlocks(s) == {b \in DBlocks : b \notin s.used}

\* One level: read the entry, and allocate the block if there is none.  The
\* disk may be full in the middle of the walk.
Descend(c, i) ==
  LET root == c.at = 0
      a == IF root THEN c.addrs[i] ELSE c.s.block[c.at][i] IN
  IF c.full \/ (a = 0 /\ FreeBlocks(c.s) = {}) THEN [c EXCEPT !.full = TRUE]
  ELSE IF a # 0 THEN [c EXCEPT !.at = a]
  ELSE LET b == CHOOSE x \in FreeBlocks(c.s) : \A y \in FreeBlocks(c.s) : x <= y
           t == Claim(c.s, b)
       IN  [c EXCEPT !.at = b,
                     !.s = IF root THEN t ELSE [t EXCEPT !.block[c.at][i] = b],
                     !.addrs = IF root THEN [@ EXCEPT ![i] = b] ELSE @]

\* The disk, the inode and the block after bmap(f, bn).
WalkTree(f, bn) ==
  FoldLeft(Descend, [s |-> [used |-> used, block |-> block], addrs |-> addrs[f],
                     at |-> 0, full |-> FALSE],
           Path(bn))

\* The block that holds word i of f, which has one.
WordAt(f, i) ==
  LET x == Path(i \div BSIZE)
      at[k \in DOMAIN x] == IF k = 1 THEN addrs[f][x[1]] ELSE block[at[k - 1]][x[k]]
  IN  block[at[Len(x)]][i % BSIZE]

\* What readi() returns of the whole file.
WordsOf(f) == [i \in 1..size[f] |-> WordAt(f, i - 1)]

-----------------------------------------------------------------------------
\* mkfs.c: iappend() gives a block after the other and knows direct and single
\* indirect blocks; balloc() marks them all at the end.

Appended(f) ==
  LET bn == size[f] \div BSIZE
      c  == WalkTree(f, bn)
  IN  /\ ~c.full
      /\ used' = c.s.used
      /\ block' = [c.s.block EXCEPT ![c.at][size[f] % BSIZE] = 1]
      /\ addrs' = [addrs EXCEPT ![f] = c.addrs]
      /\ size' = [size EXCEPT ![f] = @ + 1]

Iappend(f) ==
  /\ state = "mkfs" /\ size[f] < MaxImage
  /\ Appended(f)
  /\ UNCHANGED <<op, calls, state>>

Boot ==
  /\ state = "mkfs"
  /\ state' = "up"
  /\ UNCHANGED <<used, block, addrs, size, op, calls>>

-----------------------------------------------------------------------------
\* writei().  A write past the end or past MAXFILE fails and changes nothing.
StartWritei(f, off, n) ==
  /\ state = "up" /\ op[f] = Idle /\ calls < MaxCalls
  /\ off <= size[f] /\ off + n <= MAXFILE * BSIZE
  /\ op' = [op EXCEPT ![f] = [kind |-> "write", off |-> off, left |-> n, v |-> Word,
                              before |-> WordsOf(f)]]
  /\ calls' = calls + 1
  /\ UNCHANGED <<used, block, addrs, size, state>>

\* One turn of the loop: the words of one block.
WriteiBlock(f) ==
  LET off == op[f].off
      c == WalkTree(f, off \div BSIZE)
      m == Least(op[f].left, BSIZE - (off % BSIZE))
      at == (off % BSIZE)..((off % BSIZE) + m - 1)
  IN  /\ state = "up" /\ op[f].kind = "write" /\ op[f].left > 0 /\ ~c.full
      /\ used' = c.s.used
      /\ block' = [c.s.block EXCEPT ![c.at] =
                     [i \in 0..(BSIZE - 1) |-> IF i \in at THEN op[f].v ELSE @[i]]]
      /\ addrs' = [addrs EXCEPT ![f] = c.addrs]
      /\ op' = [op EXCEPT ![f].off = @ + m, ![f].left = @ - m]
      /\ UNCHANGED <<size, calls, state>>

\* panic("balloc: out of blocks"): memory and the open transaction are lost.
OutOfBlocks(f) ==
  /\ state = "up" /\ op[f].kind = "write" /\ op[f].left > 0
  /\ WalkTree(f, op[f].off \div BSIZE).full
  /\ state' = "panic"
  /\ UNCHANGED <<used, block, addrs, size, op, calls>>

WriteiEnd(f) ==
  /\ state = "up" /\ op[f].kind = "write" /\ op[f].left = 0
  /\ size' = [size EXCEPT ![f] = IF op[f].off > @ THEN op[f].off ELSE @]
  /\ op' = [op EXCEPT ![f] = Idle]
  /\ UNCHANGED <<used, block, addrs, calls, state>>

-----------------------------------------------------------------------------
\* itrunc(), from iput() of an inode without links.

\* What the blocks of S point to.
Kids(S) == {block[b][i] : b \in S, i \in 0..(BSIZE - 1)} \ {0}

\* Mutant of Tree: the blocks of the last level of a triple indirect block
\* are not freed.
TreeShallow(f, i) ==
  LET root == {addrs[f][i]} \ {0}
      k1 == Kids(root)  k2 == Kids(k1)
  IN  CASE i < NDIRECT -> root
        [] i = NDIRECT -> root \cup k1
        [] i >= D_NINDIRECT_ADRS -> root \cup k1 \cup k2

\* The blocks under slot i of ip->addrs, the slot's own block included.
Tree(f, i) ==
  LET root == {addrs[f][i]} \ {0}
      k1 == Kids(root)  k2 == Kids(k1)  k3 == Kids(k2)
  IN  CASE i < NDIRECT -> root
        [] i = NDIRECT -> root \cup k1
        [] i = D_NINDIRECT_ADRS -> root \cup k1 \cup k2
        [] i = T_NINDIRECT_ADRS -> root \cup k1 \cup k2 \cup k3

StartItrunc(f) ==
  /\ state = "up" /\ op[f] = Idle /\ calls < MaxCalls
  /\ op' = [op EXCEPT ![f] = [kind |-> "trunc", slot |-> 0, before |-> <<>>]]
  /\ calls' = calls + 1
  /\ UNCHANGED <<used, block, addrs, size, state>>

\* bfree() would panic on a block that is free already; BlocksOwned excludes it.
ItruncSlot(f) ==
  /\ state = "up" /\ op[f].kind = "trunc" /\ op[f].slot <= T_NINDIRECT_ADRS
  /\ used' = used \ Tree(f, op[f].slot)
  /\ addrs' = [addrs EXCEPT ![f][op[f].slot] = 0]
  /\ op' = [op EXCEPT ![f].slot = @ + 1]
  /\ UNCHANGED <<block, size, calls, state>>

ItruncEnd(f) ==
  /\ state = "up" /\ op[f].kind = "trunc" /\ op[f].slot > T_NINDIRECT_ADRS
  /\ size' = [size EXCEPT ![f] = 0]
  /\ op' = [op EXCEPT ![f] = Idle]
  /\ UNCHANGED <<used, block, addrs, calls, state>>

-----------------------------------------------------------------------------
BmapNext ==
  \/ Boot
  \/ \E f \in BFiles :
       \/ Iappend(f)
       \/ \E r \in Requests : StartWritei(f, r[1], r[2])
       \/ WriteiBlock(f) \/ OutOfBlocks(f) \/ WriteiEnd(f)
       \/ StartItrunc(f) \/ ItruncSlot(f) \/ ItruncEnd(f)

BmapSpec == BmapInit /\ [][BmapNext]_bmapVars
-----------------------------------------------------------------------------
\* Properties.

BmapTypeOK ==
  /\ used \subseteq DBlocks
  /\ addrs \in [BFiles -> [0..T_NINDIRECT_ADRS -> DBlocks]]
  /\ \A b \in DBlocks : DOMAIN block[b] = 0..(BSIZE - 1)
  /\ \A f \in BFiles : size[f] \in 0..(MAXFILE * BSIZE)
  /\ state \in {"mkfs", "up", "panic"}

\* Every data block that the bitmap has marked is pointed to from one place,
\* in one inode or indirect block, and every block pointed to is marked: no
\* block is shared by two files or leaked, also while files grow and shrink
\* side by side.
Index(f, i) == CASE i = NDIRECT -> {addrs[f][i]} \ {0}
                 [] i = D_NINDIRECT_ADRS -> LET r == {addrs[f][i]} \ {0} IN r \cup Kids(r)
                 [] i = T_NINDIRECT_ADRS -> LET r == {addrs[f][i]} \ {0}
                                            IN  r \cup Kids(r) \cup Kids(Kids(r))
                 [] OTHER -> {}

Places ==
  UNION {{<<f, 0, i>> : i \in {j \in 0..T_NINDIRECT_ADRS : addrs[f][j] # 0}}
         \cup UNION {{<<f, b, i>> : b \in Index(f, s), i \in 0..(BSIZE - 1)} : s \in 0..T_NINDIRECT_ADRS}
         : f \in BFiles}

PlaceOf(p) == IF p[2] = 0 THEN addrs[p[1]][p[3]] ELSE block[p[2]][p[3]]

BlocksOwned ==
  LET P == {p \in Places : PlaceOf(p) # 0} IN
  /\ {PlaceOf(p) : p \in P} = used \ 0..(NMETA - 1)
  /\ Cardinality(P) = Cardinality(used \ 0..(NMETA - 1))

\* Each file is the sequence of words that its writes made; a call that is
\* under way is not visible, for the inode is locked.
Plain == INSTANCE ByteFiles WITH
  Names <- BFiles, Values <- 1..(MaxCalls + 1), Stretches <- Requests,
  bytes <- [f \in BFiles |-> IF op[f] = Idle THEN WordsOf(f) ELSE op[f].before]
BytesKept == Plain!Spec
=============================================================================
