----------------------------- MODULE StorageProofs ----------------------------
(***************************************************************************)
(* Proofs about Bcache.tla and Bmap.tla, and about the composition of the  *)
(* layers in MCStorage.tla.                                                *)
(*                                                                         *)
(* Bcache, for any number of processes, buffers, blocks and contents: a    *)
(* block has one buffer, no sleeper of a sleep lock is forgotten, and on a *)
(* disk without errors the cache implements BlockStore.                    *)
(*                                                                         *)
(* The invariant CacheInv says who may touch a buffer: its reference count *)
(* is the number of processes inside with it (GuestsCounted), its owner is *)
(* one of them (Owned), a queued buffer belongs to a process that waits    *)
(* for the disk and the command is the one for the head of the queue       *)
(* (Queued), and a clean buffer agrees with the platter (Clean).           *)
(*                                                                         *)
(* Bmap, for any number of files, any disk and any block size: the blocks  *)
(* of the files are a forest (Forest), which every step of the walk down a *)
(* tree keeps, so that the bitmap has marked what hangs in one place and   *)
(* nothing else.  Two paths to a block are one path, so Bmap implements    *)
(* ByteFiles: a write changes the words it is for, and no others.          *)
(***************************************************************************)
EXTENDS MCStorage, InodesProofs, Induction

Holding == {"locked", "io", "io_woken", "held"}

Types ==
  /\ list \in [Bufs -> Bufs]
  /\ blockno \in [Bufs -> Nos \cup {NoBlock}] /\ refcnt \in [Bufs -> Nat]
  /\ valid \subseteq Bufs /\ dirtyBufs \subseteq Bufs
  /\ data \in [Bufs -> Contents] /\ platter \in [Nos -> Contents]
  /\ owner \in [Bufs -> Users \cup {Nobody}]
  /\ idequeue \in Seq(Bufs)
  /\ bpc \in [Users -> Inside \cup {"idle", "panic"}]
  /\ using \in [Users -> Bufs]

\* The processes that bget() counted for buffer b.
Guests(b) == {p \in Users : bpc[p] \in Inside /\ using[p] = b}

GuestsCounted == \A b \in Bufs : refcnt[b] = Cardinality(Guests(b))

Unique == \A b, c \in Bufs : blockno[b] = blockno[c] /\ blockno[b] # NoBlock => b = c

\* A buffer in use, or with content, stands for a block; a changed one has content.
Named ==
  /\ \A p \in Users : bpc[p] \in Inside => blockno[using[p]] \in Nos
  /\ \A b \in valid : blockno[b] \in Nos
  /\ dirtyBufs \subseteq valid

Owned ==
  /\ \A p \in Users : bpc[p] \in Holding => owner[using[p]] = p
  /\ \A b \in Bufs : owner[b] # Nobody => using[owner[b]] = b /\ bpc[owner[b]] \in Holding

\* What the disk is told to do about buffer h.
Commands(h) ==
  /\ command.no = blockno[h]
  /\ command.write <=> h \in dirtyBufs
  /\ h \in dirtyBufs => command.bytes = data[h]

Queued ==
  /\ \A i \in DOMAIN idequeue : \E p \in Users : bpc[p] = "io" /\ using[p] = idequeue[i]
  /\ \A i, j \in DOMAIN idequeue : idequeue[i] = idequeue[j] => i = j
  /\ idequeue # <<>> => Commands(idequeue[1])
  /\ \A p \in Users : bpc[p] = "io" => using[p] \in dirtyBufs \/ using[p] \notin valid

Fetched ==
  \A p \in Users : /\ bpc[p] \in {"io_woken", "held"} => using[p] \in valid
                   /\ bpc[p] = "io_woken" => using[p] \notin dirtyBufs

Clean == Outcomes = {TRUE} => \A b \in valid \ dirtyBufs : data[b] = platter[blockno[b]]

CacheInv ==
  /\ Types /\ GuestsCounted /\ Unique /\ Named /\ Owned /\ Queued /\ Fetched /\ Clean /\ NoLockLost

-----------------------------------------------------------------------------
LEMMA PcSets ==
  /\ "locked" \in Holding /\ "io" \in Holding /\ "io_woken" \in Holding /\ "held" \in Holding
  /\ "lock" \notin Holding /\ "lock_sleep" \notin Holding /\ "unref" \notin Holding
  /\ "idle" \notin Holding /\ "panic" \notin Holding
  /\ Holding \subseteq Inside /\ "lock" \in Inside /\ "lock_sleep" \in Inside /\ "unref" \in Inside
  /\ "idle" \notin Inside /\ "panic" \notin Inside
BY DEF Holding, Inside, Waiting

LEMMA InitHolds == BcacheInit => CacheInv
<1> SUFFICES ASSUME BcacheInit PROVE CacheInv
  OBVIOUS
<1> USE PcSets, BcacheAssumption
<1>1. Types
  <2>1. list \in [Bufs -> Bufs]
    BY DEF BcacheInit, Bufs
  <2>2. (CHOOSE v \in Contents : TRUE) \in Contents
    OBVIOUS
  <2> QED BY <2>1, <2>2 DEF BcacheInit, Types, Bufs
<1>2. \A b \in Bufs : Guests(b) = {}
  BY DEF Guests, BcacheInit
<1>3. GuestsCounted
  BY <1>2, FS_EmptySet DEF GuestsCounted, BcacheInit
<1>4. Unique /\ Named /\ Owned /\ Queued /\ Fetched /\ Clean /\ NoLockLost
  BY DEF BcacheInit, Unique, Named, Owned, Queued, Fetched, Clean, NoLockLost
<1> QED BY <1>1, <1>3, <1>4 DEF CacheInv

\* References are counted as long as nobody comes or goes.
LEMMA CountedKept ==
  ASSUME CacheInv, UNCHANGED refcnt,
         \A q \in Users : /\ bpc'[q] \in Inside <=> bpc[q] \in Inside
                          /\ bpc[q] \in Inside => using'[q] = using[q]
  PROVE  GuestsCounted'
<1>1. \A b \in Bufs : Guests(b)' = Guests(b)
  BY DEF Guests
<1> QED BY <1>1 DEF CacheInv, GuestsCounted

\* The steps of acquiresleep() and bread() that move one process only.
LEMMA MoveKeeps ==
  ASSUME CacheInv, NEW p \in Users,
         \/ AcquireWait(p) \/ BreadValid(p) \/ IoWoken(p) \/ \E n \in Nos : BgetPanic(p, n)
  PROVE  CacheInv'
<1> USE PcSets, BcacheAssumption
<1>1. /\ UNCHANGED <<list, bufFields, owner, disk, using>>
      /\ \E s \in {"lock_sleep", "held", "panic"} : bpc' = [bpc EXCEPT ![p] = s]
  BY DEF AcquireWait, BreadValid, IoWoken, BgetPanic, GoTo, CacheInv, Fetched
<1>2. PICK s \in {"lock_sleep", "held", "panic"} : bpc' = [bpc EXCEPT ![p] = s]
  BY <1>1
<1>3. bpc'[p] = s /\ \A q \in Users \ {p} : bpc'[q] = bpc[q]
  BY <1>2 DEF CacheInv, Types
<1>4. \/ bpc[p] = "lock" /\ s = "lock_sleep" /\ owner[using[p]] # Nobody
      \/ bpc[p] \in {"locked", "io_woken"} /\ s = "held" /\ using[p] \in valid
      \/ bpc[p] = "idle" /\ s = "panic"
  <2>1. AcquireWait(p) => bpc[p] = "lock" /\ s = "lock_sleep" /\ owner[using[p]] # Nobody
    BY <1>2, <1>3 DEF AcquireWait, GoTo, CacheInv, Types
  <2>2. BreadValid(p) => bpc[p] = "locked" /\ s = "held" /\ using[p] \in valid
    BY <1>2, <1>3 DEF BreadValid, GoTo, CacheInv, Types
  <2>3. IoWoken(p) => bpc[p] = "io_woken" /\ s = "held" /\ using[p] \in valid
    BY <1>2, <1>3 DEF IoWoken, GoTo, CacheInv, Types, Fetched
  <2>4. (\E n \in Nos : BgetPanic(p, n)) => bpc[p] = "idle" /\ s = "panic"
    BY <1>2, <1>3 DEF BgetPanic, GoTo, CacheInv, Types
  <2> QED BY <2>1, <2>2, <2>3, <2>4
<1>5. Types'
  BY <1>1, <1>2 DEF CacheInv, Types, bufFields, disk, Inside, Waiting
<1>6. GuestsCounted'
  <2>1. \A q \in Users : bpc'[q] \in Inside <=> bpc[q] \in Inside
    BY <1>3, <1>4
  <2> QED BY <1>1, <2>1, CountedKept DEF bufFields
<1>7. Unique' /\ Named' /\ Clean'
  <2>1. Unique' /\ Clean'
    BY <1>1 DEF CacheInv, Unique, Clean, bufFields, disk
  <2>2. \A q \in Users : bpc'[q] \in Inside => bpc[q] \in Inside
    BY <1>3, <1>4
  <2>3. Named'
    BY <1>1, <2>2 DEF CacheInv, Named, bufFields
  <2> QED BY <2>1, <2>3
<1>8. Owned'
  BY <1>1, <1>3, <1>4 DEF CacheInv, Types, Owned, bufFields, Holding
<1>9. Queued'
  BY <1>1, <1>3, <1>4 DEF CacheInv, Queued, Commands, bufFields, disk
<1>10. Fetched'
  BY <1>1, <1>3, <1>4 DEF CacheInv, Fetched, bufFields
<1>11. NoLockLost'
  <2>1. SUFFICES ASSUME NEW q \in Users, bpc'[q] = "lock_sleep"
                 PROVE  \E r \in Users : r # q /\ using[r] = using[q]
                          /\ bpc'[r] \in {"lock", "locked", "io", "io_woken", "held"}
    BY <1>1 DEF NoLockLost
  <2>2. CASE owner[using[q]] # Nobody
    <3>1. owner[using[q]] \in Users
      BY <2>2 DEF CacheInv, Types
    <3>2. using[owner[using[q]]] = using[q] /\ bpc[owner[using[q]]] \in Holding
      BY <2>2 DEF CacheInv, Types, Owned
    <3>3. bpc'[owner[using[q]]] \in Holding
      BY <1>3, <1>4, <3>1, <3>2 DEF Holding
    <3> QED BY <2>1, <3>1, <3>2, <3>3 DEF Holding
  <2>3. CASE owner[using[q]] = Nobody
    <3>1. q # p /\ bpc[q] = "lock_sleep"
      BY <1>3, <1>4, <2>1, <2>3
    <3>2. PICK r \in Users : r # q /\ using[r] = using[q]
                          /\ bpc[r] \in {"lock", "locked", "io", "io_woken", "held"}
      BY <3>1 DEF CacheInv, NoLockLost
    <3>3. bpc'[r] \in {"lock", "locked", "io", "io_woken", "held"}
      BY <1>3, <1>4, <2>3, <3>2
    <3> QED BY <3>2, <3>3
  <2> QED BY <2>2, <2>3
<1> QED BY <1>5, <1>6, <1>7, <1>8, <1>9, <1>10, <1>11 DEF CacheInv

\* acquiresleep() that finds the lock free.
LEMMA AcquireKeeps ==
  ASSUME CacheInv, NEW p \in Users, AcquireSleep(p)
  PROVE  CacheInv'
<1> USE PcSets, BcacheAssumption
<1> DEFINE b == using[p]
<1>1. /\ bpc[p] = "lock" /\ owner[b] = Nobody
      /\ owner' = [owner EXCEPT ![b] = p] /\ bpc' = [bpc EXCEPT ![p] = "locked"]
      /\ UNCHANGED <<list, bufFields, disk, using>>
  BY DEF AcquireSleep, GoTo
<1>2. /\ b \in Bufs /\ owner'[b] = p /\ \A c \in Bufs \ {b} : owner'[c] = owner[c]
      /\ bpc'[p] = "locked" /\ \A q \in Users \ {p} : bpc'[q] = bpc[q]
  BY <1>1 DEF CacheInv, Types
<1>3. \A q \in Users : bpc[q] \in Holding => using[q] # b
  BY <1>1 DEF CacheInv, Owned
<1>4. Types'
  BY <1>1, <1>2 DEF CacheInv, Types, bufFields, disk
<1>5. GuestsCounted'
  <2>1. \A q \in Users : bpc'[q] \in Inside <=> bpc[q] \in Inside
    BY <1>1, <1>2
  <2> QED BY <1>1, <2>1, CountedKept DEF bufFields
<1>6. Unique' /\ Clean'
  BY <1>1 DEF CacheInv, Unique, Clean, bufFields, disk
<1>7. Named'
  BY <1>1, <1>2 DEF CacheInv, Named, bufFields
<1>8. Owned'
  <2>1. \A q \in Users : bpc'[q] \in Holding => owner'[using'[q]] = q
    BY <1>1, <1>2, <1>3 DEF CacheInv, Types, Owned
  <2>2. \A c \in Bufs : owner'[c] # Nobody => using'[owner'[c]] = c /\ bpc'[owner'[c]] \in Holding
    <3>1. TAKE c \in Bufs
    <3>2. HAVE owner'[c] # Nobody
    <3>3. CASE c = b
      BY <1>1, <1>2, <3>3
    <3>4. CASE c # b
      <4>1. owner'[c] = owner[c] /\ owner[c] \in Users /\ using[owner[c]] = c /\ bpc[owner[c]] \in Holding
        BY <1>2, <3>2, <3>4 DEF CacheInv, Types, Owned
      <4> QED BY <1>1, <1>2, <3>4, <4>1
    <3> QED BY <3>3, <3>4
  <2> QED BY <2>1, <2>2 DEF Owned
<1>9. Queued'
  BY <1>1, <1>2 DEF CacheInv, Queued, Commands, bufFields, disk
<1>10. Fetched'
  BY <1>1, <1>2 DEF CacheInv, Fetched, bufFields
<1>11. NoLockLost'
  BY <1>1, <1>2 DEF CacheInv, NoLockLost
<1> QED BY <1>4, <1>5, <1>6, <1>7, <1>8, <1>9, <1>10, <1>11 DEF CacheInv

\* releasesleep() wakes everyone who waits for the buffer.
LEMMA ReleaseKeeps ==
  ASSUME CacheInv, NEW p \in Users, ReleaseSleep(p)
  PROVE  CacheInv'
<1> USE PcSets, BcacheAssumption
<1> DEFINE b == using[p]
<1>1. /\ bpc[p] = "held" /\ owner' = [owner EXCEPT ![b] = Nobody]
      /\ UNCHANGED <<list, bufFields, disk, using>>
  BY DEF ReleaseSleep
<1>2. /\ b \in Bufs /\ owner'[b] = Nobody /\ \A c \in Bufs \ {b} : owner'[c] = owner[c]
      /\ owner[b] = p
  BY <1>1 DEF CacheInv, Types, Owned
<1>3. /\ bpc'[p] = "unref"
      /\ \A q \in Users \ {p} :
           bpc'[q] = IF bpc[q] = "lock_sleep" /\ using[q] = b THEN "lock" ELSE bpc[q]
  BY DEF ReleaseSleep, WakeOn
<1>4. bpc' \in [Users -> Inside \cup {"idle", "panic"}]
  BY DEF ReleaseSleep, WakeOn, CacheInv, Types
<1>5. Types'
  BY <1>1, <1>4 DEF CacheInv, Types, bufFields, disk
<1>6. GuestsCounted'
  <2>1. \A q \in Users : bpc'[q] \in Inside <=> bpc[q] \in Inside
    BY <1>1, <1>3
  <2> QED BY <1>1, <2>1, CountedKept DEF bufFields
<1>7. Unique' /\ Clean'
  BY <1>1 DEF CacheInv, Unique, Clean, bufFields, disk
<1>8. Named'
  BY <1>1, <1>3 DEF CacheInv, Named, bufFields
<1>9. \A q \in Users : bpc'[q] \in Holding => q # p /\ bpc'[q] = bpc[q]
  BY <1>3
<1>10. Owned'
  <2>1. \A q \in Users : bpc'[q] \in Holding => owner'[using'[q]] = q
    BY <1>1, <1>2, <1>9 DEF CacheInv, Types, Owned
  <2>2. \A c \in Bufs : owner'[c] # Nobody => using'[owner'[c]] = c /\ bpc'[owner'[c]] \in Holding
    <3>1. TAKE c \in Bufs
    <3>2. HAVE owner'[c] # Nobody
    <3>3. c # b /\ owner'[c] = owner[c] /\ owner[c] \in Users
      BY <1>2, <3>2 DEF CacheInv, Types
    <3>4. using[owner[c]] = c /\ bpc[owner[c]] \in Holding
      BY <3>2, <3>3 DEF CacheInv, Owned
    <3>5. owner[c] # p
      BY <3>3, <3>4
    <3> QED BY <1>1, <1>3, <3>3, <3>4, <3>5
  <2> QED BY <2>1, <2>2 DEF Owned
<1>11. Queued'
  <2>1. \A q \in Users : bpc'[q] = "io" <=> bpc[q] = "io"
    BY <1>1, <1>3
  <2> QED BY <1>1, <2>1 DEF CacheInv, Queued, Commands, bufFields, disk
<1>12. Fetched'
  BY <1>1, <1>9 DEF CacheInv, Fetched, bufFields
<1>13. NoLockLost'
  <2>1. SUFFICES ASSUME NEW q \in Users, bpc'[q] = "lock_sleep"
                 PROVE  \E r \in Users : r # q /\ using[r] = using[q]
                          /\ bpc'[r] \in {"lock", "locked", "io", "io_woken", "held"}
    BY <1>1 DEF NoLockLost
  <2>2. bpc[q] = "lock_sleep" /\ using[q] # b
    BY <1>3, <2>1
  <2>3. PICK r \in Users : r # q /\ using[r] = using[q]
                        /\ bpc[r] \in {"lock", "locked", "io", "io_woken", "held"}
    BY <2>2 DEF CacheInv, NoLockLost
  <2>4. bpc'[r] = bpc[r]
    BY <1>3, <2>2, <2>3
  <2> QED BY <2>3, <2>4
<1> QED BY <1>5, <1>6, <1>7, <1>8, <1>10, <1>11, <1>12, <1>13 DEF CacheInv

-----------------------------------------------------------------------------
\* bget() and the end of brelse(): references come and go.

\* A process that is idle comes in, to wait for a lock nobody lost.
LEMMA NoLockLostKept ==
  ASSUME CacheInv, NEW p \in Users, bpc[p] \in {"idle", "unref"},
         \A q \in Users \ {p} : bpc'[q] = bpc[q] /\ using'[q] = using[q],
         bpc'[p] # "lock_sleep"
  PROVE  NoLockLost'
<1>1. SUFFICES ASSUME NEW q \in Users, bpc'[q] = "lock_sleep"
               PROVE  \E r \in Users : r # q /\ using'[r] = using'[q]
                        /\ bpc'[r] \in {"lock", "locked", "io", "io_woken", "held"}
  BY DEF NoLockLost
<1>2. q # p /\ bpc[q] = "lock_sleep"
  BY <1>1
<1>3. PICK r \in Users : r # q /\ using[r] = using[q]
                      /\ bpc[r] \in {"lock", "locked", "io", "io_woken", "held"}
  BY <1>2 DEF CacheInv, NoLockLost
<1>4. r # p
  BY <1>3
<1> QED BY <1>2, <1>3, <1>4

LEMMA OwnedKept ==
  ASSUME CacheInv, NEW p \in Users, bpc[p] \notin Holding, bpc'[p] \notin Holding,
         \A q \in Users \ {p} : bpc'[q] = bpc[q] /\ using'[q] = using[q],
         UNCHANGED owner
  PROVE  Owned'
<1>1. \A q \in Users : bpc'[q] \in Holding => owner'[using'[q]] = q
  BY DEF CacheInv, Owned
<1>2. \A c \in Bufs : owner'[c] # Nobody => using'[owner'[c]] = c /\ bpc'[owner'[c]] \in Holding
  <2>1. TAKE c \in Bufs
  <2>2. HAVE owner'[c] # Nobody
  <2>3. owner[c] \in Users /\ using[owner[c]] = c /\ bpc[owner[c]] \in Holding
    BY <2>2 DEF CacheInv, Types, Owned
  <2> QED BY <2>2, <2>3
<1> QED BY <1>1, <1>2 DEF Owned

LEMMA GuestsFinite == \A b : IsFiniteSet(Guests(b)) /\ IsFiniteSet(Guests(b)')
<1>1. \A b : Guests(b) \subseteq Users /\ Guests(b)' \subseteq Users
  BY DEF Guests
<1> QED BY <1>1, FS_Subset, BcacheAssumption

LEMMA HitKeeps ==
  ASSUME CacheInv, NEW p \in Users, NEW n \in Nos, BgetHit(p, n)
  PROVE  CacheInv'
<1> USE PcSets, BcacheAssumption
<1>1. PICK b \in Cached(n) : /\ refcnt' = [refcnt EXCEPT ![b] = @ + 1]
                             /\ using' = [using EXCEPT ![p] = b]
  BY DEF BgetHit
<1>2. /\ bpc[p] = "idle" /\ bpc' = [bpc EXCEPT ![p] = "lock"]
      /\ UNCHANGED <<list, blockno, valid, dirtyBufs, data, owner, disk>>
  BY DEF BgetHit, GoTo
<1>3. b \in Bufs /\ blockno[b] = n
  BY DEF Cached
<1>4. /\ bpc'[p] = "lock" /\ using'[p] = b
      /\ \A q \in Users \ {p} : bpc'[q] = bpc[q] /\ using'[q] = using[q]
      /\ refcnt'[b] = refcnt[b] + 1 /\ \A c \in Bufs \ {b} : refcnt'[c] = refcnt[c]
  BY <1>1, <1>2, <1>3 DEF CacheInv, Types
<1>5. Types'
  BY <1>1, <1>2, <1>3 DEF CacheInv, Types, disk
<1>6. GuestsCounted'
  <2>1. Guests(b)' = Guests(b) \cup {p} /\ p \notin Guests(b)
    BY <1>2, <1>4 DEF Guests
  <2>2. Cardinality(Guests(b)') = Cardinality(Guests(b)) + 1
    BY <2>1, GuestsFinite, FS_AddElement
  <2>3. \A c \in Bufs \ {b} : Guests(c)' = Guests(c)
    BY <1>2, <1>4 DEF Guests
  <2> QED BY <1>3, <1>4, <2>2, <2>3 DEF CacheInv, GuestsCounted
<1>7. Unique' /\ Clean'
  BY <1>2 DEF CacheInv, Unique, Clean, disk
<1>8. Named'
  BY <1>2, <1>3, <1>4 DEF CacheInv, Named
<1>9. Owned' /\ NoLockLost'
  BY <1>2, <1>4, OwnedKept, NoLockLostKept
<1>10. Queued' /\ Fetched'
  <2>1. \A q \in Users : bpc'[q] \in Holding <=> q # p /\ bpc[q] \in Holding
    BY <1>2, <1>4
  <2>2. Fetched'
    BY <1>2, <1>4, <2>1 DEF CacheInv, Fetched
  <2>3. Queued'
    BY <1>2, <1>4, <2>1 DEF CacheInv, Queued, Commands, disk
  <2> QED BY <2>2, <2>3
<1> QED BY <1>5, <1>6, <1>7, <1>8, <1>9, <1>10 DEF CacheInv

LEMMA UnreferenceKeeps ==
  ASSUME CacheInv, NEW p \in Users, Unreference(p)
  PROVE  CacheInv'
<1> USE PcSets, BcacheAssumption
<1>0. PICK b \in Bufs : b = using[p]
  BY DEF CacheInv, Types
<1>1. /\ bpc[p] = "unref" /\ bpc' = [bpc EXCEPT ![p] = "idle"]
      /\ refcnt' = [refcnt EXCEPT ![b] = @ - 1]
      /\ UNCHANGED <<blockno, valid, dirtyBufs, data, owner, disk, using>>
  BY <1>0 DEF Unreference, GoTo
<1>2. /\ b \in Bufs /\ bpc'[p] = "idle" /\ \A q \in Users \ {p} : bpc'[q] = bpc[q]
      /\ refcnt'[b] = refcnt[b] - 1 /\ \A c \in Bufs \ {b} : refcnt'[c] = refcnt[c]
  BY <1>1 DEF CacheInv, Types
<1>3. /\ Guests(b)' = Guests(b) \ {p} /\ p \in Guests(b)
      /\ \A c \in Bufs \ {b} : Guests(c)' = Guests(c)
  BY <1>0, <1>1, <1>2, PcSets DEF Guests
<1>4. /\ Cardinality(Guests(b)') = Cardinality(Guests(b)) - 1
      /\ Cardinality(Guests(b)') \in Nat
  BY <1>3, GuestsFinite, FS_RemoveElement, FS_CardinalityType
<1>5. GuestsCounted'
  <2>1. refcnt'[b] = Cardinality(Guests(b)')
    BY <1>2, <1>4 DEF CacheInv, GuestsCounted
  <2>2. \A c \in Bufs \ {b} : refcnt'[c] = Cardinality(Guests(c)')
    BY <1>2, <1>3 DEF CacheInv, GuestsCounted
  <2> QED BY <2>1, <2>2 DEF GuestsCounted
<1>6. list' \in [Bufs -> Bufs]
  <2>1. \A i \in Bufs : i # 1 => i - 1 \in Bufs
    BY DEF Bufs
  <2>2. MoveToFront(b) \in [Bufs -> Bufs]
    BY <1>2, <2>1 DEF MoveToFront, CacheInv, Types
  <2> QED BY <1>0, <2>2 DEF Unreference, CacheInv, Types
<1>7. Types'
  <2>1. refcnt' \in [Bufs -> Nat]
    BY <1>1, <1>2, <1>4, <1>5 DEF CacheInv, Types, GuestsCounted
  <2> QED BY <1>1, <1>6, <2>1 DEF CacheInv, Types, disk
<1>8. Unique' /\ Clean'
  BY <1>1 DEF CacheInv, Unique, Clean, disk
<1>9. Named'
  BY <1>1, <1>2 DEF CacheInv, Named
<1>10. Owned' /\ NoLockLost'
  BY <1>1, <1>2, OwnedKept, NoLockLostKept
<1>11. Queued' /\ Fetched'
  <2>1. \A q \in Users : bpc'[q] \in Holding <=> q # p /\ bpc[q] \in Holding
    BY <1>1, <1>2
  <2>2. Fetched'
    BY <1>1, <1>2, <2>1 DEF CacheInv, Fetched
  <2>3. Queued'
    BY <1>1, <1>2, <2>1 DEF CacheInv, Queued, Commands, disk
  <2> QED BY <2>2, <2>3
<1> QED BY <1>5, <1>7, <1>8, <1>9, <1>10, <1>11 DEF CacheInv

\* A buffer that bget() takes away is nobody's: not in use, not queued, clean.
LEMMA MissKeeps ==
  ASSUME CacheInv, NEW p \in Users, NEW n \in Nos, BgetMiss(p, n)
  PROVE  CacheInv'
<1> USE PcSets, BcacheAssumption
<1>1. PICK b \in Bufs :
        /\ Reusable(b)
        /\ blockno' = [blockno EXCEPT ![b] = n]
        /\ valid' = valid \ {b} /\ dirtyBufs' = dirtyBufs \ {b}
        /\ refcnt' = [refcnt EXCEPT ![b] = 1]
        /\ using' = [using EXCEPT ![p] = b]
  BY DEF BgetMiss, CacheInv, Types
<1>2. refcnt[b] = 0 /\ b \notin dirtyBufs
  BY <1>1 DEF Reusable
<1>3. /\ bpc[p] = "idle" /\ bpc' = [bpc EXCEPT ![p] = "lock"] /\ Cached(n) = {}
      /\ UNCHANGED <<list, data, owner, disk>>
  BY DEF BgetMiss, GoTo
<1>4. /\ bpc'[p] = "lock" /\ using'[p] = b
      /\ \A q \in Users \ {p} : bpc'[q] = bpc[q] /\ using'[q] = using[q]
      /\ refcnt'[b] = 1 /\ \A c \in Bufs \ {b} : refcnt'[c] = refcnt[c]
      /\ blockno'[b] = n /\ \A c \in Bufs \ {b} : blockno'[c] = blockno[c]
  BY <1>1, <1>2, <1>3 DEF CacheInv, Types
<1>5. Guests(b) = {} /\ \A q \in Users : bpc[q] \in Inside => using[q] # b
  <2>1. Guests(b) = {}
    BY <1>2, GuestsFinite, FS_EmptySet DEF CacheInv, GuestsCounted
  <2> QED BY <2>1 DEF Guests
<1>6. Types'
  BY <1>1, <1>2, <1>3 DEF CacheInv, Types, disk
<1>7. GuestsCounted'
  <2>1. Guests(b)' = {p}
    BY <1>4, <1>5 DEF Guests
  <2>2. \A c \in Bufs \ {b} : Guests(c)' = Guests(c)
    BY <1>3, <1>4 DEF Guests
  <2>3. Cardinality({p}) = 1
    BY FS_Singleton
  <2>4. refcnt'[b] = Cardinality(Guests(b)')
    BY <1>4, <2>1, <2>3
  <2>5. \A c \in Bufs \ {b} : refcnt'[c] = Cardinality(Guests(c)')
    BY <1>4, <2>2 DEF CacheInv, GuestsCounted
  <2> QED BY <2>4, <2>5 DEF GuestsCounted
<1>8. Unique'
  BY <1>3, <1>4 DEF CacheInv, Unique, Cached
<1>9. Named'
  <2>1. \A q \in Users : bpc'[q] \in Inside => blockno'[using'[q]] \in Nos
    BY <1>3, <1>4, <1>5 DEF CacheInv, Types, Named
  <2>2. \A c \in valid' : blockno'[c] \in Nos
    BY <1>1, <1>4, <1>6 DEF CacheInv, Named, Types
  <2> QED BY <1>1, <2>1, <2>2 DEF CacheInv, Named
<1>10. Owned' /\ NoLockLost'
  BY <1>3, <1>4, OwnedKept, NoLockLostKept
<1>11. \A q \in Users : bpc'[q] \in Holding <=> q # p /\ bpc[q] \in Holding
  BY <1>3, <1>4
<1>12. Fetched'
  BY <1>1, <1>4, <1>5, <1>11 DEF CacheInv, Fetched
<1>13. Queued'
  <2>1. \A q \in Users : bpc'[q] = "io" => bpc[q] = "io" /\ using'[q] = using[q] /\ using[q] # b
    BY <1>4, <1>5
  <2>2. \A q \in Users : bpc[q] = "io" => bpc'[q] = "io" /\ using'[q] = using[q]
    BY <1>3, <1>4
  <2>3. \A j \in DOMAIN idequeue : idequeue[j] # b /\ idequeue[j] \in Bufs
    BY <1>5 DEF CacheInv, Types, Queued
  <2>4. idequeue # <<>> => 1 \in DOMAIN idequeue
    BY DEF CacheInv, Types
  <2>5. idequeue # <<>> => Commands(idequeue[1])'
    BY <1>1, <1>3, <1>4, <2>3, <2>4 DEF CacheInv, Queued, Commands, disk
  <2>6. \A j \in DOMAIN idequeue' : \E q \in Users : bpc'[q] = "io" /\ using'[q] = idequeue'[j]
    BY <1>3, <2>2 DEF CacheInv, Queued, disk
  <2>7. \A q \in Users : bpc'[q] = "io" => using'[q] \in dirtyBufs' \/ using'[q] \notin valid'
    BY <1>1, <2>1 DEF CacheInv, Queued
  <2> QED BY <1>3, <2>5, <2>6, <2>7 DEF CacheInv, Queued, disk
<1>14. Clean'
  BY <1>1, <1>3, <1>4, <1>6 DEF CacheInv, Clean, Types, disk
<1> QED BY <1>6, <1>7, <1>8, <1>9, <1>10, <1>12, <1>13, <1>14 DEF CacheInv

-----------------------------------------------------------------------------
\* iderw(): a process that holds its buffer asks the disk for it.
LEMMA RequestKeeps ==
  ASSUME CacheInv, NEW p \in Users, NEW b \in Bufs, b = using[p],
         NEW d, NEW bytes \in [Bufs -> Contents],
         bpc[p] \in {"locked", "held"},
         \/ bytes = data /\ d = dirtyBufs /\ b \notin valid
         \/ /\ \A c \in Bufs \ {b} : bytes[c] = data[c]
            /\ d = dirtyBufs \cup {b} /\ b \in valid,
         Request(p, d, bytes), data' = bytes, dirtyBufs' = d,
         UNCHANGED <<list, blockno, refcnt, valid, owner, platter, using>>
  PROVE  CacheInv'
<1> USE PcSets, BcacheAssumption
<1>1. /\ owner[b] = p /\ blockno[b] \in Nos
      /\ \A q \in Users \ {p} : bpc[q] \in Holding => using[q] # b
  BY DEF CacheInv, Types, Owned, Named
<1>2. bpc'[p] = "io" /\ \A q \in Users \ {p} : bpc'[q] = bpc[q]
  BY DEF Request, GoTo, CacheInv, Types
<1>3. /\ Len(idequeue) \in Nat /\ Len(idequeue') = Len(idequeue) + 1 /\ idequeue' \in Seq(Bufs)
      /\ DOMAIN idequeue = 1..Len(idequeue) /\ DOMAIN idequeue' = 1..(Len(idequeue) + 1)
      /\ idequeue'[Len(idequeue) + 1] = b
      /\ \A i \in 1..Len(idequeue) : idequeue'[i] = idequeue[i]
  BY <1>1 DEF Request, CacheInv, Types
<1>4. \A i \in DOMAIN idequeue : idequeue[i] # b /\ idequeue[i] \in Bufs
  <2>1. TAKE i \in DOMAIN idequeue
  <2>2. PICK q \in Users : bpc[q] = "io" /\ using[q] = idequeue[i]
    BY DEF CacheInv, Queued
  <2> QED BY <1>1, <2>2 DEF CacheInv, Types
<1>5. Types'
  BY <1>1, <1>3 DEF CacheInv, Types, Request, GoTo
<1>6. GuestsCounted'
  <2>1. \A q \in Users : bpc'[q] \in Inside <=> bpc[q] \in Inside
    BY <1>2
  <2> QED BY <2>1, CountedKept
<1>7. Unique' /\ Named' /\ Fetched' /\ NoLockLost'
  <2>1. Unique'
    BY DEF CacheInv, Unique
  <2>2. Named'
    BY <1>2 DEF CacheInv, Named
  <2>3. Fetched'
    BY <1>1, <1>2 DEF CacheInv, Fetched
  <2>4. NoLockLost'
    BY <1>2 DEF CacheInv, NoLockLost
  <2> QED BY <2>1, <2>2, <2>3, <2>4
<1>8. Owned'
  <2>1. \A q \in Users : bpc'[q] \in Holding => bpc[q] \in Holding
    BY <1>2
  <2>2. \A q \in Users : bpc[q] \in Holding => bpc'[q] \in Holding
    BY <1>2
  <2>3. \A c \in Bufs : owner[c] # Nobody => owner[c] \in Users
    BY DEF CacheInv, Types
  <2> QED BY <2>1, <2>2, <2>3 DEF CacheInv, Owned
<1>9. Queued'
  <2>1. \A i \in DOMAIN idequeue' : \E q \in Users : bpc'[q] = "io" /\ using'[q] = idequeue'[i]
    <3>1. TAKE i \in DOMAIN idequeue'
    <3>2. CASE i = Len(idequeue) + 1
      BY <1>2, <1>3, <3>2
    <3>3. CASE i \in 1..Len(idequeue)
      <4>1. PICK q \in Users : bpc[q] = "io" /\ using[q] = idequeue[i]
        BY <1>3, <3>3 DEF CacheInv, Queued
      <4> QED BY <1>2, <1>3, <3>3, <4>1
    <3> QED BY <1>3, <3>2, <3>3
  <2>2. \A i, j \in DOMAIN idequeue' : idequeue'[i] = idequeue'[j] => i = j
    BY <1>3, <1>4 DEF CacheInv, Queued
  <2>3. ASSUME NEW h, h = idequeue'[1] PROVE Commands(h)'
    <3>1. CASE idequeue = <<>>
      <4>1. command' = StartCommand(b, d, bytes) /\ h = b
        BY <1>3, <2>3, <3>1 DEF Request
      <4>2. CASE b \in d
        BY <4>1, <4>2 DEF StartCommand, Commands
      <4>3. CASE b \notin d
        BY <4>1, <4>3 DEF StartCommand, Commands
      <4> QED BY <4>2, <4>3
    <3>2. CASE idequeue # <<>>
      <4>1. command' = command /\ 1 \in DOMAIN idequeue /\ h = idequeue[1]
        BY <1>3, <2>3, <3>2 DEF Request, CacheInv, Types
      <4>2. h \in Bufs /\ h # b /\ Commands(h)
        BY <1>4, <3>2, <4>1 DEF CacheInv, Queued
      <4>3. (h \in d <=> h \in dirtyBufs) /\ bytes[h] = data[h]
        BY <4>2
      <4> QED BY <4>1, <4>2, <4>3 DEF Commands
    <3> QED BY <3>1, <3>2
  <2>4. \A q \in Users : bpc'[q] = "io" => using'[q] \in dirtyBufs' \/ using'[q] \notin valid'
    BY <1>2 DEF CacheInv, Queued
  <2>5. \E h : h = idequeue'[1]
    OBVIOUS
  <2> QED BY <2>1, <2>2, <2>3, <2>4, <2>5 DEF Queued
<1>10. Clean'
  BY <1>1 DEF CacheInv, Types, Clean
<1> QED BY <1>5, <1>6, <1>7, <1>8, <1>9, <1>10 DEF CacheInv

LEMMA AskKeeps ==
  ASSUME CacheInv, NEW p \in Users, BreadRequest(p) \/ \E v \in Contents : Bwrite(p, v)
  PROVE  CacheInv'
<1>0. PICK b \in Bufs : b = using[p]
  BY DEF CacheInv, Types
<1>1. CASE BreadRequest(p)
  <2>1. /\ bpc[p] = "locked" /\ b \notin valid /\ Request(p, dirtyBufs, data)
        /\ UNCHANGED <<list, blockno, refcnt, valid, dirtyBufs, data, owner, platter, using>>
    BY <1>0, <1>1 DEF BreadRequest, bufFields
  <2>2. data \in [Bufs -> Contents]
    BY DEF CacheInv, Types
  <2> QED BY <1>0, <2>1, <2>2, RequestKeeps
<1>2. CASE \E v \in Contents : Bwrite(p, v)
  <2>1. PICK v \in Contents : Bwrite(p, v)
    BY <1>2
  <2> DEFINE bytes == [data EXCEPT ![b] = v]
             d == dirtyBufs \cup {b}
  <2>2. /\ bpc[p] = "held" /\ data' = bytes /\ dirtyBufs' = d
        /\ Request(p, d, bytes)
        /\ UNCHANGED <<list, blockno, refcnt, valid, owner, platter, using>>
    BY <1>0, <2>1 DEF Bwrite
  <2>3. /\ bytes \in [Bufs -> Contents] /\ b \in valid
        /\ \A c \in Bufs \ {b} : bytes[c] = data[c]
    BY <1>0, <2>2 DEF CacheInv, Types, Fetched
  <2> HIDE DEF bytes, d
  <2>4. d = dirtyBufs \cup {b}
    BY DEF d
  <2> QED BY <1>0, <2>2, <2>3, <2>4, RequestKeeps
<1> QED BY <1>1, <1>2

\* log_write() of the process that holds the buffer.
LEMMA PinKeeps ==
  ASSUME CacheInv, NEW p \in Users, NEW v \in Contents, PinForLog(p, v)
  PROVE  CacheInv'
<1> USE PcSets, BcacheAssumption
<1>0. PICK b \in Bufs : b = using[p]
  BY DEF CacheInv, Types
<1>1. /\ bpc[p] = "held" /\ data' = [data EXCEPT ![b] = v] /\ dirtyBufs' = dirtyBufs \cup {b}
      /\ UNCHANGED <<list, blockno, refcnt, valid, owner, disk, bpc, using>>
  BY <1>0 DEF PinForLog
<1>2. /\ b \in valid /\ owner[b] = p /\ \A c \in Bufs \ {b} : data'[c] = data[c]
      /\ \A q \in Users \ {p} : bpc[q] \in Holding => using[q] # b
  BY <1>0, <1>1 DEF CacheInv, Types, Fetched, Owned
<1>3. Types'
  BY <1>1 DEF CacheInv, Types, disk
<1>4. GuestsCounted'
  BY <1>1, CountedKept
<1>5. Unique' /\ Named' /\ Owned' /\ NoLockLost'
  BY <1>1, <1>2 DEF CacheInv, Unique, Named, Owned, NoLockLost
<1>6. Fetched'
  BY <1>0, <1>1, <1>2 DEF CacheInv, Fetched
<1>7. Queued'
  <2>1. \A i \in DOMAIN idequeue : idequeue[i] \in Bufs /\ idequeue[i] # b
    <3>1. TAKE i \in DOMAIN idequeue
    <3>2. PICK q \in Users : bpc[q] = "io" /\ using[q] = idequeue[i]
      BY DEF CacheInv, Queued
    <3> QED BY <1>1, <1>2, <3>2 DEF CacheInv, Types
  <2>2. idequeue # <<>> => Commands(idequeue[1])'
    <3>1. SUFFICES ASSUME idequeue # <<>> PROVE Commands(idequeue[1])'
      OBVIOUS
    <3>2. 1 \in DOMAIN idequeue
      BY <3>1 DEF CacheInv, Types
    <3>3. PICK h \in Bufs : h = idequeue[1] /\ h # b
      BY <2>1, <3>2
    <3>4. Commands(h)
      BY <3>1, <3>3 DEF CacheInv, Queued
    <3>5. Commands(h)'
      BY <1>1, <1>2, <3>3, <3>4 DEF Commands, disk
    <3> QED BY <1>1, <3>3, <3>5 DEF disk
  <2> QED BY <1>1, <2>2 DEF CacheInv, Queued, disk
<1>8. Clean'
  BY <1>1, <1>2 DEF CacheInv, Types, Clean, disk
<1> QED BY <1>3, <1>4, <1>5, <1>6, <1>7, <1>8 DEF CacheInv

\* The interrupt, on a disk whose requests succeed or fail.
LEMMA InterruptKeeps ==
  ASSUME CacheInv, NEW ok \in Outcomes, IdeIntr(ok)
  PROVE  CacheInv'
<1> USE PcSets, BcacheAssumption
<1>0. /\ idequeue # <<>> /\ 1 \in DOMAIN idequeue /\ Head(idequeue) = idequeue[1]
      /\ Tail(idequeue) \in Seq(Bufs) /\ Len(Tail(idequeue)) = Len(idequeue) - 1
      /\ \A i \in DOMAIN Tail(idequeue) : i + 1 \in DOMAIN idequeue /\ Tail(idequeue)[i] = idequeue[i + 1]
      /\ \A i \in DOMAIN Tail(idequeue) : i \in Nat \ {0}
  BY DEF IdeIntr, CacheInv, Types
<1>1. PICK b \in Bufs : b = idequeue[1]
  BY <1>0 DEF CacheInv, Types
<1>2. PICK p \in Users : bpc[p] = "io" /\ using[p] = b
  BY <1>0, <1>1 DEF CacheInv, Queued
<1>3. /\ Commands(b) /\ blockno[b] \in Nos
      /\ \A q \in Users : q # p /\ bpc[q] \in Holding => using[q] # b
      /\ b \in dirtyBufs \/ b \notin valid
  BY <1>0, <1>1, <1>2 DEF CacheInv, Queued, Owned, Named
<1>4. /\ platter' = IF b \in dirtyBufs THEN [platter EXCEPT ![blockno[b]] = data[b]] ELSE platter
      /\ data' = IF b \notin dirtyBufs /\ ok THEN [data EXCEPT ![b] = platter[blockno[b]]] ELSE data
      /\ valid' = valid \cup {b} /\ dirtyBufs' = dirtyBufs \ {b}
      /\ idequeue' = Tail(idequeue)
      /\ command' = IF Tail(idequeue) = <<>> THEN NoCommand
                    ELSE StartCommand(Head(Tail(idequeue)), dirtyBufs, data)
      /\ bpc' = [q \in Users |-> IF bpc[q] = "io" /\ using[q] = b THEN "io_woken" ELSE bpc[q]]
      /\ UNCHANGED <<list, blockno, refcnt, owner, using>>
  <2>1. Head(idequeue) = b
    BY <1>0, <1>1
  <2>2. /\ platter' = IF command.write THEN [platter EXCEPT ![command.no] = command.bytes] ELSE platter
        /\ data' = IF b \notin dirtyBufs /\ ok THEN [data EXCEPT ![b] = platter[command.no]] ELSE data
        /\ valid' = valid \cup {b} /\ dirtyBufs' = dirtyBufs \ {b}
        /\ idequeue' = Tail(idequeue)
        /\ command' = IF Tail(idequeue) = <<>> THEN NoCommand
                      ELSE StartCommand(Head(Tail(idequeue)), dirtyBufs, data)
        /\ bpc' = [q \in Users |-> IF bpc[q] = "io" /\ using[q] = b THEN "io_woken" ELSE bpc[q]]
        /\ UNCHANGED <<list, blockno, refcnt, owner, using>>
    BY <2>1 DEF IdeIntr
  <2>3. platter' = IF b \in dirtyBufs THEN [platter EXCEPT ![blockno[b]] = data[b]] ELSE platter
    BY <1>3, <2>2 DEF Commands
  <2>4. data' = IF b \notin dirtyBufs /\ ok THEN [data EXCEPT ![b] = platter[blockno[b]]] ELSE data
    BY <1>3, <2>2 DEF Commands
  <2> QED BY <2>2, <2>3, <2>4
<1>5. /\ bpc'[p] = "io_woken" /\ \A q \in Users \ {p} : bpc'[q] = bpc[q]
      /\ \A c \in Bufs \ {b} : data'[c] = data[c]
  BY <1>2, <1>3, <1>4 DEF CacheInv, Types
<1>6. Types'
  BY <1>0, <1>3, <1>4 DEF CacheInv, Types, Inside, Waiting
<1>7. GuestsCounted'
  <2>1. \A q \in Users : bpc'[q] \in Inside <=> bpc[q] \in Inside
    BY <1>2, <1>5
  <2> QED BY <1>4, <2>1, CountedKept
<1>8. Unique' /\ Named' /\ NoLockLost'
  <2>1. Unique'
    BY <1>4 DEF CacheInv, Unique
  <2>2. Named'
    BY <1>2, <1>3, <1>4, <1>5 DEF CacheInv, Named
  <2>3. NoLockLost'
    BY <1>2, <1>4, <1>5 DEF CacheInv, NoLockLost
  <2> QED BY <2>1, <2>2, <2>3
<1>9. Owned'
  <2>1. \A q \in Users : bpc'[q] \in Holding <=> bpc[q] \in Holding
    BY <1>2, <1>5
  <2>2. \A c \in Bufs : owner[c] # Nobody => owner[c] \in Users
    BY DEF CacheInv, Types
  <2> QED BY <1>4, <2>1, <2>2 DEF CacheInv, Owned
<1>10. Fetched'
  <2>1. \A q \in Users \ {p} : bpc'[q] \in {"io_woken", "held"} =>
          using[q] \in valid /\ using[q] # b /\ (bpc[q] = "io_woken" => using[q] \notin dirtyBufs)
    BY <1>3, <1>5 DEF CacheInv, Fetched
  <2> QED BY <1>2, <1>4, <1>5, <2>1 DEF Fetched
<1>11. Queued'
  <2>1. \A i \in DOMAIN idequeue' : idequeue'[i] = idequeue[i + 1] /\ i + 1 \in DOMAIN idequeue
                                    /\ i \in Nat \ {0}
    BY <1>0, <1>4
  <2>2. \A i \in DOMAIN idequeue' : idequeue'[i] \in Bufs /\ idequeue'[i] # b
    BY <1>0, <1>1, <2>1 DEF CacheInv, Types, Queued
  <2>3. \A i \in DOMAIN idequeue' : \E q \in Users : bpc'[q] = "io" /\ using'[q] = idequeue'[i]
    <3>1. TAKE i \in DOMAIN idequeue'
    <3>2. PICK q \in Users : bpc[q] = "io" /\ using[q] = idequeue'[i]
      BY <2>1 DEF CacheInv, Queued
    <3>3. q # p
      BY <1>2, <2>2, <3>2
    <3> QED BY <1>4, <1>5, <3>2, <3>3
  <2>4. \A i, j \in DOMAIN idequeue' : idequeue'[i] = idequeue'[j] => i = j
    <3>1. TAKE i, j \in DOMAIN idequeue'
    <3>2. HAVE idequeue'[i] = idequeue'[j]
    <3>3. i + 1 = j + 1
      BY <2>1, <3>2 DEF CacheInv, Queued
    <3> QED BY <2>1, <3>3
  <2>5. ASSUME idequeue' # <<>>, NEW h, h = idequeue'[1] PROVE Commands(h)'
    <3>1. 1 \in DOMAIN idequeue' /\ Head(idequeue') = h
      BY <1>0, <1>4, <2>5
    <3>2. h \in Bufs /\ h # b /\ command' = StartCommand(h, dirtyBufs, data)
      BY <1>4, <2>2, <2>5, <3>1
    <3>3. (h \in dirtyBufs' <=> h \in dirtyBufs) /\ data'[h] = data[h]
      BY <1>4, <1>5, <3>2
    <3>4. CASE h \in dirtyBufs
      BY <1>4, <3>2, <3>3, <3>4 DEF StartCommand, Commands
    <3>5. CASE h \notin dirtyBufs
      BY <1>4, <3>2, <3>3, <3>5 DEF StartCommand, Commands
    <3> QED BY <3>4, <3>5
  <2>6. \A q \in Users : bpc'[q] = "io" => using'[q] \in dirtyBufs' \/ using'[q] \notin valid'
    BY <1>3, <1>4, <1>5 DEF CacheInv, Queued
  <2>7. \E h : h = idequeue'[1]
    OBVIOUS
  <2> QED BY <2>3, <2>4, <2>5, <2>6, <2>7 DEF Queued
<1>12. Clean'
  <2>1. SUFFICES ASSUME Outcomes = {TRUE}, NEW c \in valid', c \notin dirtyBufs'
                 PROVE  data'[c] = platter'[blockno[c]]
    BY <1>4 DEF Clean
  <2>2. c \in Bufs /\ ok
    BY <1>6, <2>1 DEF Types
  <2>3. CASE c = b
    BY <1>3, <1>4, <2>2, <2>3 DEF CacheInv, Types
  <2>4. CASE c # b
    <3>1. c \in valid \ dirtyBufs /\ data'[c] = data[c]
      BY <1>4, <1>5, <2>1, <2>2, <2>4
    <3>2. blockno[c] \in Nos /\ blockno[c] # blockno[b]
      BY <1>3, <2>2, <2>4, <3>1 DEF CacheInv, Named, Unique
    <3>3. platter'[blockno[c]] = platter[blockno[c]]
      BY <1>3, <1>4, <3>2 DEF CacheInv, Types
    <3> QED BY <2>1, <3>1, <3>3 DEF CacheInv, Clean
  <2> QED BY <2>3, <2>4
<1> QED BY <1>6, <1>7, <1>8, <1>9, <1>10, <1>11, <1>12 DEF CacheInv

-----------------------------------------------------------------------------
LEMMA NextKeeps == CacheInv /\ [BcacheNext]_bcacheVars => CacheInv'
<1> SUFFICES ASSUME CacheInv, [BcacheNext]_bcacheVars PROVE CacheInv'
  OBVIOUS
<1>1. CASE UNCHANGED bcacheVars
  <2>1. UNCHANGED <<list, blockno, refcnt, valid, dirtyBufs, data, owner, idequeue, command, platter,
                    bpc, using>>
    BY <1>1 DEF bcacheVars, bufFields, disk
  <2>2. Types' /\ Unique' /\ Named' /\ Clean'
    BY <2>1 DEF CacheInv, Types, Unique, Named, Clean
  <2>3. GuestsCounted'
    BY <2>1, CountedKept
  <2>4. Owned'
    BY <2>1 DEF CacheInv, Owned
  <2>5. Queued'
    BY <2>1 DEF CacheInv, Queued, Commands
  <2>6. Fetched' /\ NoLockLost'
    BY <2>1 DEF CacheInv, Fetched, NoLockLost
  <2> QED BY <2>2, <2>3, <2>4, <2>5, <2>6 DEF CacheInv
<1>2. ASSUME NEW p \in Users, UserStep(p) PROVE CacheInv'
  BY <1>2, HitKeeps, MissKeeps, MoveKeeps, AcquireKeeps, AskKeeps, PinKeeps, ReleaseKeeps,
     UnreferenceKeeps DEF UserStep
<1>3. ASSUME NEW ok \in Outcomes, IdeIntr(ok) PROVE CacheInv'
  BY <1>3, InterruptKeeps
<1> QED BY <1>1, <1>2, <1>3 DEF BcacheNext, Frozen

LEMMA InvHolds == BcacheSpec => []CacheInv
<1> QED BY InitHolds, NextKeeps, PTL DEF BcacheSpec

\* Every variable of bio.c, sleeplock.c and ide.c keeps its type.
THEOREM BcacheTypeCorrect == BcacheSpec => []BcacheTypeOK
<1>1. ASSUME CacheInv PROVE list \in Seq(Bufs)
  <2>1. list \in [1..NBUF -> Bufs] /\ NBUF \in Nat
    BY <1>1, BcacheAssumption DEF CacheInv, Types, Bufs
  <2> QED BY <2>1
<1>2. CacheInv => BcacheTypeOK
  BY <1>1 DEF CacheInv, Types, BcacheTypeOK
<1> QED BY <1>2, InvHolds, PTL

\* bget() never gives a block two buffers, nor a buffer in use another block, and
\* refcnt is the number of processes that have the buffer (bio.c:63-92).
THEOREM BlockHasOneBuffer == BcacheSpec => []OneBuffer
<1>1. CacheInv => OneBuffer
  BY DEF CacheInv, Unique, GuestsCounted, Guests, OneBuffer
<1> QED BY <1>1, InvHolds, PTL

\* Whoever sleeps in acquiresleep() has someone left to wake it (sleeplock.c:22-43).
THEOREM LocksReturn == BcacheSpec => []NoLockLost
<1>1. CacheInv => NoLockLost
  BY DEF CacheInv
<1> QED BY <1>1, InvHolds, PTL

-----------------------------------------------------------------------------
\* The refinement of BlockStore, on a disk without errors.

\* What View and Holder are: the valid buffer of a block, if it has one, decides.
Seen ==
  /\ \A b \in valid : View(blockno[b]) = data[b] /\ Holder(blockno[b]) = owner[b]
  /\ \A n \in Nos : (\A b \in valid : blockno[b] # n) => View(n) = platter[n] /\ Holder(n) = Nobody

LEMMA SeenHolds == CacheInv => Seen
<1> SUFFICES ASSUME CacheInv PROVE Seen
  OBVIOUS
<1>1. ASSUME NEW b \in valid PROVE (CHOOSE c \in valid : blockno[c] = blockno[b]) = b
  <2>1. PICK c : c = CHOOSE d \in valid : blockno[d] = blockno[b]
    OBVIOUS
  <2>2. c \in valid /\ blockno[c] = blockno[b]
    BY <2>1
  <2>3. c \in Bufs /\ b \in Bufs /\ blockno[b] # NoBlock
    BY <2>2, BcacheAssumption DEF CacheInv, Types, Named
  <2> QED BY <2>1, <2>2, <2>3 DEF CacheInv, Unique
<1> QED BY <1>1 DEF Seen, View, Holder

\* A step that changes no view and no holder is a stutter of BlockStore.
LEMMA Stutters ==
  ASSUME \A n \in Nos : View(n)' = View(n) /\ Holder(n)' = Holder(n)
  PROVE  UNCHANGED Store!storeVars
BY DEF Store!storeVars

LEMMA TakeMaps ==
  ASSUME NEW p \in Users, NEW m \in Nos, Holder(m) = Nobody, Holder(m)' = p,
         \A n \in Nos : View(n)' = View(n) /\ (n # m => Holder(n)' = Holder(n))
  PROVE  Store!Next
<1>1. Store!Take(p, m)
  BY DEF Store!Take
<1> QED BY <1>1 DEF Store!Next

LEMMA GiveMaps ==
  ASSUME NEW p \in Users, NEW m \in Nos, Holder(m) = p, Holder(m)' = Nobody,
         \A n \in Nos : View(n)' = View(n) /\ (n # m => Holder(n)' = Holder(n))
  PROVE  Store!Next
<1>1. Store!Give(p, m)
  BY DEF Store!Give
<1> QED BY <1>1 DEF Store!Next

LEMMA WriteMaps ==
  ASSUME NEW p \in Users, NEW m \in Nos, NEW v \in Contents, Holder(m) = p, View(m)' = v,
         \A n \in Nos : Holder(n)' = Holder(n) /\ (n # m => View(n)' = View(n))
  PROVE  Store!Next
<1>1. Store!Write(p, m, v)
  BY DEF Store!Write
<1> QED BY <1>1 DEF Store!Next

\* acquiresleep() of a buffer with content is Take; of one without, nobody can see it.
LEMMA AcquireMaps ==
  ASSUME CacheInv, Seen, Seen', NEW p \in Users, AcquireSleep(p)
  PROVE  Store!Next \/ UNCHANGED Store!storeVars
<1> USE PcSets, BcacheAssumption
<1>1. PICK b \in Bufs : b = using[p]
  BY DEF CacheInv, Types
<1>2. /\ bpc[p] = "lock" /\ owner[b] = Nobody /\ blockno[b] \in Nos
      /\ owner'[b] = p /\ \A c \in Bufs \ {b} : owner'[c] = owner[c]
      /\ UNCHANGED <<valid, blockno, data, platter>>
  BY <1>1 DEF AcquireSleep, CacheInv, Types, Named, bufFields, disk
<1>3. \A n \in Nos : View(n)' = View(n)
  BY <1>2 DEF View
<1>4. \A n \in Nos : (b \notin valid \/ n # blockno[b]) => Holder(n)' = Holder(n)
  <2>1. SUFFICES ASSUME NEW n \in Nos, b \notin valid \/ n # blockno[b]
                 PROVE  Holder(n)' = Holder(n)
    OBVIOUS
  <2>2. CASE \E c \in valid : blockno[c] = n
    <3>1. PICK c \in valid : blockno[c] = n
      BY <2>2
    <3>2. c \in Bufs /\ c # b
      BY <2>1, <3>1 DEF CacheInv, Types
    <3> QED BY <1>2, <3>1, <3>2 DEF Seen
  <2>3. CASE \A c \in valid : blockno[c] # n
    BY <1>2, <2>3 DEF Seen
  <2> QED BY <2>2, <2>3
<1>5. CASE b \in valid
  <2>1. Holder(blockno[b]) = Nobody /\ Holder(blockno[b])' = p
    BY <1>2, <1>5 DEF Seen
  <2>2. PICK m \in Nos : m = blockno[b]
    BY <1>2
  <2>3. Holder(m) = Nobody /\ Holder(m)' = p
    BY <1>2, <2>1, <2>2
  <2> QED BY <1>3, <1>4, <2>2, <2>3, TakeMaps
<1>6. CASE b \notin valid
  BY <1>3, <1>4, <1>6, Stutters
<1> QED BY <1>5, <1>6

\* releasesleep() is Give.
LEMMA ReleaseMaps ==
  ASSUME CacheInv, Seen, Seen', NEW p \in Users, ReleaseSleep(p)
  PROVE  Store!Next
<1> USE PcSets, BcacheAssumption
<1>1. PICK b \in Bufs : b = using[p]
  BY DEF CacheInv, Types
<1>2. /\ bpc[p] = "held" /\ owner[b] = p /\ b \in valid
      /\ owner'[b] = Nobody /\ \A c \in Bufs \ {b} : owner'[c] = owner[c]
      /\ UNCHANGED <<valid, blockno, data, platter>>
  BY <1>1 DEF ReleaseSleep, CacheInv, Types, Owned, Fetched, bufFields, disk
<1>3. \A n \in Nos : View(n)' = View(n)
  BY <1>2 DEF View
<1>4. PICK m \in Nos : m = blockno[b]
  BY <1>2 DEF CacheInv, Named
<1>5. \A n \in Nos : n # m => Holder(n)' = Holder(n)
  <2>1. SUFFICES ASSUME NEW n \in Nos, n # m PROVE Holder(n)' = Holder(n)
    OBVIOUS
  <2>2. CASE \E c \in valid : blockno[c] = n
    <3>1. PICK c \in valid : blockno[c] = n
      BY <2>2
    <3>2. c \in Bufs /\ c # b
      BY <1>4, <2>1, <3>1 DEF CacheInv, Types
    <3> QED BY <1>2, <3>1, <3>2 DEF Seen
  <2>3. CASE \A c \in valid : blockno[c] # n
    BY <1>2, <2>3 DEF Seen
  <2> QED BY <2>2, <2>3
<1>6. Holder(m) = p /\ Holder(m)' = Nobody
  BY <1>2, <1>4 DEF Seen
<1> QED BY <1>3, <1>5, <1>6, GiveMaps

\* bwrite() and log_write() of the process that holds the buffer are Write.
LEMMA ChangeMaps ==
  ASSUME CacheInv, Seen, Seen', NEW p \in Users, NEW v \in Contents, Bwrite(p, v) \/ PinForLog(p, v)
  PROVE  Store!Next
<1> USE PcSets, BcacheAssumption
<1>1. PICK b \in Bufs : b = using[p]
  BY DEF CacheInv, Types
<1>2. /\ bpc[p] = "held" /\ owner[b] = p /\ b \in valid
      /\ data'[b] = v /\ \A c \in Bufs \ {b} : data'[c] = data[c]
      /\ UNCHANGED <<valid, blockno, owner, platter>>
  BY <1>1 DEF Bwrite, PinForLog, CacheInv, Types, Owned, Fetched, disk
<1>3. \A n \in Nos : Holder(n)' = Holder(n)
  BY <1>2 DEF Holder
<1>4. PICK m \in Nos : m = blockno[b]
  BY <1>2 DEF CacheInv, Named
<1>5. \A n \in Nos : n # m => View(n)' = View(n)
  <2>1. SUFFICES ASSUME NEW n \in Nos, n # m PROVE View(n)' = View(n)
    OBVIOUS
  <2>2. CASE \E c \in valid : blockno[c] = n
    <3>1. PICK c \in valid : blockno[c] = n
      BY <2>2
    <3>2. c \in Bufs /\ c # b
      BY <1>4, <2>1, <3>1 DEF CacheInv, Types
    <3> QED BY <1>2, <3>1, <3>2 DEF Seen
  <2>3. CASE \A c \in valid : blockno[c] # n
    BY <1>2, <2>3 DEF Seen
  <2> QED BY <2>2, <2>3
<1>6. Holder(m) = p /\ View(m)' = v
  BY <1>2, <1>4 DEF Seen
<1> QED BY <1>3, <1>5, <1>6, WriteMaps

\* bget() recycles only buffers whose loss nobody sees: free, and clean.
LEMMA MissMaps ==
  ASSUME CacheInv, Seen, Seen', Outcomes = {TRUE}, NEW p \in Users, NEW n \in Nos, BgetMiss(p, n)
  PROVE  UNCHANGED Store!storeVars
<1> USE PcSets, BcacheAssumption
<1>1. PICK i \in DOMAIN list :
        /\ Reusable(list[i])
        /\ blockno' = [blockno EXCEPT ![list[i]] = n] /\ valid' = valid \ {list[i]}
  BY DEF BgetMiss
<1>2. PICK b \in Bufs : b = list[i]
  BY <1>1 DEF CacheInv, Types
<1>3. /\ refcnt[b] = 0 /\ b \notin dirtyBufs /\ blockno'[b] = n /\ valid' = valid \ {b}
      /\ \A c \in Bufs \ {b} : blockno'[c] = blockno[c]
      /\ UNCHANGED <<data, owner, platter>>
  BY <1>1, <1>2 DEF Reusable, CacheInv, Types, disk, BgetMiss
<1>4. \A c \in Bufs : blockno[c] # n
  BY DEF BgetMiss, Cached
<1>5. owner[b] = Nobody
  <2>1. SUFFICES ASSUME owner[b] # Nobody PROVE FALSE
    OBVIOUS
  <2>2. owner[b] \in Users /\ owner[b] \in Guests(b)
    BY <2>1 DEF CacheInv, Types, Owned, Guests
  <2>3. IsFiniteSet(Guests(b)) /\ Cardinality(Guests(b)) = 0
    BY <1>3, FS_Subset DEF CacheInv, GuestsCounted, Guests
  <2> QED BY <2>2, <2>3, FS_EmptySet
<1>6. \A m \in Nos : View(m)' = View(m) /\ Holder(m)' = Holder(m)
  <2>1. TAKE m \in Nos
  <2>2. CASE \E c \in valid \ {b} : blockno[c] = m
    <3>1. PICK c \in valid \ {b} : blockno[c] = m
      BY <2>2
    <3>2. c \in Bufs /\ c \in valid' /\ blockno'[c] = m
      BY <1>3, <3>1 DEF CacheInv, Types
    <3> QED BY <1>3, <3>1, <3>2 DEF Seen
  <2>3. CASE \A c \in valid \ {b} : blockno[c] # m
    <3>1. \A c \in valid' : c \in Bufs /\ blockno'[c] # m
      BY <1>3, <2>3 DEF CacheInv, Types
    <3>2. View(m)' = platter[m] /\ Holder(m)' = Nobody
      BY <1>3, <3>1 DEF Seen
    <3>3. CASE b \in valid /\ blockno[b] = m
      <4>1. View(m) = data[b] /\ Holder(m) = owner[b]
        BY <3>3 DEF Seen
      <4>2. data[b] = platter[m]
        BY <1>3, <3>3 DEF CacheInv, Clean
      <4> QED BY <1>5, <3>2, <4>1, <4>2
    <3>4. CASE ~(b \in valid /\ blockno[b] = m)
      BY <2>3, <3>2, <3>4 DEF Seen
    <3> QED BY <3>3, <3>4
  <2> QED BY <2>2, <2>3
<1> QED BY <1>6, Stutters

\* The end of a read makes the block visible as its reader's; the end of a write
\* changes nothing that can be seen.
LEMMA InterruptMaps ==
  ASSUME CacheInv, CacheInv', Seen, Seen', Outcomes = {TRUE}, IdeIntr(TRUE)
  PROVE  Store!Next \/ UNCHANGED Store!storeVars
<1> USE PcSets, BcacheAssumption
<1>1. idequeue # <<>> /\ 1 \in DOMAIN idequeue /\ Head(idequeue) = idequeue[1]
  BY DEF IdeIntr, CacheInv, Types
<1>2. PICK b \in Bufs : b = idequeue[1]
  BY <1>1 DEF CacheInv, Types
<1>3. PICK p \in Users : bpc[p] = "io" /\ using[p] = b
  BY <1>1, <1>2 DEF CacheInv, Queued
<1>4. PICK m \in Nos : m = blockno[b]
  BY <1>3 DEF CacheInv, Named
<1>5. owner[b] = p
  BY <1>3 DEF CacheInv, Owned
<1>6. /\ command.no = m /\ (command.write <=> b \in dirtyBufs)
      /\ b \in dirtyBufs => command.bytes = data[b]
  BY <1>1, <1>2, <1>4 DEF CacheInv, Queued, Commands
<1>7. /\ valid' = valid \cup {b} /\ UNCHANGED <<blockno, owner>>
      /\ b \in dirtyBufs => platter' = [platter EXCEPT ![m] = data[b]] /\ data' = data
      /\ b \notin dirtyBufs => platter' = platter /\ data' = [data EXCEPT ![b] = platter[m]]
  BY <1>1, <1>2, <1>6 DEF IdeIntr
<1>8. \A c \in valid : c # b => c \in Bufs /\ blockno[c] # m
  BY <1>2, <1>4, BcacheAssumption DEF CacheInv, Types, Unique
<1>9. CASE b \in dirtyBufs
  <2>1. b \in valid /\ valid' = valid
    BY <1>7, <1>9 DEF CacheInv, Named
  <2>2. ASSUME NEW n \in Nos PROVE View(n)' = View(n) /\ Holder(n)' = Holder(n)
    <3>1. CASE \E c \in valid : blockno[c] = n
      BY <1>7, <1>9, <2>1, <3>1 DEF Seen
    <3>2. CASE \A c \in valid : blockno[c] # n
      <4>1. n # m
        BY <1>4, <2>1, <3>2
      <4>2. platter'[n] = platter[n]
        BY <1>7, <1>9, <4>1 DEF CacheInv, Types
      <4> QED BY <1>7, <2>1, <3>2, <4>2 DEF Seen
    <3> QED BY <3>1, <3>2
  <2> QED BY <2>2, Stutters
<1>10. CASE b \notin dirtyBufs
  <2>1. b \notin valid
    BY <1>3, <1>10 DEF CacheInv, Queued
  <2>2. View(m) = platter[m] /\ Holder(m) = Nobody
    <3>1. \A c \in valid : blockno[c] # m
      BY <1>8, <2>1
    <3> QED BY <3>1 DEF Seen
  <2>3. View(m)' = platter[m] /\ Holder(m)' = p
    <3>1. data'[b] = platter[m] /\ b \in valid' /\ blockno'[b] = m /\ owner'[b] = p
      BY <1>4, <1>5, <1>7, <1>10 DEF CacheInv, Types
    <3> QED BY <3>1 DEF Seen
  <2>4. ASSUME NEW n \in Nos, n # m PROVE View(n)' = View(n) /\ Holder(n)' = Holder(n)
    <3>1. CASE \E c \in valid : blockno[c] = n
      <4>1. PICK c \in valid : blockno[c] = n
        BY <3>1
      <4>2. c \in Bufs /\ c # b /\ data'[c] = data[c] /\ c \in valid'
        BY <1>7, <1>10, <2>1, <4>1 DEF CacheInv, Types
      <4> QED BY <1>7, <4>1, <4>2 DEF Seen
    <3>2. CASE \A c \in valid : blockno[c] # n
      <4>1. \A c \in valid' : blockno'[c] # n
        BY <1>4, <1>7, <2>4, <3>2
      <4> QED BY <1>7, <1>10, <3>2, <4>1 DEF Seen
    <3> QED BY <3>1, <3>2
  <2> QED BY <2>2, <2>3, <2>4, TakeMaps
<1> QED BY <1>9, <1>10

\* The steps that no reader of a block can see.
LEMMA HiddenMaps ==
  ASSUME UNCHANGED <<valid, blockno, data, owner, platter>>
  PROVE  UNCHANGED Store!storeVars
<1>1. \A n \in Nos : View(n)' = View(n) /\ Holder(n)' = Holder(n)
  BY DEF View, Holder
<1> QED BY <1>1, Stutters

LEMMA UserMaps ==
  ASSUME CacheInv, Seen, Seen', Outcomes = {TRUE}, NEW p \in Users, UserStep(p)
  PROVE  Store!Next \/ UNCHANGED Store!storeVars
<1>1. CASE \/ \E n \in Nos : BgetHit(p, n) \/ BgetPanic(p, n)
           \/ AcquireWait(p) \/ BreadValid(p) \/ BreadRequest(p) \/ IoWoken(p) \/ Unreference(p)
  <2>1. UNCHANGED <<valid, blockno, data, owner, platter>>
    BY <1>1 DEF BgetHit, BgetPanic, AcquireWait, BreadValid, BreadRequest, IoWoken, Unreference,
                bufFields, disk
  <2> QED BY <2>1, HiddenMaps
<1>2. CASE \E n \in Nos : BgetMiss(p, n)
  BY <1>2, MissMaps
<1>3. CASE AcquireSleep(p)
  BY <1>3, AcquireMaps
<1>4. CASE ReleaseSleep(p)
  BY <1>4, ReleaseMaps
<1>5. CASE \E v \in Contents : Bwrite(p, v) \/ PinForLog(p, v)
  BY <1>5, ChangeMaps
<1> QED BY <1>1, <1>2, <1>3, <1>4, <1>5 DEF UserStep

LEMMA NextMaps ==
  ASSUME CacheInv, CacheInv', Seen, Seen', Outcomes = {TRUE}, [BcacheNext]_bcacheVars
  PROVE  Store!Next \/ UNCHANGED Store!storeVars
<1>1. CASE UNCHANGED bcacheVars
  <2>1. UNCHANGED <<valid, blockno, data, owner, platter>>
    BY <1>1 DEF bcacheVars, bufFields, disk
  <2> QED BY <2>1, HiddenMaps
<1>2. CASE \E p \in Users : UserStep(p)
  BY <1>2, UserMaps
<1>3. CASE \E ok \in Outcomes : IdeIntr(ok)
  BY <1>3, InterruptMaps
<1> QED BY <1>1, <1>2, <1>3 DEF BcacheNext, Frozen

LEMMA InitMaps == CacheInv /\ BcacheInit => Store!Init
<1> SUFFICES ASSUME CacheInv, BcacheInit PROVE Store!Init
  OBVIOUS
<1>1. \A n \in Nos : View(n) = platter[n] /\ Holder(n) = Nobody
  BY DEF BcacheInit, View, Holder
<1>2. platter \in [Nos -> Contents]
  BY DEF CacheInv, Types
<1> QED BY <1>1, <1>2 DEF Store!Init

\* On a disk without errors bread(), bwrite() and brelse() keep their promise: what
\* a process reads is what was last written, whatever was recycled or queued
\* (bio.c, ide.c:103-168).
THEOREM CacheIsStore ==
  ASSUME Outcomes = {TRUE}
  PROVE  BcacheSpec => BlocksCoherent
<1>1. CacheInv /\ CacheInv' /\ Seen /\ Seen' /\ [BcacheNext]_bcacheVars => [Store!Next]_Store!storeVars
  BY NextMaps
<1>2. BcacheSpec => []CacheInv
  BY InvHolds
<1>3. BcacheInit => Store!Init
  BY InitHolds, InitMaps
<1> QED BY <1>1, <1>2, <1>3, SeenHolds, PTL DEF BcacheSpec, BlocksCoherent, Store!Spec


-----------------------------------------------------------------------------
\* Bmap: the forest of blocks.  Slot i of ip->addrs is the root of a tree of
\* Height(i) levels of indirect blocks; HomeOf() is where a block hangs: in which
\* file, how many levels above the data, in which indirect block (0: in
\* ip->addrs) and at which index.
ASlots    == 0..T_NINDIRECT_ADRS
Words     == 0..(BSIZE - 1)
Height(i) == IF i < NDIRECT THEN 0 ELSE i - NDIRECT + 1
Data(u)   == u \ (0..(NMETA - 1))

HomeOf(f, h, up, i) == [file |-> f, h |-> h, up |-> up, i |-> i]
Homes == [file : BFiles, h : 0..3, up : DBlocks, i : Nat]

\* What a slot or an entry of an indirect block names hangs there.
SlotsLead(u, ad, own) ==
  \A f \in BFiles, i \in ASlots : ad[f][i] # 0 =>
    ad[f][i] \in Data(u) /\ own[ad[f][i]] = HomeOf(f, Height(i), 0, i)

EntriesLead(u, bl, own) ==
  \A b \in Data(u), i \in Words : own[b].h > 0 /\ bl[b][i] # 0 =>
    bl[b][i] \in Data(u) /\ own[bl[b][i]] = HomeOf(own[b].file, own[b].h - 1, b, i)

\* Every block of the data area that is used is named where it hangs.
Hangs(b, u, bl, ad, own) ==
  \/ /\ own[b].up = 0 /\ own[b].i \in ASlots /\ own[b].h = Height(own[b].i)
     /\ ad[own[b].file][own[b].i] = b
  \/ /\ own[b].up \in Data(u) /\ own[own[b].up].h = own[b].h + 1
     /\ own[own[b].up].file = own[b].file
     /\ own[b].i \in Words /\ bl[own[b].up][own[b].i] = b

Forest(u, bl, ad, own) ==
  /\ own \in [DBlocks -> Homes]
  /\ SlotsLead(u, ad, own) /\ EntriesLead(u, bl, own)
  /\ \A b \in Data(u) : Hangs(b, u, bl, ad, own)

Disk(u, bl, ad) ==
  /\ u \subseteq DBlocks /\ 0..(NMETA - 1) \subseteq u
  /\ bl \in [DBlocks -> [Words -> Nat]]
  /\ ad \in [BFiles -> [ASlots -> DBlocks]]

LEMMA BmapNumbers ==
  /\ BFiles # {} /\ NDIRECT \in Nat \ {0} /\ BSIZE \in Nat /\ BSIZE >= 2 /\ FSSIZE \in Nat
  /\ NMETA \in Nat /\ NMETA >= 1 /\ NMETA <= FSSIZE - 1
  /\ T_NINDIRECT_ADRS = NDIRECT + 2 /\ D_NINDIRECT_ADRS = NDIRECT + 1 /\ NINDIRECT = BSIZE
  /\ MaxImage \in 0..((NDIRECT + NINDIRECT) * BSIZE) /\ Requests \subseteq Nat \X Nat
BY BmapAssumption DEF T_NINDIRECT_ADRS, D_NINDIRECT_ADRS, NINDIRECT

LEMMA DataOnly ==
  ASSUME NEW u \in SUBSET DBlocks
  PROVE  /\ 0 \notin Data(u) /\ Data(u) \subseteq u /\ Data(u) \subseteq DBlocks /\ 0 \in DBlocks
         /\ \A b \in DBlocks : (0..(NMETA - 1) \subseteq u /\ b \notin u) =>
              b # 0 /\ Data(u \cup {b}) = Data(u) \cup {b} /\ b \notin Data(u)
BY BmapNumbers DEF Data, DBlocks

LEMMA HeightIs ==
  /\ \A i \in ASlots : Height(i) \in 0..3 /\ i \in Nat
  /\ \A i \in ASlots : (Height(i) = 0 <=> i < NDIRECT) /\ (Height(i) = 1 <=> i = NDIRECT)
                       /\ (Height(i) = 2 <=> i = D_NINDIRECT_ADRS) /\ (Height(i) = 3 <=> i = T_NINDIRECT_ADRS)
  /\ \A i \in ASlots, j \in ASlots : Height(i) = Height(j) /\ Height(i) > 0 => i = j
  /\ \A i \in Words : i \in Nat
BY BmapNumbers DEF ASlots, Height, Words

\* A block that was free hangs in an empty slot ...
LEMMA RootGrown ==
  ASSUME NEW u \in SUBSET DBlocks, NEW bl, NEW ad, NEW own, Disk(u, bl, ad), Forest(u, bl, ad, own),
         NEW f \in BFiles, NEW i \in ASlots, ad[f][i] = 0, NEW b \in DBlocks, b \notin u,
         NEW bl2, bl2 = [bl EXCEPT ![b] = Zero], NEW ad2, ad2 = [ad EXCEPT ![f][i] = b],
         NEW own2, own2 = [own EXCEPT ![b] = HomeOf(f, Height(i), 0, i)]
  PROVE  Disk(u \cup {b}, bl2, ad2) /\ Forest(u \cup {b}, bl2, ad2, own2)
<1>1. /\ b # 0 /\ Data(u \cup {b}) = Data(u) \cup {b} /\ b \notin Data(u)
      /\ 0 \notin Data(u) /\ Data(u) \subseteq DBlocks /\ 0 \in DBlocks
  BY DataOnly DEF Disk
<1>2. Zero \in [Words -> Nat] /\ \A j \in Words : Zero[j] = 0
  BY DEF Zero, Words
<1>3. /\ bl2[b] = Zero /\ bl2 \in [DBlocks -> [Words -> Nat]]
      /\ \A x \in DBlocks : x # b => bl2[x] = bl[x]
  BY <1>2 DEF Disk
<1>4. /\ ad2 \in [BFiles -> [ASlots -> DBlocks]] /\ ad2[f][i] = b
      /\ \A g \in BFiles, j \in ASlots : <<g, j>> # <<f, i>> => ad2[g][j] = ad[g][j]
  BY DEF Disk
<1> DEFINE home == HomeOf(f, Height(i), 0, i)
<1>5. home \in Homes
  BY <1>1, HeightIs DEF HomeOf, Homes
<1>6. home.file = f /\ home.h = Height(i) /\ home.up = 0 /\ home.i = i
  BY DEF HomeOf
<1>7. own2 \in [DBlocks -> Homes] /\ own2[b] = home /\ \A x \in DBlocks : x # b => own2[x] = own[x]
  BY <1>5 DEF Forest
<1> HIDE DEF home
<1>8. SlotsLead(u \cup {b}, ad2, own2)
  <2> SUFFICES ASSUME NEW g \in BFiles, NEW j \in ASlots, ad2[g][j] # 0
               PROVE  ad2[g][j] \in Data(u) \cup {b} /\ own2[ad2[g][j]] = HomeOf(g, Height(j), 0, j)
    BY <1>1 DEF SlotsLead
  <2>1. CASE <<g, j>> = <<f, i>>
    <3>1. g = f /\ j = i
      BY <2>1
    <3> QED BY <1>4, <1>7, <3>1 DEF home
  <2>2. CASE <<g, j>> # <<f, i>>
    <3>1. ad2[g][j] = ad[g][j]
      BY <1>4, <2>2
    <3>2. ad[g][j] \in Data(u) /\ own[ad[g][j]] = HomeOf(g, Height(j), 0, j)
      BY <3>1 DEF Forest, SlotsLead
    <3> QED BY <1>1, <1>7, <3>1, <3>2
  <2> QED BY <2>1, <2>2
<1>9. EntriesLead(u \cup {b}, bl2, own2)
  <2> SUFFICES ASSUME NEW x \in Data(u) \cup {b}, NEW j \in Words, own2[x].h > 0, bl2[x][j] # 0
               PROVE  bl2[x][j] \in Data(u) \cup {b} /\ own2[bl2[x][j]] = HomeOf(own2[x].file, own2[x].h - 1, x, j)
    BY <1>1 DEF EntriesLead
  <2>1. x # b
    BY <1>2, <1>3
  <2>2. x \in Data(u) /\ own2[x] = own[x] /\ bl2[x] = bl[x]
    BY <1>1, <1>3, <1>7, <2>1
  <2>3. bl[x][j] \in Data(u) /\ own[bl[x][j]] = HomeOf(own[x].file, own[x].h - 1, x, j)
    BY <2>2 DEF Forest, EntriesLead
  <2> QED BY <1>1, <1>7, <2>2, <2>3
<1>10. ASSUME NEW x \in Data(u) \cup {b} PROVE Hangs(x, u \cup {b}, bl2, ad2, own2)
  <2>1. CASE x = b
    BY <1>4, <1>6, <1>7, <2>1 DEF Hangs
  <2>2. CASE x # b
    <3>1. x \in Data(u) /\ own2[x] = own[x] /\ own[x] \in Homes /\ x # 0
      BY <1>1, <1>7, <2>2 DEF Forest
    <3>2. Hangs(x, u, bl, ad, own)
      BY <3>1 DEF Forest
    <3>3. own[x].file \in BFiles
      BY <3>1 DEF Homes
    <3>4. CASE /\ own[x].up = 0 /\ own[x].i \in ASlots /\ own[x].h = Height(own[x].i)
               /\ ad[own[x].file][own[x].i] = x
      <4>1. <<own[x].file, own[x].i>> # <<f, i>>
        BY <3>1, <3>4
      <4>2. ad2[own[x].file][own[x].i] = x
        BY <1>4, <3>3, <3>4, <4>1
      <4> QED BY <3>1, <3>4, <4>2 DEF Hangs
    <3>5. CASE /\ own[x].up \in Data(u) /\ own[own[x].up].h = own[x].h + 1
               /\ own[own[x].up].file = own[x].file
               /\ own[x].i \in Words /\ bl[own[x].up][own[x].i] = x
      <4> DEFINE y == own[x].up
      <4>1. y \in Data(u) /\ y # b /\ y \in DBlocks
        BY <1>1, <3>5
      <4>2. own2[y] = own[y] /\ bl2[y] = bl[y] /\ y \in Data(u \cup {b})
        BY <1>1, <1>3, <1>7, <4>1
      <4> QED BY <3>1, <3>5, <4>2 DEF Hangs
    <3> QED BY <3>2, <3>4, <3>5 DEF Hangs
  <2> QED BY <2>1, <2>2
<1>11. Disk(u \cup {b}, bl2, ad2)
  BY <1>3, <1>4 DEF Disk
<1> QED BY <1>1, <1>7, <1>8, <1>9, <1>10, <1>11 DEF Forest

EntryFree(u, bl, ad, own, p, i, b) ==
  /\ Disk(u, bl, ad) /\ Forest(u, bl, ad, own) /\ u \in SUBSET DBlocks
  /\ p \in Data(u) /\ own[p].h > 0 /\ i \in Words /\ bl[p][i] = 0 /\ b \in DBlocks /\ b \notin u
Cleared(bl, b) == [bl EXCEPT ![b] = Zero]
EntrySet(bl, p, i, b) == [bl EXCEPT ![p][i] = b]
HomeAt(own, p, i, b) == [own EXCEPT ![b] = HomeOf(own[p].file, own[p].h - 1, p, i)]

\* ... or in an empty entry of an indirect block.
LEMMA EntryGrown ==
  ASSUME NEW u, NEW bl, NEW ad, NEW own, NEW p, NEW i, NEW b, EntryFree(u, bl, ad, own, p, i, b)
  PROVE  /\ Disk(u \cup {b}, EntrySet(Cleared(bl, b), p, i, b), ad)
         /\ Forest(u \cup {b}, EntrySet(Cleared(bl, b), p, i, b), ad, HomeAt(own, p, i, b))
<1> DEFINE home == HomeOf(own[p].file, own[p].h - 1, p, i)
           bl1 == Cleared(bl, b)  bl2 == EntrySet(bl1, p, i, b)  own2 == HomeAt(own, p, i, b)
<1>a. /\ Disk(u, bl, ad) /\ Forest(u, bl, ad, own) /\ u \in SUBSET DBlocks
      /\ p \in Data(u) /\ own[p].h > 0 /\ i \in Words /\ bl[p][i] = 0 /\ b \in DBlocks /\ b \notin u
  BY DEF EntryFree
<1>b. /\ home = HomeOf(own[p].file, own[p].h - 1, p, i) /\ bl1 = [bl EXCEPT ![b] = Zero]
      /\ bl2 = [bl1 EXCEPT ![p][i] = b] /\ own2 = [own EXCEPT ![b] = home]
  BY DEF Cleared, EntrySet, HomeAt
<1> HIDE DEF home, bl1, bl2, own2
<1> USE <1>a, <1>b
<1>1. /\ b # 0 /\ Data(u \cup {b}) = Data(u) \cup {b} /\ b \notin Data(u)
      /\ 0 \notin Data(u) /\ Data(u) \subseteq DBlocks /\ 0 \in DBlocks
  BY DataOnly DEF Disk
<1>0. p \in DBlocks /\ p # b /\ p # 0 /\ own[p] \in Homes /\ own[p].h \in 1..3 /\ own[p].file \in BFiles
  BY <1>1 DEF Forest, Homes
<1>2. Zero \in [Words -> Nat] /\ (\A j \in Words : Zero[j] = 0) /\ b \in Nat
  BY BmapNumbers DEF Zero, Words, DBlocks
<1>3. /\ bl2[b] = Zero /\ bl2 \in [DBlocks -> [Words -> Nat]]
      /\ \A x \in DBlocks : x \notin {b, p} => bl2[x] = bl[x]
      /\ bl2[p][i] = b /\ \A j \in Words : j # i => bl2[p][j] = bl[p][j]
  <2>1. bl1 \in [DBlocks -> [Words -> Nat]] /\ bl1[b] = Zero /\ \A x \in DBlocks : x # b => bl1[x] = bl[x]
    BY <1>2 DEF Disk
  <2>3. bl2 \in [DBlocks -> [Words -> Nat]] /\ \A x \in DBlocks : x # p => bl2[x] = bl1[x]
    BY <1>0, <1>2, <2>1
  <2> DEFINE row == bl1[p]  row2 == bl2[p]
  <2>4. row2 = [row EXCEPT ![i] = b] /\ row \in [Words -> Nat] /\ row = bl[p]
    BY <1>0, <2>1
  <2> HIDE DEF row, row2
  <2>6. row2[i] = b /\ \A j \in Words : j # i => row2[j] = row[j]
    BY <2>4
  <2>5. bl2[p][i] = b /\ \A j \in Words : j # i => bl2[p][j] = bl[p][j]
    BY <2>4, <2>6 DEF row2
  <2> QED BY <1>0, <2>1, <2>3, <2>5
<1>5. home \in Homes
  BY <1>0, HeightIs DEF HomeOf, Homes
<1>6. home.file = own[p].file /\ home.h = own[p].h - 1 /\ home.up = p /\ home.i = i
  BY DEF HomeOf
<1>7. own2 \in [DBlocks -> Homes] /\ own2[b] = home /\ \A x \in DBlocks : x # b => own2[x] = own[x]
  BY <1>5 DEF Forest
<1>8. SlotsLead(u \cup {b}, ad, own2)
  <2> SUFFICES ASSUME NEW g \in BFiles, NEW j \in ASlots, ad[g][j] # 0
               PROVE  ad[g][j] \in Data(u) \cup {b} /\ own2[ad[g][j]] = HomeOf(g, Height(j), 0, j)
    BY <1>1 DEF SlotsLead
  <2>2. ad[g][j] \in Data(u) /\ own[ad[g][j]] = HomeOf(g, Height(j), 0, j)
    BY DEF Forest, SlotsLead
  <2> QED BY <1>1, <1>7, <2>2
<1>9. EntriesLead(u \cup {b}, bl2, own2)
  <2> SUFFICES ASSUME NEW x \in Data(u) \cup {b}, NEW j \in Words, own2[x].h > 0, bl2[x][j] # 0
               PROVE  bl2[x][j] \in Data(u) \cup {b} /\ own2[bl2[x][j]] = HomeOf(own2[x].file, own2[x].h - 1, x, j)
    BY <1>1 DEF EntriesLead
  <2>1. x # b
    BY <1>2, <1>3
  <2>2. x \in Data(u) /\ own2[x] = own[x] /\ x \in DBlocks
    BY <1>1, <1>7, <2>1
  <2>3. CASE x = p /\ j = i
    <3>1. bl2[x][j] = b
      BY <1>3, <2>3
    <3>2. own2[b] = HomeOf(own2[x].file, own2[x].h - 1, x, j)
      BY <1>7, <2>2, <2>3
    <3> QED BY <3>1, <3>2
  <2>4. CASE ~(x = p /\ j = i)
    <3>1. bl2[x][j] = bl[x][j]
      BY <1>3, <2>1, <2>2, <2>4
    <3>2. bl[x][j] \in Data(u) /\ own[bl[x][j]] = HomeOf(own[x].file, own[x].h - 1, x, j)
      BY <2>2, <3>1 DEF Forest, EntriesLead
    <3> QED BY <1>1, <1>7, <2>2, <3>1, <3>2
  <2> QED BY <2>3, <2>4
<1>10. ASSUME NEW x \in Data(u) \cup {b} PROVE Hangs(x, u \cup {b}, bl2, ad, own2)
  <2>1. CASE x = b
    <3>1. own2[p] = own[p] /\ p \in Data(u \cup {b}) /\ own[p].h = home.h + 1
      BY <1>0, <1>1, <1>6, <1>7
    <3>2. own2[x].up = p /\ own2[x].i = i /\ own2[x].file = own[p].file /\ own2[x].h = home.h
      BY <1>6, <1>7, <2>1
    <3>3. bl2[p][i] = x
      BY <1>3, <2>1
    <3> QED BY <3>1, <3>2, <3>3 DEF Hangs
  <2>2. CASE x # b
    <3>1. x \in Data(u) /\ own2[x] = own[x] /\ own[x] \in Homes /\ x # 0
      BY <1>1, <1>7, <2>2 DEF Forest
    <3>2. Hangs(x, u, bl, ad, own)
      BY <3>1 DEF Forest
    <3>4. CASE /\ own[x].up = 0 /\ own[x].i \in ASlots /\ own[x].h = Height(own[x].i)
               /\ ad[own[x].file][own[x].i] = x
      BY <3>1, <3>4 DEF Hangs
    <3>5. CASE /\ own[x].up \in Data(u) /\ own[own[x].up].h = own[x].h + 1
               /\ own[own[x].up].file = own[x].file
               /\ own[x].i \in Words /\ bl[own[x].up][own[x].i] = x
      <4> DEFINE y == own[x].up  j == own[x].i
      <4>1. y \in Data(u) /\ y # b /\ y \in DBlocks
        BY <1>1, <3>5
      <4>2. own2[y] = own[y] /\ y \in Data(u \cup {b})
        BY <1>1, <1>7, <4>1
      <4>3. ~(y = p /\ j = i)
        BY <3>1, <3>5
      <4>4. bl2[y][j] = bl[y][j]
        BY <1>3, <3>5, <4>1, <4>3
      <4> QED BY <3>1, <3>5, <4>2, <4>4 DEF Hangs
    <3> QED BY <3>2, <3>4, <3>5 DEF Hangs
  <2> QED BY <2>1, <2>2
<1>11. Disk(u \cup {b}, bl2, ad)
  BY <1>3 DEF Disk
<1>12. Forest(u \cup {b}, bl2, ad, own2)
  BY <1>1, <1>7, <1>8, <1>9, <1>10 DEF Forest
<1> QED BY <1>11, <1>12 DEF bl2, bl1, own2

\* Words in a block at the leaves are not block numbers.
LEMMA LeafWritten ==
  ASSUME NEW u \in SUBSET DBlocks, NEW bl, NEW ad, NEW own, Disk(u, bl, ad), Forest(u, bl, ad, own),
         NEW b \in Data(u), own[b].h = 0, NEW v \in [Words -> Nat],
         NEW bl2, bl2 = [bl EXCEPT ![b] = v]
  PROVE  Disk(u, bl2, ad) /\ Forest(u, bl2, ad, own)
<1>1. Data(u) \subseteq DBlocks
  BY DataOnly DEF Disk
<1>2. bl2 \in [DBlocks -> [Words -> Nat]] /\ \A x \in DBlocks : x # b => bl2[x] = bl[x]
  BY DEF Disk
<1>3. EntriesLead(u, bl2, own)
  <2> SUFFICES ASSUME NEW x \in Data(u), NEW j \in Words, own[x].h > 0, bl2[x][j] # 0
               PROVE  bl2[x][j] \in Data(u) /\ own[bl2[x][j]] = HomeOf(own[x].file, own[x].h - 1, x, j)
    BY DEF EntriesLead
  <2>1. x # b
    OBVIOUS
  <2>2. bl2[x] = bl[x]
    BY <1>1, <1>2, <2>1
  <2> QED BY <2>2 DEF Forest, EntriesLead
<1>4. ASSUME NEW x \in Data(u) PROVE Hangs(x, u, bl2, ad, own)
  <2>1. Hangs(x, u, bl, ad, own)
    BY DEF Forest
  <2>2. own[x] \in Homes
    BY <1>1 DEF Forest
  <2>3. own[x].up \in Data(u) /\ own[own[x].up].h = own[x].h + 1 => bl2[own[x].up] = bl[own[x].up]
    BY <1>1, <1>2, <2>2 DEF Homes
  <2> QED BY <2>1, <2>3 DEF Hangs
<1> QED BY <1>2, <1>3, <1>4 DEF Disk, Forest

\* The blocks T under one slot leave: they have the slot, or a block of T, above
\* them, and all that indirect blocks of T name is in T.
Subtree(T, f, i, u, bl, ad, own) ==
  /\ T \subseteq Data(u)
  /\ ad[f][i] # 0 => ad[f][i] \in T
  /\ \A b \in T : \/ own[b].up = 0 /\ own[b].file = f /\ own[b].i = i
                  \/ own[b].up \in T
  /\ \A b \in T, j \in Words : own[b].h > 0 /\ bl[b][j] # 0 => bl[b][j] \in T

LEMMA SubtreeLeaves ==
  ASSUME NEW u \in SUBSET DBlocks, NEW bl, NEW ad, NEW own, Disk(u, bl, ad), Forest(u, bl, ad, own),
         NEW f \in BFiles, NEW i \in ASlots, NEW T, Subtree(T, f, i, u, bl, ad, own),
         NEW ad2, ad2 = [ad EXCEPT ![f][i] = 0]
  PROVE  Disk(u \ T, bl, ad2) /\ Forest(u \ T, bl, ad2, own)
<1>1. /\ Data(u) \subseteq DBlocks /\ 0 \in DBlocks /\ 0 \notin Data(u)
      /\ T \subseteq Data(u) /\ Data(u \ T) = Data(u) \ T
  BY DataOnly DEF Subtree, Data
<1>2. /\ ad2 \in [BFiles -> [ASlots -> DBlocks]] /\ ad2[f][i] = 0
      /\ \A g \in BFiles, j \in ASlots : <<g, j>> # <<f, i>> => ad2[g][j] = ad[g][j]
  BY <1>1 DEF Disk
<1>3. SlotsLead(u \ T, ad2, own)
  <2> SUFFICES ASSUME NEW g \in BFiles, NEW j \in ASlots, ad2[g][j] # 0
               PROVE  ad2[g][j] \in Data(u) \ T /\ own[ad2[g][j]] = HomeOf(g, Height(j), 0, j)
    BY <1>1 DEF SlotsLead
  <2>1. <<g, j>> # <<f, i>>
    BY <1>2
  <2>2. PICK b \in Data(u) : b = ad[g][j] /\ own[b] = HomeOf(g, Height(j), 0, j)
    BY <1>2, <2>1 DEF Forest, SlotsLead
  <2>3. own[b].up = 0 /\ own[b].file = g /\ own[b].i = j
    BY <2>2 DEF HomeOf
  <2>4. b \notin T
    BY <1>1, <2>1, <2>3 DEF Subtree
  <2> QED BY <1>2, <2>1, <2>2, <2>4
<1>4. EntriesLead(u \ T, bl, own)
  <2> SUFFICES ASSUME NEW x \in Data(u) \ T, NEW j \in Words, own[x].h > 0, bl[x][j] # 0
               PROVE  bl[x][j] \in Data(u) \ T /\ own[bl[x][j]] = HomeOf(own[x].file, own[x].h - 1, x, j)
    BY <1>1 DEF EntriesLead
  <2>2. PICK b \in Data(u) : b = bl[x][j] /\ own[b] = HomeOf(own[x].file, own[x].h - 1, x, j)
    BY DEF Forest, EntriesLead
  <2>3. own[b].up = x /\ x # 0
    BY <1>1, <2>2 DEF HomeOf
  <2>4. b \notin T
    BY <2>3 DEF Subtree
  <2> QED BY <2>2, <2>4
<1>5. ASSUME NEW x \in Data(u) \ T PROVE Hangs(x, u \ T, bl, ad2, own)
  <2>1. Hangs(x, u, bl, ad, own) /\ own[x] \in Homes /\ own[x].file \in BFiles
    BY <1>1 DEF Forest, Homes
  <2>2. CASE /\ own[x].up = 0 /\ own[x].i \in ASlots /\ own[x].h = Height(own[x].i)
             /\ ad[own[x].file][own[x].i] = x
    <3>1. <<own[x].file, own[x].i>> # <<f, i>>
      <4> SUFFICES ASSUME own[x].file = f, own[x].i = i PROVE FALSE
        OBVIOUS
      <4>1. ad[f][i] = x /\ x # 0
        BY <1>1, <2>2
      <4> QED BY <4>1 DEF Subtree
    <3>2. ad2[own[x].file][own[x].i] = x
      BY <1>2, <2>1, <2>2, <3>1
    <3> QED BY <2>2, <3>2 DEF Hangs
  <2>3. CASE /\ own[x].up \in Data(u) /\ own[own[x].up].h = own[x].h + 1
             /\ own[own[x].up].file = own[x].file
             /\ own[x].i \in Words /\ bl[own[x].up][own[x].i] = x
    <3> DEFINE y == own[x].up
    <3>1. own[y].h > 0 /\ x # 0
      <4>1. own[x].h \in 0..3
        BY <2>1 DEF Homes
      <4> QED BY <1>1, <2>3, <4>1
    <3>2. y \notin T
      BY <2>3, <3>1 DEF Subtree
    <3> QED BY <1>1, <2>3, <3>2 DEF Hangs
  <2> QED BY <2>1, <2>2, <2>3 DEF Hangs
<1>6. Disk(u \ T, bl, ad2)
  <2>1. 0..(NMETA - 1) \subseteq u \ T
    BY <1>1 DEF Data, Disk
  <2> QED BY <1>2, <2>1 DEF Disk
<1> QED BY <1>1, <1>3, <1>4, <1>5, <1>6 DEF Forest

\* The way from ip->addrs to a block of the file.
OnPath(p) ==
  /\ p[1] \in ASlots /\ DOMAIN p = 1..(Height(p[1]) + 1)
  /\ \A k \in 2..(Height(p[1]) + 1) : p[k] \in Words

LEMMA QuotientBelow ==
  ASSUME NEW a \in Nat, NEW m \in Nat, NEW n \in Nat \ {0}, a < m * n
  PROVE  a \div n \in 0..(m - 1)
<1> DEFINE q == a \div n  r == a % n
<1>1. q \in Nat /\ r \in 0..(n - 1) /\ a = n * q + r
  OBVIOUS
<1> HIDE DEF q, r
<1>2. q >= m => n * q >= m * n
  <2> SUFFICES ASSUME q >= m PROVE n * q >= m * n
    OBVIOUS
  <2>1. PICK d \in Nat : q = m + d
    <3>1. q - m \in Nat /\ q = m + (q - m)
      BY <1>1
    <3> QED BY <3>1
  <2>2. n * d \in Nat
    OBVIOUS
  <2>3. n * (m + d) = m * n + n * d
    OBVIOUS
  <2> QED BY <2>1, <2>2, <2>3
<1>3. m * n \in Nat /\ n * q \in Nat
  BY <1>1
<1>4. q < m
  BY <1>1, <1>2, <1>3
<1> QED BY <1>1, <1>4 DEF q

LEMMA RemainderBelow ==
  ASSUME NEW a \in Nat, NEW n \in Nat \ {0}
  PROVE  a % n \in 0..(n - 1)
OBVIOUS

\* Indices of an indirect block.
LEMMA WordsOfNumbers ==
  ASSUME NEW a \in Nat
  PROVE  /\ a % NINDIRECT \in Words
         /\ \A m \in Nat : a < m * BSIZE => a \div NINDIRECT \in 0..(m - 1)
<1>1. BSIZE \in Nat \ {0} /\ NINDIRECT = BSIZE
  BY BmapNumbers
<1>2. a % NINDIRECT \in Words
  BY <1>1, RemainderBelow DEF Words
<1>3. \A m \in Nat : a < m * BSIZE => a \div NINDIRECT \in 0..(m - 1)
  BY <1>1, QuotientBelow
<1> QED BY <1>2, <1>3

LEMMA MaxFileIs ==
  /\ D_NINDIRECT = BSIZE * BSIZE /\ T_NINDIRECT = D_NINDIRECT * BSIZE
  /\ D_NINDIRECT \in Nat \ {0} /\ T_NINDIRECT \in Nat \ {0}
  /\ T_NINDIRECT = BSIZE * D_NINDIRECT
  /\ MAXFILE = NDIRECT + BSIZE + D_NINDIRECT + T_NINDIRECT /\ MAXFILE \in Nat
<1>1. D_NINDIRECT = BSIZE * BSIZE /\ T_NINDIRECT = D_NINDIRECT * BSIZE
  BY DEF D_NINDIRECT, T_NINDIRECT, NINDIRECT
<1>2. D_NINDIRECT \in Nat \ {0}
  BY <1>1, BmapNumbers
<1>3. T_NINDIRECT \in Nat \ {0} /\ T_NINDIRECT = BSIZE * D_NINDIRECT
  BY <1>1, <1>2, BmapNumbers
<1>4. MAXFILE = NDIRECT + BSIZE + D_NINDIRECT + T_NINDIRECT
  BY DEF MAXFILE, NINDIRECT
<1>5. MAXFILE \in Nat
  BY <1>2, <1>3, <1>4, BmapNumbers
<1> QED BY <1>1, <1>2, <1>3, <1>4, <1>5

LEMMA PathIs ==
  ASSUME NEW bn \in 0..(MAXFILE - 1)
  PROVE  OnPath(Path(bn))
<1> DEFINE b1 == bn - NDIRECT  b2 == b1 - NINDIRECT  b3 == b2 - D_NINDIRECT
           p == Path(bn)
<1>1. /\ b1 = bn - NDIRECT /\ b2 = b1 - BSIZE /\ b3 = b2 - D_NINDIRECT
      /\ b1 \in Int /\ b2 \in Int /\ b3 \in Int /\ bn \in Nat /\ b3 < T_NINDIRECT
  BY MaxFileIs, BmapNumbers
<1>2. CASE b1 < 0
  <2>1. p = <<bn>>
    BY <1>1, <1>2, MaxFileIs, BmapNumbers DEF Path
  <2>2. bn \in ASlots /\ Height(bn) = 0
    BY <1>1, <1>2, BmapNumbers, HeightIs DEF ASlots
  <2> QED BY <2>1, <2>2 DEF OnPath
<1>3. CASE b1 \in 0..(NINDIRECT - 1)
  <2>1. p = <<NDIRECT, b1>>
    BY <1>1, <1>3, MaxFileIs, BmapNumbers DEF Path
  <2>2. NDIRECT \in ASlots /\ Height(NDIRECT) = 1 /\ b1 \in Words
    BY <1>1, <1>3, BmapNumbers, HeightIs DEF ASlots, Words
  <2> HIDE DEF p, b1
  <2>3. OnPath(p)
    BY <2>1, <2>2 DEF OnPath
  <2> QED BY <2>3 DEF p
<1>4. CASE b2 \in 0..(D_NINDIRECT - 1)
  <2> DEFINE x == b2 \div NINDIRECT  y == b2 % NINDIRECT
  <2>1. p = <<D_NINDIRECT_ADRS, x, y>>
    BY <1>1, <1>4, MaxFileIs, BmapNumbers DEF Path
  <2>2. D_NINDIRECT_ADRS \in ASlots /\ Height(D_NINDIRECT_ADRS) = 2
    BY BmapNumbers, HeightIs DEF ASlots
  <2>3. b2 \in Nat /\ b2 < BSIZE * BSIZE
    BY <1>1, <1>4, MaxFileIs
  <2> HIDE DEF b2
  <2>4. x \in Words
    BY <2>3, WordsOfNumbers, BmapNumbers DEF Words
  <2>5. y \in Words
    BY <2>3, WordsOfNumbers
  <2> HIDE DEF p, x, y
  <2>6. OnPath(p)
    BY <2>1, <2>2, <2>4, <2>5 DEF OnPath
  <2> QED BY <2>6 DEF p
<1>5. CASE b3 >= 0
  <2> DEFINE m == b3 % D_NINDIRECT
             x == b3 \div D_NINDIRECT  y == m \div NINDIRECT  z == b3 % NINDIRECT
  <2>1. p = <<T_NINDIRECT_ADRS, x, y, z>>
    <3>1. ~(b1 < 0) /\ b1 \notin 0..(NINDIRECT - 1) /\ b2 \notin 0..(D_NINDIRECT - 1)
      BY <1>1, <1>5, MaxFileIs, BmapNumbers
    <3> QED BY <1>5, <3>1 DEF Path
  <2>2. T_NINDIRECT_ADRS \in ASlots /\ Height(T_NINDIRECT_ADRS) = 3
    BY BmapNumbers, HeightIs DEF ASlots
  <2>3. b3 \in Nat /\ b3 < BSIZE * D_NINDIRECT
    BY <1>1, <1>5, MaxFileIs
  <2> HIDE DEF b3
  <2>4. x \in Words
    BY <2>3, QuotientBelow, BmapNumbers, MaxFileIs DEF Words
  <2>5. m \in Nat /\ m < BSIZE * BSIZE
    <3>1. m \in 0..(D_NINDIRECT - 1)
      BY <2>3, MaxFileIs
    <3> HIDE DEF m
    <3> QED BY <3>1, MaxFileIs
  <2>6. z \in Words
    BY <2>3, WordsOfNumbers
  <2> HIDE DEF m
  <2>7. y \in Words
    BY <2>5, WordsOfNumbers, BmapNumbers DEF Words
  <2> HIDE DEF p, x, y, z
  <2>8. OnPath(p)
    BY <2>1, <2>2, <2>4, <2>6, <2>7 DEF OnPath
  <2> QED BY <2>8 DEF p
<1>6. b1 < 0 \/ b1 \in 0..(NINDIRECT - 1) \/ b2 \in 0..(D_NINDIRECT - 1) \/ b3 >= 0
  BY <1>1, MaxFileIs, BmapNumbers
<1> QED BY <1>2, <1>3, <1>4, <1>5, <1>6

\* bmap() goes down one level after the other.
WalkFrom(c, p) == FoldLeft(Descend, c, p)
Walks(g, c, p, n) ==
  /\ g[0] = c /\ \A k \in 1..n : g[k] = Descend(g[k - 1], p[k])
  /\ WalkFrom(c, p) = g[n]

LEMMA WalkSteps ==
  ASSUME NEW c, NEW n \in 1..4, NEW p, DOMAIN p = 1..n
  PROVE  \E g : Walks(g, c, p, n)
<1> DEFINE D == 1..n
           C1(u) == IF 1 \in u THEN Descend(c, p[1]) ELSE c
           C2(u) == IF 2 \in u THEN Descend(C1(u), p[2]) ELSE C1(u)
           C3(u) == IF 3 \in u THEN Descend(C2(u), p[3]) ELSE C2(u)
           C4(u) == IF 4 \in u THEN Descend(C3(u), p[4]) ELSE C3(u)
           IsFold(f) == f = [u \in SUBSET (1..n) |->
                           IF u = {} THEN c ELSE Descend(f[u \ {Max(u)}], p[Max(u)])]
           h == [u \in SUBSET (1..n) |-> C4(u)]
           g == CHOOSE f : IsFold(f)
<1>1. IsFold(h)
  <2>1. ASSUME NEW u \in SUBSET (1..n), u # {}
        PROVE  C4(u) = Descend(C4(u \ {Max(u)}), p[Max(u)])
    <3>1. Max(u) \in u /\ \A k \in u : k <= Max(u)
      BY <2>1, GreatestNumber
    <3>2. u \subseteq 1..4 /\ Max(u) \in 1..4
      <4>1. 1..n \subseteq 1..4
        OBVIOUS
      <4> QED BY <3>1, <4>1
    <3> DEFINE m == Max(u)  v == u \ {m}
    <3>3. m \notin v /\ \A k \in 1..4 : k # m => (k \in v <=> k \in u)
      OBVIOUS
    <3>4. m \in u /\ \A k \in 1..4 : k > m => k \notin u /\ k \notin v
      BY <3>1, <3>2
    <3>5. m \in 1..4
      BY <3>2
    <3> HIDE DEF m, v
    <3>10. C4(u) = Descend(C4(v), p[m])
      <4>1. CASE m = 1
        BY <3>3, <3>4, <4>1
      <4>2. CASE m = 2
        BY <3>3, <3>4, <4>2
      <4>3. CASE m = 3
        BY <3>3, <3>4, <4>3
      <4>4. CASE m = 4
        BY <3>3, <3>4, <4>4
      <4> QED BY <3>5, <4>1, <4>2, <4>3, <4>4
    <3> QED BY <3>10 DEF m, v
  <2>2. C4({}) = c
    OBVIOUS
  <2> HIDE DEF C4
  <2>3. \A u \in SUBSET (1..n) : h[u] = IF u = {} THEN c ELSE Descend(h[u \ {Max(u)}], p[Max(u)])
    BY <2>1, <2>2
  <2> QED BY <2>3
<1>2. IsFold(g)
  BY <1>1
<1>3. WalkFrom(c, p) = g[1..n]
  BY DEF WalkFrom, FoldLeft, MapThenFoldSet
<1> HIDE DEF g
<1>4. g[1..0] = c
  BY <1>2
<1>5. \A i \in 1..n : g[1..i] = Descend(g[1..(i - 1)], p[i])
  <2> TAKE i \in 1..n
  <2> DEFINE u == 1..i
  <2>1. u \in SUBSET (1..n) /\ u # {} /\ Max(u) = i /\ u \ {Max(u)} = 1..(i - 1)
    BY Intervals
  <2> HIDE DEF u
  <2>2. g[u] = Descend(g[u \ {Max(u)}], p[Max(u)])
    BY <1>2, <2>1
  <2>3. g[u] = Descend(g[1..(i - 1)], p[i])
    BY <2>1, <2>2
  <2> QED BY <2>3 DEF u
<1> DEFINE t == [i \in 0..n |-> g[1..i]]
<1>6. t[0] = c /\ (\A k \in 1..n : t[k] = Descend(t[k - 1], p[k])) /\ t[n] = g[1..n]
  BY <1>4, <1>5
<1> HIDE DEF t, h
<1>7. Walks(t, c, p, n)
  BY <1>3, <1>6 DEF Walks
<1> QED BY <1>7
-----------------------------------------------------------------------------
\* The blocks on path x below the slots `row' of a file: the k-th one, and that
\* the first k are there.
Lead(row, bl, x, k) ==
  CASE k = 1 -> row[x[1]]
    [] k = 2 -> bl[row[x[1]]][x[2]]
    [] k = 3 -> bl[bl[row[x[1]]][x[2]]][x[3]]
    [] k = 4 -> bl[bl[bl[row[x[1]]][x[2]]][x[3]]][x[4]]
Led(row, bl, x, k) == \A j \in 1..k : Lead(row, bl, x, j) # 0

LEMMA LeadIs ==
  ASSUME NEW row, NEW bl, NEW x
  PROVE  /\ Lead(row, bl, x, 1) = row[x[1]]
         /\ \A k \in 1..3 : Lead(row, bl, x, k + 1) = bl[Lead(row, bl, x, k)][x[k + 1]]
<1>1. /\ Lead(row, bl, x, 1) = row[x[1]]
      /\ Lead(row, bl, x, 2) = bl[Lead(row, bl, x, 1)][x[2]]
      /\ Lead(row, bl, x, 3) = bl[Lead(row, bl, x, 2)][x[3]]
      /\ Lead(row, bl, x, 4) = bl[Lead(row, bl, x, 3)][x[4]]
  BY DEF Lead
<1>2. \A k \in 1..3 : k = 1 \/ k = 2 \/ k = 3
  OBVIOUS
<1>3. 1 + 1 = 2 /\ 2 + 1 = 3 /\ 3 + 1 = 4
  OBVIOUS
<1> QED BY <1>1, <1>2, <1>3

\* Where the k-th block hangs.
LeadHome(b, f, x, k, row, bl, own, u) ==
  /\ b \in Data(u)
  /\ own[b] = HomeOf(f, Height(x[1]) + 1 - k, IF k = 1 THEN 0 ELSE Lead(row, bl, x, k - 1), x[k])

LEMMA LeadHomes ==
  ASSUME NEW u, NEW bl, NEW ad, NEW own, Forest(u, bl, ad, own), NEW f \in BFiles,
         NEW x, OnPath(x), NEW k \in 1..4, k <= Height(x[1]) + 1, Led(ad[f], bl, x, k)
  PROVE  \A j \in 1..k : LeadHome(Lead(ad[f], bl, x, j), f, x, j, ad[f], bl, own, u)
<1> DEFINE L(j) == Lead(ad[f], bl, x, j)  H == Height(x[1])
           Good(j) == LeadHome(L(j), f, x, j, ad[f], bl, own, u)
<1>0. x[1] \in ASlots /\ H \in 0..3 /\ \A j \in 2..(H + 1) : x[j] \in Words
  BY HeightIs DEF OnPath
<1>1. L(1) # 0 /\ L(1) = ad[f][x[1]]
  BY LeadIs DEF Led
<1>2. Good(1)
  <2>1. L(1) \in Data(u) /\ own[L(1)] = HomeOf(f, H, 0, x[1])
    BY <1>0, <1>1 DEF Forest, SlotsLead
  <2>2. H + 1 - 1 = H
    BY <1>0
  <2> QED BY <2>1, <2>2 DEF LeadHome
<1>3. ASSUME NEW j \in 1..3, j + 1 <= k, Good(j) PROVE Good(j + 1)
  <2> DEFINE b == L(j)  e == L(j + 1)  up == IF j = 1 THEN 0 ELSE L(j - 1)
  <2>1. b \in Data(u) /\ own[b] = HomeOf(f, H + 1 - j, up, x[j])
    BY <1>3 DEF LeadHome
  <2> HIDE DEF b, up
  <2>2. own[b].file = f /\ own[b].h = H + 1 - j
    BY <2>1 DEF HomeOf
  <2>3. e = bl[b][x[j + 1]] /\ e # 0 /\ x[j + 1] \in Words /\ own[b].h > 0
    <3>1. e # 0
      BY <1>3 DEF Led
    <3>2. e = bl[b][x[j + 1]]
      BY LeadIs DEF b
    <3>3. x[j + 1] \in Words
      BY <1>0, <1>3
    <3> QED BY <1>0, <1>3, <2>2, <3>1, <3>2, <3>3
  <2> HIDE DEF e
  <2>4. e \in Data(u) /\ own[e] = HomeOf(own[b].file, own[b].h - 1, b, x[j + 1])
    BY <2>1, <2>3 DEF Forest, EntriesLead
  <2>5. own[b].h - 1 = H + 1 - (j + 1) /\ (j + 1) - 1 = j /\ j + 1 # 1
    BY <1>0, <2>2
  <2>6. own[e] = HomeOf(f, H + 1 - (j + 1), IF j + 1 = 1 THEN 0 ELSE L((j + 1) - 1), x[j + 1])
    BY <2>2, <2>4, <2>5 DEF b
  <2> QED BY <2>4, <2>6 DEF LeadHome, e
<1> HIDE DEF Good
<1>4. k >= 2 => Good(2)
  <2>1. 1 + 1 = 2
    OBVIOUS
  <2> QED BY <1>2, <1>3, <2>1
<1>5. k >= 3 => Good(3)
  <2>1. 2 + 1 = 3
    OBVIOUS
  <2> QED BY <1>4, <1>3, <2>1
<1>6. k >= 4 => Good(4)
  <2>1. 3 + 1 = 4
    OBVIOUS
  <2> QED BY <1>5, <1>3, <2>1
<1>7. \A j \in 1..k : Good(j)
  BY <1>2, <1>4, <1>5, <1>6
<1> QED BY <1>7 DEF Good

\* What a walk leaves alone: whatever a slot or an entry names, and the words.
Kept(u, bl, ad, own, u2, bl2, ad2, own2) ==
  /\ Data(u) \subseteq Data(u2)
  /\ \A b \in Data(u) : own2[b] = own[b]
  /\ \A f \in BFiles, i \in ASlots : ad[f][i] # 0 => ad2[f][i] = ad[f][i]
  /\ \A b \in Data(u) : /\ own[b].h = 0 => bl2[b] = bl[b]
                        /\ \A i \in Words : own[b].h > 0 /\ bl[b][i] # 0 => bl2[b][i] = bl[b][i]

\* The part of it that paths depend on.
TreeKept(u, bl, ad, own, bl2, ad2) ==
  /\ \A f \in BFiles, i \in ASlots : ad[f][i] # 0 => ad2[f][i] = ad[f][i]
  /\ \A b \in Data(u), i \in Words : own[b].h > 0 /\ bl[b][i] # 0 => bl2[b][i] = bl[b][i]

LEMMA KeptSame ==
  ASSUME NEW u, NEW bl, NEW ad, NEW own
  PROVE  Kept(u, bl, ad, own, u, bl, ad, own)
BY DEF Kept

LEMMA KeptTree ==
  ASSUME NEW u, NEW bl, NEW ad, NEW own, NEW u2, NEW bl2, NEW ad2, NEW own2,
         Kept(u, bl, ad, own, u2, bl2, ad2, own2)
  PROVE  TreeKept(u, bl, ad, own, bl2, ad2)
BY DEF Kept, TreeKept

LEMMA KeptTwice ==
  ASSUME NEW u, NEW bl, NEW ad, NEW own, NEW u2, NEW bl2, NEW ad2, NEW own2,
         NEW u3, NEW bl3, NEW ad3, NEW own3,
         Kept(u, bl, ad, own, u2, bl2, ad2, own2), Kept(u2, bl2, ad2, own2, u3, bl3, ad3, own3)
  PROVE  Kept(u, bl, ad, own, u3, bl3, ad3, own3)
<1>1. \A b \in Data(u) : b \in Data(u2) /\ own2[b] = own[b]
  BY DEF Kept
<1>2. Data(u) \subseteq Data(u3) /\ \A b \in Data(u) : own3[b] = own[b]
  BY <1>1 DEF Kept
<1>3. ASSUME NEW f \in BFiles, NEW i \in ASlots, ad[f][i] # 0 PROVE ad3[f][i] = ad[f][i]
  <2>1. ad2[f][i] = ad[f][i]
    BY <1>3 DEF Kept
  <2>2. ad3[f][i] = ad2[f][i]
    BY <1>3, <2>1 DEF Kept
  <2> QED BY <2>1, <2>2
<1>4. ASSUME NEW b \in Data(u), own[b].h = 0 PROVE bl3[b] = bl[b]
  <2>1. bl2[b] = bl[b]
    BY <1>4 DEF Kept
  <2>2. bl3[b] = bl2[b]
    BY <1>1, <1>4 DEF Kept
  <2> QED BY <2>1, <2>2
<1>5. ASSUME NEW b \in Data(u), NEW i \in Words, own[b].h > 0, bl[b][i] # 0 PROVE bl3[b][i] = bl[b][i]
  <2>1. bl2[b][i] = bl[b][i]
    BY <1>5 DEF Kept
  <2>2. bl3[b][i] = bl2[b][i]
    BY <1>1, <1>5, <2>1 DEF Kept
  <2> QED BY <2>1, <2>2
<1> QED BY <1>2, <1>3, <1>4, <1>5 DEF Kept

\* A path that is there stays.
LEMMA LedKept ==
  ASSUME NEW u, NEW bl, NEW ad, NEW own, Forest(u, bl, ad, own),
         NEW bl2, NEW ad2, TreeKept(u, bl, ad, own, bl2, ad2),
         NEW f \in BFiles, NEW x, OnPath(x), NEW k \in 1..4, k <= Height(x[1]) + 1, Led(ad[f], bl, x, k)
  PROVE  /\ Led(ad2[f], bl2, x, k)
         /\ \A j \in 1..k : Lead(ad2[f], bl2, x, j) = Lead(ad[f], bl, x, j)
<1> DEFINE L(j) == Lead(ad[f], bl, x, j)  M(j) == Lead(ad2[f], bl2, x, j)  H == Height(x[1])
<1>0. x[1] \in ASlots /\ H \in 0..3 /\ \A j \in 2..(H + 1) : x[j] \in Words
  BY HeightIs DEF OnPath
<1>1. \A j \in 1..k : LeadHome(L(j), f, x, j, ad[f], bl, own, u)
  BY LeadHomes
<1>2. M(1) = L(1)
  <2>1. L(1) # 0 /\ L(1) = ad[f][x[1]] /\ M(1) = ad2[f][x[1]]
    BY LeadIs DEF Led
  <2> HIDE DEF L, M
  <2> QED BY <1>0, <2>1 DEF TreeKept
<1>3. ASSUME NEW j \in 1..3, j + 1 <= k, M(j) = L(j) PROVE M(j + 1) = L(j + 1)
  <2> DEFINE b == L(j)  i == x[j + 1]
  <2>1. b \in Data(u) /\ own[b] = HomeOf(f, H + 1 - j, IF j = 1 THEN 0 ELSE L(j - 1), x[j])
    <3>1. j \in 1..k
      BY <1>3
    <3> QED BY <1>1, <3>1 DEF LeadHome
  <2>2. own[b].h > 0
    <3>1. own[b].h = H + 1 - j
      BY <2>1 DEF HomeOf
    <3> QED BY <1>0, <1>3, <3>1
  <2>3. i \in Words
    BY <1>0, <1>3
  <2>4. L(j + 1) # 0 /\ L(j + 1) = bl[b][i] /\ M(j + 1) = bl2[M(j)][i]
    <3>1. L(j + 1) # 0
      BY <1>3 DEF Led
    <3> QED BY <3>1, LeadIs
  <2> HIDE DEF b, i, L, M
  <2>5. bl2[b][i] = bl[b][i]
    BY <2>1, <2>2, <2>3, <2>4 DEF TreeKept
  <2> QED BY <1>3, <2>4, <2>5 DEF b
<1>4. \A j \in 1..k : M(j) = L(j)
  <2> HIDE DEF L, M
  <2>1. 1 + 1 = 2 /\ 2 + 1 = 3 /\ 3 + 1 = 4
    OBVIOUS
  <2>2. k >= 2 => M(2) = L(2)
    BY <1>2, <1>3, <2>1
  <2>3. k >= 3 => M(3) = L(3)
    BY <2>2, <1>3, <2>1
  <2>4. k >= 4 => M(4) = L(4)
    BY <2>3, <1>3, <2>1
  <2> QED BY <1>2, <2>2, <2>3, <2>4
<1> QED BY <1>4 DEF Led

\* Where the walk of file f towards slot i's leaves is after k levels.
WalkStates ==
  [s : [used : SUBSET DBlocks, block : [DBlocks -> [Words -> Nat]]],
   addrs : [ASlots -> DBlocks], at : DBlocks, full : BOOLEAN]

Stands(c, f, i, k, own) ==
  IF k = 0 THEN c.at = 0
  ELSE c.at \in Data(c.s.used) /\ own[c.at].file = f /\ own[c.at].h = Height(i) + 1 - k

\* `from' is the disk and the homes before the walk.
Reached(c, from, f, x, k) ==
  /\ c \in WalkStates
  /\ ~c.full => \E own : LET a == [from.ad EXCEPT ![f] = c.addrs] IN
       /\ Disk(c.s.used, c.s.block, a) /\ Forest(c.s.used, c.s.block, a, own)
       /\ Stands(c, f, x[1], k, own)
       /\ Kept(from.u, from.bl, from.ad, from.own, c.s.used, c.s.block, a, own)
       /\ Led(c.addrs, c.s.block, x, k) /\ (k > 0 => c.at = Lead(c.addrs, c.s.block, x, k))

LEMMA DataGrows ==
  ASSUME NEW u, NEW b \in DBlocks, 0..(NMETA - 1) \subseteq u, b \notin u
  PROVE  b \in Data(u \cup {b})
BY DEF Data

\* The block is there.
LEMMA DescendFound ==
  ASSUME NEW from, NEW f \in BFiles, NEW p, OnPath(p), NEW k \in 0..3, k <= Height(p[1]),
         NEW c, Reached(c, from, f, p, k), ~c.full,
         NEW e, e = (IF c.at = 0 THEN c.addrs[p[k + 1]] ELSE c.s.block[c.at][p[k + 1]]), e # 0,
         NEW d, d = [c EXCEPT !.at = e]
  PROVE  Reached(d, from, f, p, k + 1)
<1> DEFINE u == c.s.used  bl == c.s.block  a == [from.ad EXCEPT ![f] = c.addrs]  i == p[1]  x == p[k + 1]
<1>0. i \in ASlots /\ Height(i) \in 0..3 /\ (k = 0 => x = i) /\ (k # 0 => x \in Words)
  <2>1. k # 0 => k + 1 \in 2..(Height(i) + 1)
    BY HeightIs DEF OnPath
  <2> QED BY <2>1, HeightIs DEF OnPath
<1>1. PICK own : /\ Disk(u, bl, a) /\ Forest(u, bl, a, own) /\ Stands(c, f, i, k, own)
                 /\ Kept(from.u, from.bl, from.ad, from.own, u, bl, a, own)
                 /\ Led(c.addrs, bl, p, k) /\ (k > 0 => c.at = Lead(c.addrs, bl, p, k))
  BY DEF Reached
<1>2. /\ u \in SUBSET DBlocks /\ c.addrs \in [ASlots -> DBlocks] /\ c.at \in DBlocks /\ c \in WalkStates
      /\ a \in [BFiles -> [ASlots -> DBlocks]]
  BY <1>1 DEF Reached, WalkStates, Disk
<1>3. 0 \notin Data(u) /\ Data(u) \subseteq DBlocks /\ 0 \in DBlocks
  BY <1>1, <1>2, DataOnly DEF Disk
<1>9. a[f] = c.addrs
  <2>1. f \in DOMAIN from.ad
    BY <1>2
  <2> QED BY <2>1
<1> HIDE DEF u, bl, a, i, x
<1>4. /\ e \in Data(u) /\ own[e].file = f /\ own[e].h = Height(i) - k
      /\ e = IF k = 0 THEN c.addrs[x] ELSE bl[c.at][x]
  <2>1. CASE k = 0
    <3>1. c.at = 0 /\ x = i
      BY <1>0, <1>1, <2>1 DEF Stands
    <3>2. e = a[f][i] /\ e = c.addrs[x]
      BY <3>1, <1>9 DEF x
    <3>3. e \in Data(u) /\ own[e] = HomeOf(f, Height(i), 0, i)
      BY <1>0, <1>1, <3>2 DEF Forest, SlotsLead
    <3>4. own[e].file = f /\ own[e].h = Height(i)
      BY <3>3 DEF HomeOf
    <3> QED BY <1>0, <2>1, <3>2, <3>3, <3>4
  <2>2. CASE k # 0
    <3> DEFINE b == c.at  h == own[b].h
    <3>1. b \in Data(u) /\ own[b].file = f /\ h = Height(i) + 1 - k /\ x \in Words
      BY <1>0, <1>1, <2>2 DEF Stands, u
    <3>2. b # 0 /\ h > 0
      BY <1>0, <1>3, <3>1 DEF i
    <3>3. e = bl[b][x]
      BY <3>2 DEF bl, x
    <3>4. e \in Data(u) /\ own[e] = HomeOf(own[b].file, h - 1, b, x)
      BY <1>1, <3>1, <3>2, <3>3 DEF Forest, EntriesLead
    <3> HIDE DEF b, h
    <3>5. own[e].file = own[b].file /\ own[e].h = h - 1
      BY <3>4 DEF HomeOf, h
    <3>6. h - 1 = Height(i) - k
      BY <1>0, <3>1
    <3> QED BY <2>2, <3>1, <3>3, <3>4, <3>5, <3>6 DEF b
  <2> QED BY <2>1, <2>2
<1>5. d.s = c.s /\ d.addrs = c.addrs /\ d.at = e /\ d.full = c.full /\ d \in WalkStates
  BY <1>2, <1>3, <1>4 DEF WalkStates
<1>6. Stands(d, f, i, k + 1, own)
  <2> DEFINE H == Height(i)  h == own[e].h
  <2>1. h = H - k
    BY <1>4
  <2>2. H \in 0..3 /\ k \in 0..3
    BY <1>0
  <2> HIDE DEF H, h
  <2>3. h = H + 1 - (k + 1)
    BY ONLY <2>1, <2>2
  <2>4. d.at = e /\ e \in Data(d.s.used) /\ own[e].file = f
    BY <1>4, <1>5 DEF u
  <2>5. own[d.at].h = Height(i) + 1 - (k + 1) /\ k + 1 # 0
    BY <2>3, <2>4 DEF H, h
  <2> HIDE DEF i
  <2> QED BY ONLY <2>4, <2>5 DEF Stands
<1>8. Led(c.addrs, bl, p, k + 1) /\ e = Lead(c.addrs, bl, p, k + 1)
  <2>1. k = 0 \/ k \in 1..3
    OBVIOUS
  <2>2. e = Lead(c.addrs, bl, p, k + 1)
    BY <1>0, <1>1, <1>4, <2>1, LeadIs DEF x, i
  <2>3. \A j \in 1..(k + 1) : j = k + 1 \/ j \in 1..k
    OBVIOUS
  <2> QED BY <1>1, <2>2, <2>3 DEF Led
<1>7. \E o : LET z == [from.ad EXCEPT ![f] = d.addrs] IN
       /\ Disk(d.s.used, d.s.block, z) /\ Forest(d.s.used, d.s.block, z, o)
       /\ Stands(d, f, p[1], k + 1, o)
       /\ Kept(from.u, from.bl, from.ad, from.own, d.s.used, d.s.block, z, o)
       /\ Led(d.addrs, d.s.block, p, k + 1) /\ (k + 1 > 0 => d.at = Lead(d.addrs, d.s.block, p, k + 1))
  BY <1>1, <1>5, <1>6, <1>8 DEF u, bl, a, i
<1> QED BY <1>5, <1>7 DEF Reached

\* The block is allocated, in ip->addrs ...
LEMMA DescendRoot ==
  ASSUME NEW from, NEW f \in BFiles, NEW p, OnPath(p),
         NEW c, Reached(c, from, f, p, 0), ~c.full, c.addrs[p[1]] = 0,
         NEW b \in FreeBlocks(c.s),
         NEW d, d = [c EXCEPT !.at = b, !.s = Claim(c.s, b), !.addrs = [@ EXCEPT ![p[1]] = b]]
  PROVE  Reached(d, from, f, p, 1)
<1> DEFINE u == c.s.used  bl == c.s.block  a == [from.ad EXCEPT ![f] = c.addrs]  i == p[1]
           bl2 == [bl EXCEPT ![b] = Zero]  a2 == [a EXCEPT ![f][i] = b]
           r2 == [c.addrs EXCEPT ![i] = b]
<1>0. i \in ASlots
  BY DEF OnPath
<1>1. PICK own : /\ Disk(u, bl, a) /\ Forest(u, bl, a, own)
                 /\ Kept(from.u, from.bl, from.ad, from.own, u, bl, a, own)
  BY DEF Reached
<1>2. /\ u \in SUBSET DBlocks /\ c.addrs \in [ASlots -> DBlocks] /\ c \in WalkStates
      /\ bl \in [DBlocks -> [Words -> Nat]]
      /\ a \in [BFiles -> [ASlots -> DBlocks]] /\ a[f] = c.addrs
      /\ b \in DBlocks /\ b \notin u
  <2>1. u \in SUBSET DBlocks /\ c.addrs \in [ASlots -> DBlocks] /\ c \in WalkStates
    BY DEF Reached, WalkStates
  <2>2. a \in [BFiles -> [ASlots -> DBlocks]] /\ bl \in [DBlocks -> [Words -> Nat]]
    BY <1>1 DEF Disk
  <2>3. a[f] = c.addrs
    <3>1. f \in DOMAIN from.ad
      BY <1>1, <2>2
    <3> QED BY <3>1
  <2>4. b \in DBlocks /\ b \notin u
    BY DEF FreeBlocks
  <2> QED BY <2>1, <2>2, <2>3, <2>4
<1>3. a2 = [from.ad EXCEPT ![f] = r2]
  BY <1>2
<1> DEFINE own2 == [own EXCEPT ![b] = HomeOf(f, Height(i), 0, i)]
<1>a. bl2 = [bl EXCEPT ![b] = Zero] /\ a2 = [a EXCEPT ![f][i] = b]
      /\ own2 = [own EXCEPT ![b] = HomeOf(f, Height(i), 0, i)] /\ a[f][i] = 0
  BY <1>2
<1>4. Disk(u \cup {b}, bl2, a2) /\ Forest(u \cup {b}, bl2, a2, own2)
  <2> HIDE DEF u, bl, a, bl2, a2, own2, i
  <2> QED BY <1>0, <1>1, <1>2, <1>a, RootGrown
<1>5. d.s.used = u \cup {b} /\ d.s.block = bl2 /\ d.addrs = r2 /\ d.at = b /\ d.full = c.full
  BY <1>2 DEF Claim, WalkStates
<1>6. d \in WalkStates
  <2>1. bl2 \in [DBlocks -> [Words -> Nat]] /\ r2 \in [ASlots -> DBlocks]
    <3>1. Zero \in [Words -> Nat]
      BY DEF Zero, Words
    <3> QED BY <1>2, <3>1
  <2> QED BY <1>2, <2>1 DEF WalkStates, Claim
<1>7. Stands(d, f, i, 1, own2)
  <2>1. b \in Data(u \cup {b})
    BY <1>1, <1>2, DataGrows DEF Disk
  <2>2. own2[b] = HomeOf(f, Height(i), 0, i)
    BY <1>1, <1>2 DEF Forest
  <2>3. own2[b].file = f /\ own2[b].h = Height(i) + 1 - 1
    BY <1>0, <2>2, HeightIs DEF HomeOf
  <2> QED BY <1>5, <2>1, <2>3 DEF Stands
<1>9. Kept(u, bl, a, own, u \cup {b}, bl2, a2, own2)
  <2>1. /\ Data(u) \subseteq Data(u \cup {b}) /\ b \notin Data(u) /\ Data(u) \subseteq DBlocks
    BY <1>1, <1>2, DataOnly DEF Data, Disk
  <2>2. own \in [DBlocks -> Homes]
    BY <1>1 DEF Forest
  <2>3. \A x \in Data(u) : own2[x] = own[x] /\ bl2[x] = bl[x]
    BY <1>2, <2>1, <2>2
  <2>4. ASSUME NEW g \in BFiles, NEW j \in ASlots, a[g][j] # 0 PROVE a2[g][j] = a[g][j]
    <3>1. ~(g = f /\ j = i)
      BY <1>a, <2>4
    <3> HIDE DEF a, a2, i, bl, bl2, own2
    <3> QED BY <1>0, <1>2, <1>a, <3>1
  <2> HIDE DEF own2, bl2, a2, a, bl, u
  <2> QED BY <2>1, <2>3, <2>4 DEF Kept
<1>10. Led(r2, bl2, p, 1) /\ b = Lead(r2, bl2, p, 1)
  <2>1. Lead(r2, bl2, p, 1) = b
    BY <1>0, <1>2, LeadIs
  <2>2. b # 0
    BY <1>1, <1>2, DataOnly DEF Disk
  <2>3. \A j \in 1..1 : j = 1
    OBVIOUS
  <2> QED BY <2>1, <2>2, <2>3 DEF Led
<1>11. Kept(from.u, from.bl, from.ad, from.own, u \cup {b}, bl2, a2, own2)
  <2> HIDE DEF u, bl, a, bl2, a2, own2
  <2> QED BY <1>1, <1>9, KeptTwice
<1>8. \E o : LET z == [from.ad EXCEPT ![f] = d.addrs] IN
       /\ Disk(d.s.used, d.s.block, z) /\ Forest(d.s.used, d.s.block, z, o)
       /\ Stands(d, f, p[1], 1, o)
       /\ Kept(from.u, from.bl, from.ad, from.own, d.s.used, d.s.block, z, o)
       /\ Led(d.addrs, d.s.block, p, 1) /\ (1 > 0 => d.at = Lead(d.addrs, d.s.block, p, 1))
  <2> HIDE DEF u, bl, a, bl2, a2, own2, r2
  <2> QED BY <1>3, <1>4, <1>5, <1>7, <1>10, <1>11
<1> QED BY <1>6, <1>8 DEF Reached

\* ... or in the indirect block.
LEMMA DescendEntry ==
  ASSUME NEW from, NEW f \in BFiles, NEW p, OnPath(p), NEW k \in 1..3, k <= Height(p[1]),
         NEW c, Reached(c, from, f, p, k), ~c.full, NEW x, x = p[k + 1], c.s.block[c.at][x] = 0,
         NEW b \in FreeBlocks(c.s),
         NEW d, d = [c EXCEPT !.at = b, !.s = [Claim(c.s, b) EXCEPT !.block[c.at][x] = b]]
  PROVE  Reached(d, from, f, p, k + 1)
<1> DEFINE u == c.s.used  bl == c.s.block  a == [from.ad EXCEPT ![f] = c.addrs]  q == c.at  i == p[1]
           bl1 == [bl EXCEPT ![b] = Zero]  bl2 == [bl1 EXCEPT ![q][x] = b]
<1>0. i \in ASlots /\ Height(i) \in 0..3 /\ x \in Words /\ k <= Height(i)
  <2>1. k + 1 \in 2..(Height(i) + 1)
    BY HeightIs DEF OnPath
  <2> QED BY <2>1, HeightIs DEF OnPath
<1>1. PICK own : /\ Disk(u, bl, a) /\ Forest(u, bl, a, own) /\ Stands(c, f, i, k, own)
                 /\ Kept(from.u, from.bl, from.ad, from.own, u, bl, a, own)
                 /\ Led(c.addrs, bl, p, k) /\ q = Lead(c.addrs, bl, p, k)
  BY DEF Reached
<1>2. /\ u \in SUBSET DBlocks /\ c.addrs \in [ASlots -> DBlocks] /\ c \in WalkStates
      /\ bl \in [DBlocks -> [Words -> Nat]] /\ a[f] = c.addrs
      /\ b \in DBlocks /\ b \notin u
  <2>1. u \in SUBSET DBlocks /\ c.addrs \in [ASlots -> DBlocks] /\ c \in WalkStates
    BY DEF Reached, WalkStates
  <2>2. bl \in [DBlocks -> [Words -> Nat]] /\ a \in [BFiles -> [ASlots -> DBlocks]]
    BY <1>1 DEF Disk
  <2>3. a[f] = c.addrs
    <3>1. f \in DOMAIN from.ad
      BY <1>1, <2>2
    <3> QED BY <3>1
  <2>4. b \in DBlocks /\ b \notin u
    BY DEF FreeBlocks
  <2> QED BY <2>1, <2>2, <2>3, <2>4
<1>3. /\ q \in Data(u) /\ q \in DBlocks /\ own[q].file = f /\ own[q].h = Height(i) + 1 - k
      /\ own[q].h > 0
  <2> HIDE DEF i
  <2>1. q \in Data(u) /\ own[q].file = f /\ own[q].h = Height(i) + 1 - k
    BY <1>1 DEF Stands
  <2>2. own[q].h > 0
    BY <1>0, <2>1
  <2> QED BY <1>1, <1>2, <2>1, <2>2, DataOnly DEF Disk
<1> DEFINE own2 == HomeAt(own, q, x, b)
<1>4. Disk(u \cup {b}, bl2, a) /\ Forest(u \cup {b}, bl2, a, own2)
  <2>1. bl[q][x] = 0
    OBVIOUS
  <2>2. bl2 = EntrySet(Cleared(bl, b), q, x, b)
    BY DEF EntrySet, Cleared
  <2> HIDE DEF u, bl, a, bl1, bl2, q
  <2>3. EntryFree(u, bl, a, own, q, x, b)
    BY <1>0, <1>1, <1>2, <1>3, <2>1 DEF EntryFree
  <2> QED BY <2>2, <2>3, EntryGrown
<1>5. d.s.used = u \cup {b} /\ d.s.block = bl2 /\ d.addrs = c.addrs /\ d.at = b /\ d.full = c.full
  BY <1>2 DEF Claim, WalkStates
<1>6. d \in WalkStates
  <2>1. bl2 \in [DBlocks -> [Words -> Nat]]
    BY <1>4 DEF Disk
  <2>2. d.s = [used |-> u \cup {b}, block |-> bl2]
    BY <1>2 DEF WalkStates, Claim
  <2> HIDE DEF bl2, u
  <2> QED BY <1>2, <1>5, <2>1, <2>2 DEF WalkStates
<1>7. Stands(d, f, i, k + 1, own2)
  <2>1. b \in Data(u \cup {b})
    BY <1>1, <1>2, DataGrows DEF Disk
  <2>2. own2[b] = HomeOf(own[q].file, own[q].h - 1, q, x)
    BY <1>1, <1>2 DEF Forest, HomeAt
  <2>3. own2[b].file = own[q].file /\ own2[b].h = own[q].h - 1
    BY <2>2 DEF HomeOf
  <2> HIDE DEF own2, u, q, i
  <2>4. own2[b].file = f /\ own2[b].h = Height(i) + 1 - (k + 1) /\ k + 1 # 0
    BY <1>0, <1>3, <2>3
  <2> QED BY <1>5, <2>1, <2>4 DEF Stands
<1>b. bl2[q][x] = b /\ (\A j \in Words : j # x => bl2[q][j] = bl[q][j])
      /\ \A y \in DBlocks : y # b /\ y # q => bl2[y] = bl[y]
  <2>1. b # q
    BY <1>2, <1>3, DataOnly
  <2>2. bl1 \in [DBlocks -> [Words -> Nat]] /\ bl1[q] = bl[q] /\ \A y \in DBlocks : y # b => bl1[y] = bl[y]
    <3>1. Zero \in [Words -> Nat]
      BY DEF Zero, Words
    <3> HIDE DEF q, bl
    <3> QED BY <1>2, <1>3, <2>1, <3>1
  <2> HIDE DEF bl1, q, bl
  <2> DEFINE row == bl1[q]
  <2>3. bl2[q] = [row EXCEPT ![x] = b] /\ row \in [Words -> Nat] /\ row = bl[q]
    BY <1>2, <1>3, <2>2
  <2>4. \A y \in DBlocks : y # q => bl2[y] = bl1[y]
    BY <2>2
  <2> HIDE DEF row, bl2
  <2> QED BY <1>0, <2>2, <2>3, <2>4
<1>9. Kept(u, bl, a, own, u \cup {b}, bl2, a, own2)
  <2>1. /\ Data(u) \subseteq Data(u \cup {b}) /\ b \notin Data(u) /\ Data(u) \subseteq DBlocks
    BY <1>1, <1>2, DataOnly DEF Data, Disk
  <2>2. own \in [DBlocks -> Homes]
    BY <1>1 DEF Forest
  <2>3. \A y \in Data(u) : own2[y] = own[y]
    BY <1>2, <2>1, <2>2 DEF HomeAt
  <2>4. bl[q][x] = 0
    OBVIOUS
  <2> HIDE DEF own2, bl1, bl2, a, bl, u, q
  <2>5. \A y \in Data(u) : y # q => bl2[y] = bl[y]
    BY <1>b, <2>1
  <2>6. \A y \in Data(u) : own[y].h = 0 => y # q
    BY <1>3
  <2> QED BY <1>b, <2>1, <2>3, <2>4, <2>5, <2>6 DEF Kept
<1>10. Led(c.addrs, bl2, p, k + 1) /\ b = Lead(c.addrs, bl2, p, k + 1)
  <2>1. a[f] = c.addrs /\ Led(a[f], bl, p, k) /\ k \in 1..4 /\ k <= Height(i) + 1
    BY <1>0, <1>1, <1>2
  <2>2. Led(a[f], bl2, p, k) /\ \A j \in 1..k : Lead(a[f], bl2, p, j) = Lead(a[f], bl, p, j)
    <3> HIDE DEF u, bl, bl1, bl2, a, q, own2
    <3> QED BY <1>1, <1>9, <2>1, LedKept, KeptTree
  <2> HIDE DEF bl2, bl1, a, bl, u
  <2>3. Lead(c.addrs, bl2, p, k) = q
    BY <1>1, <2>1, <2>2
  <2>4. Lead(c.addrs, bl2, p, k + 1) = b
    BY <1>b, <2>3, LeadIs
  <2>5. b # 0
    BY <1>1, <1>2, DataOnly DEF Disk
  <2>6. \A j \in 1..(k + 1) : j = k + 1 \/ j \in 1..k
    OBVIOUS
  <2> QED BY <2>1, <2>2, <2>4, <2>5, <2>6 DEF Led
<1>11. Kept(from.u, from.bl, from.ad, from.own, u \cup {b}, bl2, a, own2)
  <2> HIDE DEF u, bl, a, bl2, bl1, own2
  <2> QED BY <1>1, <1>9, KeptTwice
<1>8. \E o : LET z == [from.ad EXCEPT ![f] = d.addrs] IN
       /\ Disk(d.s.used, d.s.block, z) /\ Forest(d.s.used, d.s.block, z, o)
       /\ Stands(d, f, p[1], k + 1, o)
       /\ Kept(from.u, from.bl, from.ad, from.own, d.s.used, d.s.block, z, o)
       /\ Led(d.addrs, d.s.block, p, k + 1) /\ (k + 1 > 0 => d.at = Lead(d.addrs, d.s.block, p, k + 1))
  <2>1. [from.ad EXCEPT ![f] = d.addrs] = a
    BY <1>5
  <2> HIDE DEF u, bl, a, bl2, bl1, own2, q
  <2> QED BY <1>4, <1>5, <1>7, <1>10, <1>11, <2>1
<1> QED BY <1>6, <1>8 DEF Reached
EntryOf(c, x) == IF c.at = 0 THEN c.addrs[x] ELSE c.s.block[c.at][x]

InSlot(c, x, b)  == [c EXCEPT !.at = b, !.s = Claim(c.s, b), !.addrs = [@ EXCEPT ![x] = b]]
InEntry(c, x, b) == [c EXCEPT !.at = b, !.s = [Claim(c.s, b) EXCEPT !.block[c.at][x] = b]]

LEMMA DescendIs ==
  ASSUME NEW c \in WalkStates, NEW x, ~c.full, NEW e, e = EntryOf(c, x)
  PROVE  \/ e = 0 /\ Descend(c, x).full /\ Descend(c, x) \in WalkStates
         \/ e # 0 /\ Descend(c, x) = [c EXCEPT !.at = e]
         \/ /\ e = 0 /\ c.at = 0
            /\ \E b \in FreeBlocks(c.s) :
                 Descend(c, x) = InSlot(c, x, b)
         \/ /\ e = 0 /\ c.at # 0
            /\ \E b \in FreeBlocks(c.s) :
                 Descend(c, x) = InEntry(c, x, b)
<1> USE DEF EntryOf, InSlot, InEntry
<1>1. CASE e # 0
  BY <1>1 DEF Descend
<1>2. CASE e = 0 /\ FreeBlocks(c.s) = {}
  <2>1. Descend(c, x) = [c EXCEPT !.full = TRUE]
    BY <1>2 DEF Descend
  <2> QED BY <1>2, <2>1 DEF WalkStates
<1>3. CASE e = 0 /\ FreeBlocks(c.s) # {}
  <2> DEFINE T == FreeBlocks(c.s)  b == CHOOSE z \in T : \A y \in T : z <= y
  <2>1. T # {} /\ T \in SUBSET Nat
    BY <1>3, BmapNumbers DEF FreeBlocks, DBlocks
  <2>2. b \in T
    <3> HIDE DEF T
    <3>1. \E m \in T : \A k \in T : m <= k
      BY <2>1, LeastNumber
    <3> QED BY <3>1
  <2> DEFINE t == Claim(c.s, b)
  <2>3. c.addrs = c.addrs /\ [c EXCEPT !.addrs = c.addrs] = c
    BY DEF WalkStates
  <2>4. Descend(c, x) = [c EXCEPT !.at = b, !.s = IF c.at = 0 THEN t ELSE [t EXCEPT !.block[c.at][x] = b],
                                  !.addrs = IF c.at = 0 THEN [@ EXCEPT ![x] = b] ELSE @]
    BY <1>3 DEF Descend
  <2>5. CASE c.at = 0
    <3>1. Descend(c, x) = [c EXCEPT !.at = b, !.s = t, !.addrs = [@ EXCEPT ![x] = b]]
      BY <2>4, <2>5
    <3> QED BY <1>3, <2>2, <2>5, <3>1
  <2>6. CASE c.at # 0
    <3>1. Descend(c, x) = [c EXCEPT !.at = b, !.s = [t EXCEPT !.block[c.at][x] = b]]
      BY <2>4, <2>6 DEF WalkStates
    <3> QED BY <1>3, <2>2, <2>6, <3>1
  <2> QED BY <2>5, <2>6
<1> QED BY <1>1, <1>2, <1>3

LEMMA DescendFull ==
  ASSUME NEW c \in WalkStates, NEW x, c.full
  PROVE  Descend(c, x).full /\ Descend(c, x) \in WalkStates
BY DEF Descend, WalkStates

LEMMA DescendKeeps ==
  ASSUME NEW from, NEW f \in BFiles, NEW p, OnPath(p), NEW k \in 0..3, k <= Height(p[1]),
         NEW c, Reached(c, from, f, p, k)
  PROVE  Reached(Descend(c, p[k + 1]), from, f, p, k + 1)
<1> DEFINE x == p[k + 1]  e == EntryOf(c, x)
           d == Descend(c, x)
<1>1. c \in WalkStates
  BY DEF Reached
<1>2. CASE c.full
  BY <1>1, <1>2, DescendFull DEF Reached
<1>3. CASE ~c.full
  <2>1. c.at = 0 <=> k = 0
    <3>1. PICK own : Disk(c.s.used, c.s.block, [from.ad EXCEPT ![f] = c.addrs]) /\ Stands(c, f, p[1], k, own)
      BY <1>3 DEF Reached
    <3> QED BY <1>1, <3>1, DataOnly DEF Stands, WalkStates, Disk
  <2>a. k = 0 => x = p[1]
    OBVIOUS
  <2> HIDE DEF e, d, x
  <2>2. e = EntryOf(c, x) /\ d = Descend(c, x) /\ x = p[k + 1]
    BY DEF e, d, x
  <2>3. CASE e = 0 /\ d.full /\ d \in WalkStates
    <3>1. Reached(d, from, f, p, k + 1)
      BY <2>3 DEF Reached
    <3> QED BY <2>2, <3>1
  <2>4. CASE e # 0 /\ d = [c EXCEPT !.at = e]
    <3>1. Reached(d, from, f, p, k + 1)
      BY <1>3, <2>2, <2>4, DescendFound DEF EntryOf
    <3> QED BY <2>2, <3>1
  <2>5. CASE /\ e = 0 /\ c.at = 0
             /\ \E b \in FreeBlocks(c.s) : d = InSlot(c, x, b)
    <3>1. PICK b \in FreeBlocks(c.s) : d = InSlot(c, x, b)
      BY <2>5
    <3>2. k = 0 /\ x = p[1] /\ c.addrs[p[1]] = 0
      BY <2>1, <2>a, <2>2, <2>5 DEF EntryOf
    <3>3. Reached(c, from, f, p, 0) /\ d = [c EXCEPT !.at = b, !.s = Claim(c.s, b), !.addrs = [@ EXCEPT ![p[1]] = b]]
      BY <3>1, <3>2 DEF InSlot
    <3>4. Reached(d, from, f, p, 1)
      BY <1>3, <3>2, <3>3, DescendRoot
    <3>5. k + 1 = 1
      BY <3>2
    <3>6. Reached(d, from, f, p, k + 1)
      BY <3>4, <3>5
    <3> QED BY <2>2, <3>6
  <2>6. CASE /\ e = 0 /\ c.at # 0
             /\ \E b \in FreeBlocks(c.s) : d = InEntry(c, x, b)
    <3>1. PICK b \in FreeBlocks(c.s) : d = InEntry(c, x, b)
      BY <2>6
    <3>2. k \in 1..3 /\ c.s.block[c.at][x] = 0
      BY <2>1, <2>2, <2>6 DEF EntryOf
    <3>4. Reached(d, from, f, p, k + 1)
      BY <1>3, <2>2, <3>1, <3>2, DescendEntry DEF InEntry
    <3> QED BY <2>2, <3>4
  <2>7. \/ e = 0 /\ d.full /\ d \in WalkStates
        \/ e # 0 /\ d = [c EXCEPT !.at = e]
        \/ e = 0 /\ c.at = 0 /\ \E b \in FreeBlocks(c.s) : d = InSlot(c, x, b)
        \/ e = 0 /\ c.at # 0 /\ \E b \in FreeBlocks(c.s) : d = InEntry(c, x, b)
    BY <1>1, <1>3, <2>2, DescendIs
  <2> QED BY <2>3, <2>4, <2>5, <2>6, <2>7
<1> QED BY <1>2, <1>3

\* What bmap() leaves behind: the path is there, with a block at the leaves.
Depth(x) == Height(x[1]) + 1
Walked(c, from, f, x) ==
  /\ c \in WalkStates
  /\ ~c.full => \E own : LET a == [from.ad EXCEPT ![f] = c.addrs] IN
       /\ Disk(c.s.used, c.s.block, a) /\ Forest(c.s.used, c.s.block, a, own)
       /\ c.at \in Data(c.s.used) /\ own[c.at].h = 0
       /\ Kept(from.u, from.bl, from.ad, from.own, c.s.used, c.s.block, a, own)
       /\ Led(c.addrs, c.s.block, x, Depth(x)) /\ c.at = Lead(c.addrs, c.s.block, x, Depth(x))

Before(own) == [u |-> used, bl |-> block, ad |-> addrs, own |-> own]

LEMMA WalkGives ==
  ASSUME NEW own, Disk(used, block, addrs), Forest(used, block, addrs, own),
         NEW f \in BFiles, NEW bn \in 0..(MAXFILE - 1)
  PROVE  Walked(WalkTree(f, bn), Before(own), f, Path(bn))
<1> DEFINE c == [s |-> [used |-> used, block |-> block], addrs |-> addrs[f], at |-> 0, full |-> FALSE]
           p == Path(bn)  i == p[1]  n == Height(i) + 1  w == WalkTree(f, bn)  from == Before(own)
<1>1. OnPath(p)
  BY PathIs
<1> HIDE DEF p
<1>2. i \in ASlots /\ DOMAIN p = 1..n /\ Height(i) \in 0..3 /\ n \in 1..4
  BY <1>1, HeightIs DEF OnPath
<1> HIDE DEF i, n
<1>3. Reached(c, from, f, p, 0)
  <2>1. c \in WalkStates
    BY DataOnly DEF Disk, WalkStates
  <2>2. [from.ad EXCEPT ![f] = addrs[f]] = addrs
    BY DEF Disk, Before
  <2>3. c.s.used = used /\ c.s.block = block /\ c.addrs = addrs[f] /\ c.at = 0
    OBVIOUS
  <2>4. from.u = used /\ from.bl = block /\ from.ad = addrs /\ from.own = own
    BY DEF Before
  <2>5. Led(addrs[f], block, p, 0)
    BY DEF Led
  <2> HIDE DEF c, from
  <2>6. Kept(from.u, from.bl, from.ad, from.own, used, block, addrs, own)
    BY <2>4, KeptSame
  <2>7. /\ Disk(c.s.used, c.s.block, [from.ad EXCEPT ![f] = c.addrs])
        /\ Forest(c.s.used, c.s.block, [from.ad EXCEPT ![f] = c.addrs], own)
        /\ Stands(c, f, p[1], 0, own)
        /\ Kept(from.u, from.bl, from.ad, from.own, c.s.used, c.s.block, [from.ad EXCEPT ![f] = c.addrs], own)
        /\ Led(c.addrs, c.s.block, p, 0)
    BY <2>2, <2>3, <2>5, <2>6 DEF Stands
  <2> QED BY <2>1, <2>7 DEF Reached
<1>4. w = WalkFrom(c, p)
  BY DEF WalkTree, WalkFrom, p
<1> HIDE DEF c, w, from
<1>11. PICK g : Walks(g, c, p, n)
  BY <1>2, WalkSteps
<1>5. /\ g[0] = c /\ \A k \in 1..n : g[k] = Descend(g[k - 1], p[k])
      /\ WalkFrom(c, p) = g[n]
  BY <1>11 DEF Walks
<1> DEFINE S == {k \in Nat : k <= n => Reached(g[k], from, f, p, k)}
<1>6. 0 \in S
  BY <1>3, <1>5
<1>7. ASSUME NEW k \in Nat, k \in S PROVE k + 1 \in S
  <2> SUFFICES ASSUME k + 1 <= n PROVE Reached(g[k + 1], from, f, p, k + 1)
    OBVIOUS
  <2>1. k \in 0..3 /\ k <= Height(p[1]) /\ k + 1 \in 1..n /\ (k + 1) - 1 = k /\ k <= n
    BY <1>2 DEF n, i
  <2>2. Reached(g[k], from, f, p, k)
    BY <1>7, <2>1
  <2>4. g[k + 1] = Descend(g[k], p[k + 1])
    BY <1>5, <2>1
  <2>5. Reached(Descend(g[k], p[k + 1]), from, f, p, k + 1)
    BY <1>1, <2>1, <2>2, DescendKeeps
  <2> QED BY <2>4, <2>5
<1>8. Reached(w, from, f, p, n)
  <2>1. n \in S
    <3> HIDE DEF S
    <3> QED BY <1>2, <1>6, <1>7, NumbersWith
  <2> QED BY <1>2, <1>4, <1>5, <2>1
<1>9. \A o : Stands(w, f, p[1], n, o) => w.at \in Data(w.s.used) /\ o[w.at].h = 0
  BY <1>2 DEF Stands, n, i
<1>12. n = Depth(p) /\ n > 0
  BY <1>2 DEF Depth, n, i
<1>10. Walked(w, from, f, p)
  BY <1>8, <1>9, <1>12 DEF Reached, Walked
<1> QED BY <1>10 DEF w, from, p
-----------------------------------------------------------------------------
\* Two paths to one block are one path of one file.
LEMMA LeadsMeet ==
  ASSUME NEW u, NEW bl, NEW ad, NEW own, Disk(u, bl, ad), Forest(u, bl, ad, own),
         NEW f \in BFiles, NEW x, OnPath(x), NEW k \in 1..4, k <= Depth(x), Led(ad[f], bl, x, k),
         NEW g \in BFiles, NEW y, OnPath(y), NEW l \in 1..4, l <= Depth(y), Led(ad[g], bl, y, l),
         Lead(ad[f], bl, x, k) = Lead(ad[g], bl, y, l)
  PROVE  /\ f = g /\ x[k] = y[l] /\ (k = 1 <=> l = 1) /\ Depth(x) - k = Depth(y) - l
         /\ k > 1 => Lead(ad[f], bl, x, k - 1) = Lead(ad[g], bl, y, l - 1)
<1> DEFINE L(j) == Lead(ad[f], bl, x, j)  M(j) == Lead(ad[g], bl, y, j)
           b == L(k)  o == own[b]
           up == IF k = 1 THEN 0 ELSE L(k - 1)  vp == IF l = 1 THEN 0 ELSE M(l - 1)
<1>0. 0 \notin Data(u) /\ Height(x[1]) \in 0..3 /\ Height(y[1]) \in 0..3
  BY DataOnly, HeightIs DEF Disk, OnPath
<1>1. \A j \in 1..k : LeadHome(L(j), f, x, j, ad[f], bl, own, u)
  BY LeadHomes DEF Depth
<1>2. \A j \in 1..l : LeadHome(M(j), g, y, j, ad[g], bl, own, u)
  BY LeadHomes DEF Depth
<1>3. o = HomeOf(f, Height(x[1]) + 1 - k, up, x[k])
  BY <1>1 DEF LeadHome
<1>4. o = HomeOf(g, Height(y[1]) + 1 - l, vp, y[l])
  BY <1>2 DEF LeadHome
<1>5. k > 1 => L(k - 1) # 0
  <2>1. k > 1 => k - 1 \in 1..k
    OBVIOUS
  <2> QED BY <1>0, <1>1, <2>1 DEF LeadHome
<1>6. l > 1 => M(l - 1) # 0
  <2>1. l > 1 => l - 1 \in 1..l
    OBVIOUS
  <2> QED BY <1>0, <1>2, <2>1 DEF LeadHome
<1> DEFINE hx == Height(x[1]) + 1 - k  hy == Height(y[1]) + 1 - l
<1> HIDE DEF o, up, vp, hx, hy
<1>7. f = g /\ hx = hy /\ up = vp /\ x[k] = y[l]
  <2>1. o = HomeOf(f, hx, up, x[k]) /\ o = HomeOf(g, hy, vp, y[l])
    BY <1>3, <1>4 DEF hx, hy
  <2>2. o.file = f /\ o.h = hx /\ o.up = up /\ o.i = x[k]
    BY <2>1 DEF HomeOf
  <2>3. o.file = g /\ o.h = hy /\ o.up = vp /\ o.i = y[l]
    BY <2>1 DEF HomeOf
  <2> QED BY <2>2, <2>3
<1>8. k = 1 <=> l = 1
  BY <1>5, <1>6, <1>7 DEF up, vp
<1>9. k > 1 => L(k - 1) = M(l - 1)
  BY <1>7, <1>8 DEF up, vp
<1>10. Depth(x) - k = Depth(y) - l
  BY <1>0, <1>7 DEF hx, hy, Depth
<1> QED BY <1>7, <1>8, <1>9, <1>10

SamePath(x, y, k) == \A j \in 1..k : x[j] = y[j]

LEMMA LeadsOnce ==
  ASSUME NEW u, NEW bl, NEW ad, NEW own, Disk(u, bl, ad), Forest(u, bl, ad, own),
         NEW f \in BFiles, NEW x, OnPath(x), Led(ad[f], bl, x, Depth(x)),
         NEW g \in BFiles, NEW y, OnPath(y), Led(ad[g], bl, y, Depth(y)),
         Lead(ad[f], bl, x, Depth(x)) = Lead(ad[g], bl, y, Depth(y))
  PROVE  f = g /\ Depth(x) = Depth(y) /\ SamePath(x, y, Depth(x))
<1> DEFINE L(j) == Lead(ad[f], bl, x, j)  M(j) == Lead(ad[g], bl, y, j)  m == Depth(x)  n == Depth(y)
           P(k) == \A l \in 1..n : L(k) = M(l) => k = l /\ SamePath(x, y, k)
<1>0. m \in 1..4 /\ n \in 1..4
  BY HeightIs DEF OnPath, Depth
<1>1. ASSUME NEW k \in 1..m, NEW l \in 1..n, L(k) = M(l)
      PROVE  /\ f = g /\ x[k] = y[l] /\ (k = 1 <=> l = 1)
             /\ k > 1 => L(k - 1) = M(l - 1)
  <2>1. k \in 1..4 /\ l \in 1..4 /\ k <= m /\ l <= n /\ Led(ad[f], bl, x, k) /\ Led(ad[g], bl, y, l)
    BY <1>0 DEF Led
  <2> QED BY <1>1, <2>1, LeadsMeet
<1>5. L(m) = M(n)
  OBVIOUS
<1>6. f = g
  BY <1>0, <1>1, <1>5
<1> HIDE DEF L, M, m, n
<1>2. P(1)
  BY <1>0, <1>1 DEF SamePath
<1>3. ASSUME NEW k \in 1..3, k + 1 <= m, P(k) PROVE P(k + 1)
  <2> SUFFICES ASSUME NEW l \in 1..n, L(k + 1) = M(l) PROVE k + 1 = l /\ SamePath(x, y, k + 1)
    OBVIOUS
  <2>1. k + 1 \in 1..m /\ (k + 1) - 1 = k /\ k + 1 > 1 /\ k + 1 # 1
    BY <1>0, <1>3
  <2>2. x[k + 1] = y[l] /\ l # 1 /\ L(k) = M(l - 1)
    BY <1>1, <2>1
  <2>3. l - 1 \in 1..n
    BY <1>0, <2>2
  <2>4. k = l - 1 /\ SamePath(x, y, k)
    BY <1>3, <2>2, <2>3
  <2>5. \A j \in 1..(k + 1) : j \in 1..k \/ j = k + 1
    OBVIOUS
  <2>6. k + 1 = l
    BY <1>0, <2>4
  <2> QED BY <2>2, <2>4, <2>5, <2>6 DEF SamePath
<1> HIDE DEF P
<1>4. P(m)
  <2>1. 1 + 1 = 2 /\ 2 + 1 = 3 /\ 3 + 1 = 4
    OBVIOUS
  <2>2. m >= 2 => P(2)
    BY <1>2, <1>3, <2>1
  <2>3. m >= 3 => P(3)
    BY <2>2, <1>3, <2>1, <1>0
  <2>4. m >= 4 => P(4)
    BY <2>3, <1>3, <2>1, <1>0
  <2> QED BY <1>0, <1>2, <2>2, <2>3, <2>4
<1>7. m = n /\ SamePath(x, y, m)
  BY <1>0, <1>4, <1>5 DEF P
<1> QED BY <1>6, <1>7 DEF m, n

\* The block number is known from the path.
LEMMA Remainders ==
  ASSUME NEW n \in Nat \ {0}, NEW q \in Nat, NEW r \in 0..(n - 1), NEW a, a = n * q + r
  PROVE  a % n = r /\ a \div n = q
<1> DEFINE s == a \div n  t == a % n
<1>0. a \in Nat
  <2>1. n * q \in Nat
    OBVIOUS
  <2> QED BY <2>1
<1>1. s \in Nat /\ t \in 0..(n - 1) /\ a = n * s + t
  BY <1>0
<1> HIDE DEF s, t
<1>2. \A x \in Nat, y \in Nat : x < y => n * x + n <= n * y
  <2> TAKE x \in Nat, y \in Nat
  <2> HAVE x < y
  <2>1. PICK d \in Nat : y = x + 1 + d
    <3>1. y - x - 1 \in Nat /\ y = x + 1 + (y - x - 1)
      OBVIOUS
    <3> QED BY <3>1
  <2>2. n * (x + 1 + d) = n * x + n + n * d /\ n * d \in Nat /\ n * x \in Nat
    OBVIOUS
  <2> DEFINE nx == n * x  nd == n * d  ny == n * y
  <2>3. ny = nx + n + nd /\ nd \in Nat /\ nx \in Nat
    BY <2>1, <2>2
  <2> HIDE DEF nx, nd, ny
  <2>4. nx + n <= ny
    BY <2>3
  <2> QED BY <2>4 DEF nx, ny
<1>3. n * s + t = n * q + r
  BY <1>1
<1> DEFINE ns == n * s  nq == n * q
<1>4. ns \in Nat /\ nq \in Nat /\ ns + t = nq + r
  BY <1>1, <1>3
<1>5. (s < q => ns + n <= nq) /\ (q < s => nq + n <= ns) /\ (s = q => ns = nq)
  BY <1>1, <1>2
<1> HIDE DEF ns, nq
<1>6. t = r /\ s = q
  <2>1. s < q \/ q < s \/ s = q
    BY <1>1
  <2>2. ~(ns + n <= nq) /\ ~(nq + n <= ns)
    BY <1>1, <1>4
  <2> QED BY <1>1, <1>4, <1>5, <2>1, <2>2
<1> QED BY <1>6 DEF s, t

LEMMA Quotients ==
  ASSUME NEW a \in Nat, NEW n \in Nat \ {0}
  PROVE  a = n * (a \div n) + (a % n) /\ a \div n \in Nat /\ a % n \in 0..(n - 1)
OBVIOUS

Number(x) ==
  CASE x[1] < NDIRECT -> x[1]
    [] x[1] = NDIRECT -> NDIRECT + x[2]
    [] x[1] = D_NINDIRECT_ADRS -> NDIRECT + BSIZE + (BSIZE * x[2] + x[3])
    [] x[1] = T_NINDIRECT_ADRS ->
         NDIRECT + BSIZE + D_NINDIRECT + (D_NINDIRECT * x[2] + (BSIZE * x[3] + x[4]))

LEMMA PathNumber ==
  ASSUME NEW bn \in 0..(MAXFILE - 1)
  PROVE  Number(Path(bn)) = bn /\ Len(Path(bn)) = Depth(Path(bn))
<1> DEFINE b1 == bn - NDIRECT  b2 == b1 - NINDIRECT  b3 == b2 - D_NINDIRECT
           p == Path(bn)
<1>1. /\ b1 = bn - NDIRECT /\ b2 = b1 - BSIZE /\ b3 = b2 - D_NINDIRECT
      /\ b1 \in Int /\ b2 \in Int /\ b3 \in Int /\ bn \in Nat /\ b3 < T_NINDIRECT
  BY MaxFileIs, BmapNumbers
<1>a. D_NINDIRECT_ADRS = NDIRECT + 1 /\ T_NINDIRECT_ADRS = NDIRECT + 2 /\ NDIRECT \in Nat
  BY BmapNumbers
<1>2. CASE b1 < 0
  <2>1. p = <<bn>>
    BY <1>1, <1>2, MaxFileIs, BmapNumbers DEF Path
  <2>2. bn \in ASlots /\ Height(bn) = 0 /\ bn < NDIRECT
    BY <1>1, <1>2, BmapNumbers, HeightIs DEF ASlots
  <2> HIDE DEF p
  <2>3. p[1] = bn /\ Len(p) = 1
    BY <2>1
  <2>4. Number(p) = bn /\ Len(p) = Depth(p)
    BY <1>a, <2>2, <2>3 DEF Depth, Number
  <2> QED BY <2>4 DEF p
<1>3. CASE b1 \in 0..(NINDIRECT - 1)
  <2>1. p = <<NDIRECT, b1>>
    BY <1>1, <1>3, MaxFileIs, BmapNumbers DEF Path
  <2>2. Height(NDIRECT) = 1 /\ NDIRECT + b1 = bn
    BY <1>1, <1>3, BmapNumbers, HeightIs DEF ASlots
  <2> HIDE DEF p, b1
  <2>3. p[1] = NDIRECT /\ p[2] = b1 /\ Len(p) = 2
    BY <2>1
  <2>4. Number(p) = bn
    BY <1>a, <2>2, <2>3 DEF Number
  <2>5. Len(p) = Depth(p)
    BY <2>2, <2>3 DEF Depth
  <2> QED BY <2>4, <2>5 DEF p
<1>4. CASE b2 \in 0..(D_NINDIRECT - 1)
  <2> DEFINE x == b2 \div NINDIRECT  y == b2 % NINDIRECT
  <2>1. p = <<D_NINDIRECT_ADRS, x, y>>
    BY <1>1, <1>4, MaxFileIs, BmapNumbers DEF Path
  <2>2. Height(D_NINDIRECT_ADRS) = 2
    BY BmapNumbers, HeightIs DEF ASlots
  <2>3. b2 \in Nat /\ b2 = bn - NDIRECT - BSIZE
    BY <1>1, <1>4, MaxFileIs
  <2> HIDE DEF b2
  <2>4. b2 = BSIZE * x + y
    BY <2>3, BmapNumbers
  <2>5. NDIRECT + BSIZE + b2 = bn
    BY <1>1, <2>3, BmapNumbers
  <2> HIDE DEF p, x, y
  <2>6. p[1] = D_NINDIRECT_ADRS /\ p[2] = x /\ p[3] = y /\ Len(p) = 3
    BY <2>1
  <2>7. Number(p) = NDIRECT + BSIZE + (BSIZE * x + y)
    BY <1>a, <2>6 DEF Number
  <2>8. Len(p) = Depth(p)
    BY <2>2, <2>6 DEF Depth
  <2>9. Number(p) = bn
    BY <2>4, <2>5, <2>7
  <2> QED BY <2>8, <2>9 DEF p
<1>5. CASE b3 >= 0
  <2> DEFINE m == b3 % D_NINDIRECT
             x == b3 \div D_NINDIRECT  y == m \div NINDIRECT  z == b3 % NINDIRECT  t == m % NINDIRECT
  <2>1. p = <<T_NINDIRECT_ADRS, x, y, z>>
    <3>1. ~(b1 < 0) /\ b1 \notin 0..(NINDIRECT - 1) /\ b2 \notin 0..(D_NINDIRECT - 1)
      BY <1>1, <1>5, MaxFileIs, BmapNumbers
    <3> QED BY <1>5, <3>1 DEF Path
  <2>2. Height(T_NINDIRECT_ADRS) = 3
    BY BmapNumbers, HeightIs DEF ASlots
  <2>3. b3 \in Nat /\ NDIRECT + BSIZE + D_NINDIRECT + b3 = bn
    BY <1>1, <1>5, MaxFileIs, BmapNumbers
  <2>c. BSIZE \in Nat \ {0} /\ NINDIRECT = BSIZE /\ D_NINDIRECT \in Nat \ {0} /\ D_NINDIRECT = BSIZE * BSIZE
    BY BmapNumbers, MaxFileIs
  <2> HIDE DEF b3
  <2>4. b3 = D_NINDIRECT * x + m /\ x \in Nat /\ m \in Nat
    <3>1. b3 \in Nat /\ D_NINDIRECT \in Nat \ {0}
      BY <2>3, <2>c
    <3> QED BY ONLY <3>1, Quotients
  <2> HIDE DEF m, x
  <2>5. m = BSIZE * y + t /\ y \in Nat /\ t \in 0..(BSIZE - 1)
    <3>1. m \in Nat /\ BSIZE \in Nat \ {0} /\ NINDIRECT = BSIZE
      BY <2>4, <2>c
    <3> QED BY ONLY <3>1, Quotients
  <2> HIDE DEF y, t
  <2>6. z = t
    <3>1. D_NINDIRECT * x = BSIZE * (BSIZE * x) /\ BSIZE * x \in Nat
      BY <2>4, <2>c
    <3> DEFINE w == BSIZE * x
    <3>2. BSIZE * w + BSIZE * y = BSIZE * (w + y) /\ w \in Nat /\ w + y \in Nat
      BY <2>5, <2>c, <3>1
    <3> HIDE DEF w
    <3>3. b3 = BSIZE * (w + y) + t
      <4> DEFINE p1x == D_NINDIRECT * x  p2x == BSIZE * w  p3x == BSIZE * y  p4x == BSIZE * (w + y)
      <4>1. p1x = p2x /\ p2x + p3x = p4x /\ b3 = p1x + m /\ m = p3x + t
        BY <2>4, <2>5, <3>1, <3>2 DEF w
      <4>2. p2x \in Nat /\ p3x \in Nat /\ t \in Nat
        BY <2>5, <2>c, <3>2
      <4> HIDE DEF p1x, p2x, p3x, p4x
      <4>3. b3 = p4x + t
        BY <4>1, <4>2
      <4> QED BY <4>3 DEF p4x
    <3>4. b3 % BSIZE = t
      BY <2>5, <2>c, <3>2, <3>3, Remainders
    <3> QED BY <2>c, <3>4
  <2>7. b3 = D_NINDIRECT * x + (BSIZE * y + z)
    BY <2>4, <2>5, <2>6
  <2> HIDE DEF p, z
  <2>8. p[1] = T_NINDIRECT_ADRS /\ p[2] = x /\ p[3] = y /\ p[4] = z /\ Len(p) = 4
    BY <2>1
  <2>9. Number(p) = NDIRECT + BSIZE + D_NINDIRECT + (D_NINDIRECT * x + (BSIZE * y + z))
    BY <1>a, <2>8 DEF Number
  <2>10. Len(p) = Depth(p)
    BY <2>2, <2>8 DEF Depth
  <2>11. Number(p) = bn
    BY <2>3, <2>7, <2>9
  <2> QED BY <2>10, <2>11 DEF p
<1>6. b1 < 0 \/ b1 \in 0..(NINDIRECT - 1) \/ b2 \in 0..(D_NINDIRECT - 1) \/ b3 >= 0
  BY <1>1, MaxFileIs, BmapNumbers
<1> QED BY <1>2, <1>3, <1>4, <1>5, <1>6

LEMMA PathsDiffer ==
  ASSUME NEW a \in 0..(MAXFILE - 1), NEW b \in 0..(MAXFILE - 1), SamePath(Path(a), Path(b), Depth(Path(a)))
  PROVE  a = b
<1> DEFINE x == Path(a)  y == Path(b)
<1>1. OnPath(x) /\ Number(x) = a /\ Number(y) = b
  BY PathIs, PathNumber
<1> HIDE DEF x, y
<1>2. x[1] \in ASlots /\ Height(x[1]) \in 0..3 /\ \A j \in 1..(Height(x[1]) + 1) : x[j] = y[j]
  BY <1>1, HeightIs DEF OnPath, SamePath, Depth, x, y
<1>3. /\ (Height(x[1]) = 0 <=> x[1] < NDIRECT) /\ (Height(x[1]) = 1 <=> x[1] = NDIRECT)
      /\ (Height(x[1]) = 2 <=> x[1] = D_NINDIRECT_ADRS) /\ (Height(x[1]) = 3 <=> x[1] = T_NINDIRECT_ADRS)
  BY <1>2, HeightIs
<1>4. /\ x[1] = y[1] /\ (Height(x[1]) >= 1 => x[2] = y[2]) /\ (Height(x[1]) >= 2 => x[3] = y[3])
      /\ (Height(x[1]) >= 3 => x[4] = y[4])
  BY <1>2
<1>5. Number(x) = Number(y)
  <2>1. CASE Height(x[1]) = 0
    BY <1>3, <1>4, <2>1 DEF Number
  <2>2. CASE Height(x[1]) = 1
    BY <1>3, <1>4, <2>2 DEF Number
  <2>3. CASE Height(x[1]) = 2
    BY <1>3, <1>4, <2>3 DEF Number
  <2>4. CASE Height(x[1]) = 3
    BY <1>3, <1>4, <2>4 DEF Number
  <2> QED BY <1>2, <2>1, <2>2, <2>3, <2>4
<1> QED BY <1>1, <1>5
-----------------------------------------------------------------------------
\* What a file holds, and what one write to a block at the leaves changes of it.
There(ad, bl, f, n) == Led(ad[f], bl, Path(n), Depth(Path(n)))
Leaf(ad, bl, f, n)  == Lead(ad[f], bl, Path(n), Depth(Path(n)))

WordBelow(ad, bl, f, x, i) ==
  LET at[k \in DOMAIN x] == IF k = 1 THEN ad[f][x[1]] ELSE bl[at[k - 1]][x[k]]
  IN  bl[at[Len(x)]][i]

\* WordAt of a disk.
WordIn(ad, bl, f, i) == WordBelow(ad, bl, f, Path(i \div BSIZE), i % BSIZE)

LEMMA LeadRecursive ==
  ASSUME NEW ad, NEW bl, NEW f, NEW x, OnPath(x), Len(x) = Depth(x), NEW i
  PROVE  WordBelow(ad, bl, f, x, i) = bl[Lead(ad[f], bl, x, Depth(x))][i]
<1> DEFINE n == Depth(x)  L(j) == Lead(ad[f], bl, x, j)
           IsAt(g) == g = [k \in DOMAIN x |-> IF k = 1 THEN ad[f][x[1]] ELSE bl[g[k - 1]][x[k]]]
           at == CHOOSE g : IsAt(g)  h == [k \in DOMAIN x |-> L(k)]
<1>0. n \in 1..4 /\ DOMAIN x = 1..n
  BY HeightIs DEF OnPath, Depth
<1>1. L(1) = ad[f][x[1]] /\ \A k \in 1..3 : L(k + 1) = bl[L(k)][x[k + 1]]
  BY LeadIs
<1> HIDE DEF L, n
<1>2. IsAt(h)
  <2>1. \A k \in 1..n : h[k] = IF k = 1 THEN ad[f][x[1]] ELSE bl[h[k - 1]][x[k]]
    <3> TAKE k \in 1..n
    <3>1. CASE k = 1
      BY <1>0, <1>1, <3>1
    <3>2. CASE k # 1
      <4>1. k - 1 \in 1..3 /\ k - 1 \in 1..n /\ (k - 1) + 1 = k
        BY <1>0, <3>2
      <4>2. h[k - 1] = L(k - 1) /\ h[k] = L(k)
        BY <1>0, <4>1
      <4> HIDE DEF h
      <4> QED BY <1>1, <3>2, <4>1, <4>2
    <3> QED BY <3>1, <3>2
  <2> DEFINE hh == [k \in DOMAIN x |-> IF k = 1 THEN ad[f][x[1]] ELSE bl[h[k - 1]][x[k]]]
  <2>2. DOMAIN h = DOMAIN x /\ \A k \in DOMAIN x : h[k] = IF k = 1 THEN ad[f][x[1]] ELSE bl[h[k - 1]][x[k]]
    BY <1>0, <2>1
  <2>3. h = [k \in DOMAIN x |-> h[k]]
    BY DEF h
  <2> HIDE DEF h
  <2> QED BY <2>2, <2>3
<1>3. IsAt(at)
  BY <1>2
<1> HIDE DEF at, h
<1>4. \A k \in 1..n : at[k] = IF k = 1 THEN ad[f][x[1]] ELSE bl[at[k - 1]][x[k]]
  BY <1>0, <1>3
<1>5. at[1] = L(1)
  BY <1>0, <1>1, <1>4
<1>6. ASSUME NEW k \in 1..3, k + 1 <= n, at[k] = L(k) PROVE at[k + 1] = L(k + 1)
  <2>1. k + 1 \in 1..n /\ k + 1 # 1 /\ (k + 1) - 1 = k
    BY <1>0, <1>6
  <2>2. at[k + 1] = bl[at[k]][x[k + 1]]
    BY <1>4, <2>1
  <2> QED BY <1>1, <1>6, <2>2
<1>7. at[n] = L(n)
  <2>1. 1 + 1 = 2 /\ 2 + 1 = 3 /\ 3 + 1 = 4
    OBVIOUS
  <2>2. n >= 2 => at[2] = L(2)
    BY <1>5, <1>6, <2>1
  <2>3. n >= 3 => at[3] = L(3)
    BY <2>2, <1>6, <2>1, <1>0
  <2>4. n >= 4 => at[4] = L(4)
    BY <2>3, <1>6, <2>1, <1>0
  <2> QED BY <1>0, <1>5, <2>2, <2>3, <2>4
<1>8. bl[at[Len(x)]][i] = bl[L(n)][i]
  BY <1>7 DEF n
<1> QED BY <1>8 DEF WordBelow, at, L, n

LEMMA WordInIs ==
  ASSUME NEW ad, NEW bl, NEW f, NEW i, i \div BSIZE \in 0..(MAXFILE - 1)
  PROVE  WordIn(ad, bl, f, i) = bl[Leaf(ad, bl, f, i \div BSIZE)][i % BSIZE]
<1> DEFINE x == Path(i \div BSIZE)  j == i % BSIZE
<1>1. OnPath(x) /\ Len(x) = Depth(x)
  BY PathIs, PathNumber
<1> HIDE DEF x, j
<1>2. WordBelow(ad, bl, f, x, j) = bl[Lead(ad[f], bl, x, Depth(x))][j]
  BY <1>1, LeadRecursive
<1> QED BY <1>2 DEF WordIn, Leaf, x, j

LEMMA PathsKept ==
  ASSUME NEW u, NEW bl, NEW ad, NEW own, Forest(u, bl, ad, own),
         NEW bl2, NEW ad2, TreeKept(u, bl, ad, own, bl2, ad2),
         NEW g \in BFiles, NEW n \in 0..(MAXFILE - 1), There(ad, bl, g, n)
  PROVE  There(ad2, bl2, g, n) /\ Leaf(ad2, bl2, g, n) = Leaf(ad, bl, g, n)
<1> DEFINE y == Path(n)  k == Depth(y)
<1>1. OnPath(y) /\ k \in 1..4 /\ k <= Height(y[1]) + 1 /\ k \in 1..k
  BY PathIs, HeightIs DEF OnPath, Depth
<1>2. Led(ad[g], bl, y, k)
  BY DEF There
<1> HIDE DEF y, k
<1>3. Led(ad2[g], bl2, y, k) /\ \A j \in 1..k : Lead(ad2[g], bl2, y, j) = Lead(ad[g], bl, y, j)
  BY <1>1, <1>2, LedKept
<1> QED BY <1>1, <1>3 DEF There, Leaf, y, k

LEMMA LeafHomes ==
  ASSUME NEW u, NEW bl, NEW ad, NEW own, Forest(u, bl, ad, own),
         NEW g \in BFiles, NEW n \in 0..(MAXFILE - 1), There(ad, bl, g, n)
  PROVE  Leaf(ad, bl, g, n) \in Data(u) /\ own[Leaf(ad, bl, g, n)].h = 0
<1> DEFINE y == Path(n)  k == Depth(y)  e == Lead(ad[g], bl, y, k)
<1>1. OnPath(y) /\ k \in 1..4 /\ k <= Height(y[1]) + 1 /\ k \in 1..k /\ k = Height(y[1]) + 1
      /\ Height(y[1]) \in 0..3
  BY PathIs, HeightIs DEF OnPath, Depth
<1>2. Led(ad[g], bl, y, k)
  BY DEF There
<1> HIDE DEF y, k
<1>3. LeadHome(e, g, y, k, ad[g], bl, own, u)
  BY <1>1, <1>2, LeadHomes
<1>4. e \in Data(u) /\ own[e] = HomeOf(g, Height(y[1]) + 1 - k, IF k = 1 THEN 0 ELSE Lead(ad[g], bl, y, k - 1), y[k])
  BY <1>3 DEF LeadHome
<1>5. own[e].h = Height(y[1]) + 1 - k
  BY <1>4 DEF HomeOf
<1> HIDE DEF e
<1>6. own[e].h = 0
  BY <1>1, <1>5
<1> QED BY <1>4, <1>6 DEF Leaf, y, k, e

LEMMA LeavesDiffer ==
  ASSUME NEW u, NEW bl, NEW ad, NEW own, Disk(u, bl, ad), Forest(u, bl, ad, own),
         NEW f \in BFiles, NEW n \in 0..(MAXFILE - 1), There(ad, bl, f, n),
         NEW g \in BFiles, NEW m \in 0..(MAXFILE - 1), There(ad, bl, g, m),
         Leaf(ad, bl, f, n) = Leaf(ad, bl, g, m)
  PROVE  f = g /\ n = m
<1> DEFINE x == Path(n)  y == Path(m)
<1>1. OnPath(x) /\ OnPath(y)
  BY PathIs
<1>2. Led(ad[f], bl, x, Depth(x)) /\ Led(ad[g], bl, y, Depth(y))
      /\ Lead(ad[f], bl, x, Depth(x)) = Lead(ad[g], bl, y, Depth(y))
  BY DEF There, Leaf
<1> HIDE DEF x, y
<1>3. f = g /\ SamePath(x, y, Depth(x))
  BY <1>1, <1>2, LeadsOnce
<1>4. n = m
  BY <1>3, PathsDiffer DEF x, y
<1> QED BY <1>3, <1>4

\* What the write of block v at block number bn of file f leaves.
Rewritten(f, bn, c, v, ad2, bl2) ==
  /\ There(ad2, bl2, f, bn) /\ Leaf(ad2, bl2, f, bn) = c.at /\ bl2[c.at] = v
  /\ There(addrs, block, f, bn) => Leaf(addrs, block, f, bn) = c.at /\ c.s.block[c.at] = block[c.at]
  /\ \A g \in BFiles, n \in 0..(MAXFILE - 1) :
       There(addrs, block, g, n) /\ ~(g = f /\ n = bn) =>
         LET b == Leaf(addrs, block, g, n) IN
         There(ad2, bl2, g, n) /\ Leaf(ad2, bl2, g, n) = b /\ bl2[b] = block[b]

LEMMA LeafSet ==
  ASSUME NEW own, Forest(used, block, addrs, own), Disk(used, block, addrs),
         NEW f \in BFiles, NEW bn \in 0..(MAXFILE - 1),
         NEW c, Walked(c, Before(own), f, Path(bn)), ~c.full, NEW v,
         NEW ad2, ad2 = [addrs EXCEPT ![f] = c.addrs], NEW bl2, bl2 = [c.s.block EXCEPT ![c.at] = v]
  PROVE  Rewritten(f, bn, c, v, ad2, bl2)
<1> DEFINE u == c.s.used  bl == c.s.block  b == c.at  x == Path(bn)  d == Depth(x)
<1>0. OnPath(x) /\ \A n \in 0..(MAXFILE - 1) : OnPath(Path(n))
  BY PathIs
<1>1. PICK o : /\ Disk(u, bl, ad2) /\ Forest(u, bl, ad2, o) /\ b \in Data(u) /\ o[b].h = 0
               /\ Kept(used, block, addrs, own, u, bl, ad2, o)
               /\ Led(c.addrs, bl, x, d) /\ b = Lead(c.addrs, bl, x, d)
  BY DEF Walked, Before
<1>2. ad2[f] = c.addrs /\ bl2 = [bl EXCEPT ![b] = v]
  BY DEF Disk
<1> HIDE DEF u, bl, b, x, d
<1>3. bl2[b] = v /\ \A y \in DBlocks : y # b => bl2[y] = bl[y]
  <2>1. bl \in [DBlocks -> [Words -> Nat]] /\ b \in DBlocks
    BY <1>1, DataOnly DEF Disk
  <2> QED BY <1>2, <2>1
<1>d. Data(u) \subseteq DBlocks /\ Data(used) \subseteq DBlocks
  BY <1>1, DataOnly DEF Disk
<1>4. TreeKept(u, bl, ad2, o, bl2, ad2)
  BY <1>1, <1>3, <1>d DEF TreeKept
<1>5. TreeKept(used, block, addrs, own, bl, ad2)
  BY <1>1, KeptTree
<1>6. ASSUME NEW g \in BFiles, NEW n \in 0..(MAXFILE - 1), There(ad2, bl, g, n)
      PROVE  There(ad2, bl2, g, n) /\ Leaf(ad2, bl2, g, n) = Leaf(ad2, bl, g, n)
  BY <1>1, <1>4, <1>6, PathsKept
<1>7. ASSUME NEW g \in BFiles, NEW n \in 0..(MAXFILE - 1), There(addrs, block, g, n),
             NEW e, e = Leaf(addrs, block, g, n)
      PROVE  There(ad2, bl, g, n) /\ Leaf(ad2, bl, g, n) = e /\ bl[e] = block[e] /\ e \in Data(used)
  <2>1. There(ad2, bl, g, n) /\ Leaf(ad2, bl, g, n) = e
    BY <1>5, <1>7, PathsKept
  <2>2. e \in Data(used) /\ own[e].h = 0
    BY <1>7, LeafHomes
  <2>3. bl[e] = block[e]
    BY <1>1, <2>2 DEF Kept
  <2> QED BY <2>1, <2>2, <2>3
<1>8. There(ad2, bl, f, bn) /\ Leaf(ad2, bl, f, bn) = b
  BY <1>1, <1>2 DEF There, Leaf, x, d
<1>9. There(ad2, bl2, f, bn) /\ Leaf(ad2, bl2, f, bn) = b /\ bl2[b] = v
  BY <1>3, <1>6, <1>8
<1>10. There(addrs, block, f, bn) => Leaf(addrs, block, f, bn) = b /\ bl[b] = block[b]
  BY <1>7, <1>8
<1>11. ASSUME NEW g \in BFiles, NEW n \in 0..(MAXFILE - 1), There(addrs, block, g, n), ~(g = f /\ n = bn),
              NEW e, e = Leaf(addrs, block, g, n)
       PROVE  There(ad2, bl2, g, n) /\ Leaf(ad2, bl2, g, n) = e /\ bl2[e] = block[e]
  <2>1. There(ad2, bl, g, n) /\ Leaf(ad2, bl, g, n) = e /\ bl[e] = block[e] /\ e \in Data(used)
    BY <1>7, <1>11
  <2>2. e # b
    <3> SUFFICES ASSUME e = b PROVE FALSE
      OBVIOUS
    <3>1. g = f /\ n = bn
      <4>1. Disk(u, bl, ad2) /\ Forest(u, bl, ad2, o)
        BY <1>1
      <4>2. There(ad2, bl, f, bn) /\ There(ad2, bl, g, n) /\ Leaf(ad2, bl, g, n) = Leaf(ad2, bl, f, bn)
        BY <1>8, <2>1
      <4> QED BY <4>1, <4>2, LeavesDiffer
    <3> QED BY <1>11, <3>1
  <2> QED BY <1>3, <1>6, <1>d, <2>1, <2>2
<1>12. \A g \in BFiles, n \in 0..(MAXFILE - 1) :
         There(addrs, block, g, n) /\ ~(g = f /\ n = bn) =>
           LET e == Leaf(addrs, block, g, n) IN
           There(ad2, bl2, g, n) /\ Leaf(ad2, bl2, g, n) = e /\ bl2[e] = block[e]
  BY <1>11
<1> QED BY <1>9, <1>10, <1>12 DEF Rewritten, b, bl
-----------------------------------------------------------------------------
\* The inductive invariant of Bmap.
WriteOp(o) ==
  /\ o = [kind |-> "write", off |-> o.off, left |-> o.left, v |-> o.v, before |-> o.before]
  /\ o.off \in Nat /\ o.left \in Nat /\ o.v \in Nat /\ o.off + o.left <= MAXFILE * BSIZE
TruncOp(o) ==
  o = [kind |-> "trunc", slot |-> o.slot, before |-> o.before] /\ o.slot \in Nat
DiskInv == Disk(used, block, addrs) /\ \E own : Forest(used, block, addrs, own)
OpsInv ==
  /\ DOMAIN op = BFiles /\ \A f \in BFiles : op[f] = Idle \/ WriteOp(op[f]) \/ TruncOp(op[f])
  /\ size \in [BFiles -> 0..(MAXFILE * BSIZE)] /\ calls \in Nat
  /\ state \in {"mkfs", "up", "panic"}
BmapInv == DiskInv /\ OpsInv

LEMMA BmapInitHolds == BmapInit => BmapInv
<1> SUFFICES ASSUME BmapInit PROVE BmapInv
  OBVIOUS
<1>1. /\ used = 0..(NMETA - 1) /\ block = [b \in DBlocks |-> Zero] /\ calls = 0
      /\ addrs = [f \in BFiles |-> [i \in ASlots |-> 0]] /\ state = "mkfs"
      /\ size = [f \in BFiles |-> 0] /\ op = [f \in BFiles |-> Idle]
  BY DEF BmapInit, ASlots
<1>2. Disk(used, block, addrs)
  <2>1. Zero \in [Words -> Nat]
    BY DEF Zero, Words
  <2>2. used \subseteq DBlocks /\ 0 \in DBlocks
    BY <1>1, BmapNumbers DEF DBlocks
  <2> QED BY <1>1, <2>1, <2>2 DEF Disk
<1>3. \E own : Forest(used, block, addrs, own)
  <2>1. PICK f \in BFiles : TRUE
    BY BmapAssumption
  <2> DEFINE own == [b \in DBlocks |-> HomeOf(f, 0, 0, 0)]
  <2>2. own \in [DBlocks -> Homes]
    <3>1. 0 \in DBlocks
      BY BmapNumbers DEF DBlocks
    <3> QED BY <2>1, <3>1 DEF HomeOf, Homes
  <2>3. Data(used) = {}
    BY <1>1 DEF Data
  <2> HIDE DEF own
  <2>4. Forest(used, block, addrs, own)
    BY <1>1, <2>2, <2>3 DEF Forest, SlotsLead, EntriesLead
  <2> QED BY <2>4
<1>4. OpsInv
  <2>1. 0 \in 0..(MAXFILE * BSIZE)
    BY MaxFileIs, BmapNumbers
  <2> QED BY <1>1, <2>1 DEF OpsInv
<1> QED BY <1>2, <1>3, <1>4 DEF BmapInv, DiskInv

\* What is written into a block at the leaves, and nothing else.
LEMMA LeafWrite ==
  ASSUME DiskInv, NEW f \in BFiles, NEW c, NEW own0, NEW x, Walked(c, Before(own0), f, x), ~c.full,
         used' = c.s.used, addrs' = [addrs EXCEPT ![f] = c.addrs],
         NEW v \in [Words -> Nat], block' = [c.s.block EXCEPT ![c.at] = v]
  PROVE  DiskInv'
<1> DEFINE u == c.s.used  bl == c.s.block  a == [addrs EXCEPT ![f] = c.addrs]  b == c.at
<1>1. PICK own : Disk(u, bl, a) /\ Forest(u, bl, a, own) /\ b \in Data(u) /\ own[b].h = 0
  BY DEF Walked, Before
<1>2. u \in SUBSET DBlocks
  BY DEF Walked, WalkStates
<1>3. used' = u /\ addrs' = a /\ block' = [bl EXCEPT ![b] = v]
  OBVIOUS
<1> HIDE DEF u, bl, a, b
<1>4. Disk(u, block', a) /\ Forest(u, block', a, own)
  BY <1>1, <1>2, <1>3, LeafWritten
<1>5. Disk(used', block', addrs') /\ Forest(used', block', addrs', own)
  BY <1>3, <1>4
<1> QED BY <1>5 DEF DiskInv, Disk, Forest, SlotsLead, EntriesLead, Hangs

LEMMA BlockNumber ==
  ASSUME NEW a \in Nat, a < MAXFILE * BSIZE
  PROVE  a \div BSIZE \in 0..(MAXFILE - 1) /\ a % BSIZE \in Words
<1>1. MAXFILE \in Nat /\ BSIZE \in Nat \ {0}
  BY MaxFileIs, BmapNumbers
<1> QED BY <1>1, QuotientBelow, RemainderBelow DEF Words

LEMMA IappendKeeps ==
  ASSUME BmapInv, NEW f \in BFiles, Iappend(f)
  PROVE  BmapInv'
<1> DEFINE bn == size[f] \div BSIZE  c == WalkTree(f, bn)  j == size[f] % BSIZE
           b == c.at  v == [c.s.block[b] EXCEPT ![j] = 1]
<1>1. /\ size[f] < MaxImage /\ ~c.full /\ used' = c.s.used
      /\ block' = [c.s.block EXCEPT ![c.at][j] = 1]
      /\ addrs' = [addrs EXCEPT ![f] = c.addrs] /\ size' = [size EXCEPT ![f] = @ + 1]
      /\ UNCHANGED <<op, calls, state>>
  BY DEF Iappend, Appended
<1>2. size[f] \in Nat /\ size[f] + 1 <= MAXFILE * BSIZE
  <2>1. MaxImage <= MAXFILE * BSIZE
    <3>1. MaxImage <= (NDIRECT + BSIZE) * BSIZE
      BY BmapNumbers
    <3>2. PICK r \in Nat : MAXFILE = (NDIRECT + BSIZE) + r
      <4>1. MAXFILE = (NDIRECT + BSIZE) + (D_NINDIRECT + T_NINDIRECT) /\ D_NINDIRECT + T_NINDIRECT \in Nat
        BY MaxFileIs, BmapNumbers
      <4> QED BY <4>1
    <3>3. ((NDIRECT + BSIZE) + r) * BSIZE = (NDIRECT + BSIZE) * BSIZE + r * BSIZE /\ r * BSIZE \in Nat
          /\ (NDIRECT + BSIZE) * BSIZE \in Nat /\ MaxImage \in Nat
      BY BmapNumbers
    <3> DEFINE short == (NDIRECT + BSIZE) * BSIZE  rest == r * BSIZE  all == MAXFILE * BSIZE
    <3>4. MaxImage <= short /\ all = short + rest /\ short \in Nat /\ rest \in Nat /\ MaxImage \in Nat
      BY <3>1, <3>2, <3>3
    <3> HIDE DEF short, rest, all
    <3>5. MaxImage <= all
      BY ONLY <3>4
    <3> QED BY <3>5 DEF all
  <2>2. size[f] \in Nat /\ MaxImage \in Nat /\ MAXFILE * BSIZE \in Nat
    <3>1. MAXFILE \in Nat /\ BSIZE \in Nat /\ MaxImage \in Nat
      BY MaxFileIs, BmapNumbers
    <3>2. MAXFILE * BSIZE \in Nat
      BY <3>1
    <3> QED BY <3>1, <3>2 DEF BmapInv, OpsInv
  <2> DEFINE all == MAXFILE * BSIZE
  <2>3. size[f] < MaxImage /\ MaxImage <= all /\ size[f] \in Nat /\ MaxImage \in Nat /\ all \in Nat
    BY <1>1, <2>1, <2>2
  <2> HIDE DEF all
  <2>4. size[f] \in Nat /\ size[f] + 1 <= all
    BY ONLY <2>3
  <2> QED BY <2>4 DEF all
<1>3. bn \in 0..(MAXFILE - 1) /\ j \in Words
  <2>1. size[f] < MAXFILE * BSIZE
    <3>1. MAXFILE \in Nat /\ BSIZE \in Nat
      BY MaxFileIs, BmapNumbers
    <3>2. MAXFILE * BSIZE \in Nat
      BY <3>1
    <3> QED BY <1>2, <3>2
  <2> QED BY <1>2, <2>1, BlockNumber
<1> HIDE DEF bn, j
<1>10. PICK own : Disk(used, block, addrs) /\ Forest(used, block, addrs, own)
  BY DEF BmapInv, DiskInv
<1>4. Walked(c, Before(own), f, Path(bn))
  BY <1>3, <1>10, WalkGives
<1> HIDE DEF c
<1>5. c.s.block \in [DBlocks -> [Words -> Nat]] /\ b \in DBlocks
  BY <1>4 DEF Walked, WalkStates
<1>6. v \in [Words -> Nat]
  BY <1>3, <1>5
<1>7. block' = [c.s.block EXCEPT ![b] = v]
  BY <1>1
<1> HIDE DEF v, b
<1>8. DiskInv'
  <2>1. block' = [c.s.block EXCEPT ![c.at] = v]
    BY <1>7 DEF b
  <2> QED BY <1>1, <1>4, <1>6, <2>1, LeafWrite DEF BmapInv
<1>9. OpsInv'
  <2>1. size' \in [BFiles -> 0..(MAXFILE * BSIZE)]
    BY <1>1, <1>2 DEF BmapInv, OpsInv
  <2> QED BY <1>1, <2>1 DEF BmapInv, OpsInv
<1> QED BY <1>8, <1>9 DEF BmapInv

LEMMA WriteOps ==
  /\ Idle.kind = "idle"
  /\ \A o : WriteOp(o) => o.kind = "write"
  /\ \A o : TruncOp(o) => o.kind = "trunc"
  /\ \A o : OpsInv => \A f \in BFiles :
       /\ (op[f].kind = "write" => WriteOp(op[f])) /\ (op[f].kind = "trunc" => TruncOp(op[f]))
BY DEF Idle, WriteOp, TruncOp, OpsInv

LEMMA WriteMoved ==
  ASSUME NEW o, WriteOp(o), NEW m \in Nat, m <= o.left,
         NEW p, p = [o EXCEPT !.off = @ + m, !.left = @ - m]
  PROVE  WriteOp(p)
<1> DEFINE off == o.off  left == o.left  v == o.v  before == o.before
<1>1. /\ o = [kind |-> "write", off |-> off, left |-> left, v |-> v, before |-> before]
      /\ off \in Nat /\ left \in Nat /\ v \in Nat /\ off + left <= MAXFILE * BSIZE /\ m <= left
  BY DEF WriteOp
<1> HIDE DEF off, left, v, before
<1>2. p = [kind |-> "write", off |-> off + m, left |-> left - m, v |-> v, before |-> before]
  BY <1>1
<1>3. off + m \in Nat /\ left - m \in Nat /\ (off + m) + (left - m) = off + left
  BY <1>1
<1>4. p.off = off + m /\ p.left = left - m /\ p.v = v /\ p.before = before
  BY ONLY <1>2
<1>5. p.off + p.left <= MAXFILE * BSIZE
  BY <1>1, <1>3, <1>4
<1> QED BY <1>1, <1>2, <1>3, <1>4, <1>5 DEF WriteOp

LEMMA WriteiBlockKeeps ==
  ASSUME BmapInv, NEW f \in BFiles, WriteiBlock(f)
  PROVE  BmapInv'
<1> DEFINE off == op[f].off  bn == off \div BSIZE  c == WalkTree(f, bn)
           m == Least(op[f].left, BSIZE - (off % BSIZE))
           at == (off % BSIZE)..((off % BSIZE) + m - 1)
           v == [i \in 0..(BSIZE - 1) |-> IF i \in at THEN op[f].v ELSE c.s.block[c.at][i]]
<1>1. /\ op[f].kind = "write" /\ op[f].left > 0 /\ ~c.full /\ used' = c.s.used
      /\ block' = [c.s.block EXCEPT ![c.at] =
                     [i \in 0..(BSIZE - 1) |-> IF i \in at THEN op[f].v ELSE @[i]]]
      /\ addrs' = [addrs EXCEPT ![f] = c.addrs]
      /\ op' = [op EXCEPT ![f].off = @ + m, ![f].left = @ - m]
      /\ UNCHANGED <<size, calls, state>>
  BY DEF WriteiBlock
<1>2. WriteOp(op[f])
  BY <1>1, WriteOps DEF BmapInv
<1>3. /\ off \in Nat /\ op[f].left \in Nat /\ op[f].v \in Nat /\ off + op[f].left <= MAXFILE * BSIZE
      /\ MAXFILE * BSIZE \in Nat
  <2>1. MAXFILE \in Nat /\ BSIZE \in Nat
    BY MaxFileIs, BmapNumbers
  <2>2. MAXFILE * BSIZE \in Nat
    BY <2>1
  <2> QED BY <1>2, <2>2 DEF WriteOp
<1>4. off < MAXFILE * BSIZE
  <2> DEFINE N == MAXFILE * BSIZE
  <2>1. off + op[f].left <= N /\ N \in Nat
    BY <1>3
  <2> HIDE DEF N
  <2>3. off \in Nat /\ op[f].left \in Nat /\ op[f].left > 0
    BY <1>1, <1>3
  <2>2. off < N
    BY ONLY <2>1, <2>3
  <2> QED BY <2>2 DEF N
<1>5. bn \in 0..(MAXFILE - 1) /\ off % BSIZE \in Words
  BY <1>3, <1>4, BlockNumber
<1>6. m \in Nat /\ m <= op[f].left
  BY <1>3, <1>5, BmapNumbers DEF Words, Least
<1> HIDE DEF bn, m
<1>11. PICK own : Disk(used, block, addrs) /\ Forest(used, block, addrs, own)
  BY DEF BmapInv, DiskInv
<1>7. Walked(c, Before(own), f, Path(bn))
  BY <1>5, <1>11, WalkGives
<1> HIDE DEF c, at
<1>8. v \in [Words -> Nat] /\ block' = [c.s.block EXCEPT ![c.at] = v]
  <2>1. c.s.block \in [DBlocks -> [Words -> Nat]] /\ c.at \in DBlocks
    BY <1>7 DEF Walked, WalkStates
  <2>2. v \in [Words -> Nat]
    BY <1>3, <2>1 DEF Words
  <2> QED BY <1>1, <2>1, <2>2
<1>9. DiskInv'
  <2> HIDE DEF v
  <2> QED BY <1>1, <1>7, <1>8, LeafWrite DEF BmapInv
<1>10. OpsInv'
  <2>1. op'[f] = [op[f] EXCEPT !.off = @ + m, !.left = @ - m]
    BY <1>1 DEF BmapInv, OpsInv
  <2>3. WriteOp(op'[f])
    BY <1>2, <1>6, <2>1, WriteMoved
  <2>4. DOMAIN op' = BFiles /\ \A g \in BFiles : g # f => op'[g] = op[g]
    BY <1>1 DEF BmapInv, OpsInv
  <2> QED BY <1>1, <2>3, <2>4 DEF BmapInv, OpsInv
<1> QED BY <1>9, <1>10 DEF BmapInv

LEMMA DiskKept ==
  ASSUME DiskInv, used' = used, block' = block, addrs' = addrs
  PROVE  DiskInv'
BY DEF DiskInv, Disk, Forest, SlotsLead, EntriesLead, Hangs

LEMMA StartWriteiKeeps ==
  ASSUME BmapInv, NEW f \in BFiles, NEW r \in Requests, StartWritei(f, r[1], r[2])
  PROVE  BmapInv'
<1> DEFINE o == [kind |-> "write", off |-> r[1], left |-> r[2], v |-> Word, before |-> WordsOf(f)]
<1>1. /\ op' = [op EXCEPT ![f] = o] /\ calls' = calls + 1 /\ r[1] + r[2] <= MAXFILE * BSIZE
      /\ UNCHANGED <<used, block, addrs, size, state>>
  BY DEF StartWritei
<1>2. r[1] \in Nat /\ r[2] \in Nat /\ Word \in Nat
  BY BmapNumbers DEF Word, BmapInv, OpsInv
<1>3. WriteOp(o)
  BY <1>1, <1>2 DEF WriteOp
<1> HIDE DEF o
<1>4. OpsInv'
  BY <1>1, <1>3 DEF BmapInv, OpsInv
<1> QED BY <1>1, <1>4, DiskKept DEF BmapInv

LEMMA StartItruncKeeps ==
  ASSUME BmapInv, NEW f \in BFiles, StartItrunc(f)
  PROVE  BmapInv'
<1> DEFINE o == [kind |-> "trunc", slot |-> 0, before |-> <<>>]
<1>1. /\ op' = [op EXCEPT ![f] = o] /\ calls' = calls + 1
      /\ UNCHANGED <<used, block, addrs, size, state>>
  BY DEF StartItrunc
<1>3. TruncOp(o)
  BY DEF TruncOp
<1> HIDE DEF o
<1>4. OpsInv'
  BY <1>1, <1>3 DEF BmapInv, OpsInv
<1> QED BY <1>1, <1>4, DiskKept DEF BmapInv

LEMMA SizeKeeps ==
  ASSUME BmapInv, NEW f \in BFiles, NEW n \in 0..(MAXFILE * BSIZE), size' = [size EXCEPT ![f] = n],
         op' = [op EXCEPT ![f] = Idle], UNCHANGED <<used, block, addrs, calls, state>>
  PROVE  BmapInv'
<1>1. OpsInv'
  BY DEF BmapInv, OpsInv
<1> QED BY <1>1, DiskKept DEF BmapInv

LEMMA WriteiEndKeeps ==
  ASSUME BmapInv, NEW f \in BFiles, WriteiEnd(f)
  PROVE  BmapInv'
<1> DEFINE n == IF op[f].off > size[f] THEN op[f].off ELSE size[f]
<1>1. /\ size' = [size EXCEPT ![f] = n] /\ op' = [op EXCEPT ![f] = Idle]
      /\ op[f].kind = "write" /\ op[f].left = 0
      /\ UNCHANGED <<used, block, addrs, calls, state>>
  BY DEF WriteiEnd
<1>2. WriteOp(op[f])
  BY <1>1, WriteOps DEF BmapInv
<1>3. n \in 0..(MAXFILE * BSIZE)
  BY <1>1, <1>2 DEF WriteOp, BmapInv, OpsInv
<1> HIDE DEF n
<1> QED BY <1>1, <1>3, SizeKeeps

LEMMA ItruncEndKeeps ==
  ASSUME BmapInv, NEW f \in BFiles, ItruncEnd(f)
  PROVE  BmapInv'
<1>1. 0 \in 0..(MAXFILE * BSIZE)
  BY MaxFileIs, BmapNumbers
<1> QED BY <1>1, SizeKeeps DEF ItruncEnd

\* One level of a tree: h levels above the data, in file f.
Level(S, f, h, own) == S \subseteq Data(used) /\ \A b \in S : own[b].file = f /\ own[b].h = h

LEMMA KidsAre ==
  ASSUME NEW own, Forest(used, block, addrs, own), NEW S, NEW f, NEW h \in Nat \ {0}, Level(S, f, h, own)
  PROVE  /\ Level(Kids(S), f, h - 1, own) /\ \A b \in Kids(S) : own[b].up \in S
         /\ \A b \in S, i \in Words : block[b][i] # 0 => block[b][i] \in Kids(S)
<1>1. ASSUME NEW x \in Kids(S)
      PROVE  x \in Data(used) /\ own[x].file = f /\ own[x].h = h - 1 /\ own[x].up \in S
  <2>1. PICK b \in S, i \in Words : x = block[b][i] /\ x # 0
    BY <1>1 DEF Kids, Words
  <2>2. x \in Data(used) /\ own[x] = HomeOf(own[b].file, own[b].h - 1, b, i)
    BY <2>1 DEF Level, Forest, EntriesLead
  <2> QED BY <2>1, <2>2 DEF Level, HomeOf
<1>2. \A b \in S, i \in Words : block[b][i] # 0 => block[b][i] \in Kids(S)
  BY DEF Kids, Words
<1> QED BY <1>1, <1>2 DEF Level

SlotRoot(f, i) == {addrs[f][i]} \ {0}

LEMMA RootIs ==
  ASSUME NEW own, Forest(used, block, addrs, own), NEW f \in BFiles, NEW i \in ASlots
  PROVE  /\ Level(SlotRoot(f, i), f, Height(i), own)
         /\ \A b \in SlotRoot(f, i) : own[b].up = 0 /\ own[b].i = i
         /\ addrs[f][i] # 0 => addrs[f][i] \in SlotRoot(f, i)
<1>1. ASSUME NEW b \in SlotRoot(f, i)
      PROVE  b \in Data(used) /\ own[b].file = f /\ own[b].h = Height(i) /\ own[b].up = 0 /\ own[b].i = i
  <2>1. b = addrs[f][i] /\ b # 0
    BY DEF SlotRoot
  <2>2. b \in Data(used) /\ own[b] = HomeOf(f, Height(i), 0, i)
    BY <2>1 DEF Forest, SlotsLead
  <2> QED BY <2>2 DEF HomeOf
<1>2. addrs[f][i] # 0 => addrs[f][i] \in SlotRoot(f, i)
  BY DEF SlotRoot
<1> QED BY <1>1, <1>2 DEF Level

LEMMA TreeIs ==
  ASSUME NEW own, Forest(used, block, addrs, own), NEW f \in BFiles, NEW i \in ASlots
  PROVE  Subtree(Tree(f, i), f, i, used, block, addrs, own)
<1> DEFINE r == SlotRoot(f, i)  k1 == Kids(r)  k2 == Kids(k1)  k3 == Kids(k2)
<1>1. /\ Level(r, f, Height(i), own) /\ (\A b \in r : own[b].up = 0 /\ own[b].i = i)
      /\ (addrs[f][i] # 0 => addrs[f][i] \in r) /\ Height(i) \in 0..3
  BY RootIs, HeightIs
<1>2. Height(i) > 0 => /\ Level(k1, f, Height(i) - 1, own) /\ \A b \in k1 : own[b].up \in r
                       /\ \A b \in r, j \in Words : block[b][j] # 0 => block[b][j] \in k1
  BY <1>1, KidsAre
<1>3. Height(i) > 1 => /\ Level(k2, f, Height(i) - 2, own) /\ \A b \in k2 : own[b].up \in k1
                       /\ \A b \in k1, j \in Words : block[b][j] # 0 => block[b][j] \in k2
  <2> SUFFICES ASSUME Height(i) > 1
               PROVE  /\ Level(k2, f, Height(i) - 2, own) /\ \A b \in k2 : own[b].up \in k1
                      /\ \A b \in k1, j \in Words : block[b][j] # 0 => block[b][j] \in k2
    OBVIOUS
  <2>1. Height(i) - 1 \in Nat \ {0} /\ (Height(i) - 1) - 1 = Height(i) - 2 /\ Level(k1, f, Height(i) - 1, own)
    BY <1>1, <1>2
  <2> HIDE DEF k1
  <2>2. Level(k2, f, (Height(i) - 1) - 1, own) /\ (\A b \in k2 : own[b].up \in k1)
        /\ \A b \in k1, j \in Words : block[b][j] # 0 => block[b][j] \in k2
    BY <2>1, KidsAre
  <2> QED BY <2>1, <2>2
<1>4. Height(i) > 2 => /\ Level(k3, f, Height(i) - 3, own) /\ \A b \in k3 : own[b].up \in k2
                       /\ \A b \in k2, j \in Words : block[b][j] # 0 => block[b][j] \in k3
  <2> SUFFICES ASSUME Height(i) > 2
               PROVE  /\ Level(k3, f, Height(i) - 3, own) /\ \A b \in k3 : own[b].up \in k2
                      /\ \A b \in k2, j \in Words : block[b][j] # 0 => block[b][j] \in k3
    OBVIOUS
  <2>1. Height(i) - 2 \in Nat \ {0} /\ (Height(i) - 2) - 1 = Height(i) - 3 /\ Level(k2, f, Height(i) - 2, own)
    BY <1>1, <1>3
  <2> HIDE DEF k2
  <2>2. Level(k3, f, (Height(i) - 2) - 1, own) /\ (\A b \in k3 : own[b].up \in k2)
        /\ \A b \in k2, j \in Words : block[b][j] # 0 => block[b][j] \in k3
    BY <2>1, KidsAre
  <2> QED BY <2>1, <2>2
<1>5. /\ (Height(i) = 0 <=> i < NDIRECT) /\ (Height(i) = 1 <=> i = NDIRECT)
      /\ (Height(i) = 2 <=> i = D_NINDIRECT_ADRS) /\ (Height(i) = 3 <=> i = T_NINDIRECT_ADRS)
      /\ i \in Nat
  BY HeightIs
<1> DEFINE T == Tree(f, i)
<1>6. /\ (Height(i) = 0 => T = r) /\ (Height(i) = 1 => T = r \cup k1)
      /\ (Height(i) = 2 => T = r \cup k1 \cup k2) /\ (Height(i) = 3 => T = r \cup k1 \cup k2 \cup k3)
  BY <1>5, BmapNumbers DEF Tree, SlotRoot
<1> HIDE DEF r, k1, k2, k3, T
<1>7. Subtree(T, f, i, used, block, addrs, own)
  <2>1. CASE Height(i) = 0
    BY <1>1, <1>6, <2>1 DEF Subtree, Level
  <2>2. CASE Height(i) = 1
    BY <1>1, <1>2, <1>6, <2>2 DEF Subtree, Level
  <2>3. CASE Height(i) = 2
    BY <1>1, <1>2, <1>3, <1>6, <2>3 DEF Subtree, Level
  <2>4. CASE Height(i) = 3
    BY <1>1, <1>2, <1>3, <1>4, <1>6, <2>4 DEF Subtree, Level
  <2> QED BY <1>1, <2>1, <2>2, <2>3, <2>4
<1> QED BY <1>7 DEF T

LEMMA ItruncSlotKeeps ==
  ASSUME BmapInv, NEW f \in BFiles, ItruncSlot(f)
  PROVE  BmapInv'
<1> DEFINE i == op[f].slot  T == Tree(f, i)  o == [op[f] EXCEPT !.slot = @ + 1]
<1>1. /\ op[f].kind = "trunc" /\ i <= T_NINDIRECT_ADRS /\ used' = used \ T
      /\ addrs' = [addrs EXCEPT ![f][i] = 0] /\ op' = [op EXCEPT ![f] = o]
      /\ UNCHANGED <<block, size, calls, state>>
  BY DEF ItruncSlot
<1>2. TruncOp(op[f])
  BY <1>1, WriteOps DEF BmapInv
<1>3. i \in ASlots
  BY <1>1, <1>2 DEF TruncOp, ASlots
<1>4. TruncOp(o)
  BY <1>2 DEF TruncOp
<1> HIDE DEF i, o
<1>5. PICK own : Disk(used, block, addrs) /\ Forest(used, block, addrs, own)
  BY DEF BmapInv, DiskInv
<1>6. Subtree(T, f, i, used, block, addrs, own)
  BY <1>3, <1>5, TreeIs
<1> HIDE DEF T
<1>7. Disk(used \ T, block, addrs') /\ Forest(used \ T, block, addrs', own)
  <2>1. used \in SUBSET DBlocks
    BY <1>5 DEF Disk
  <2> QED BY <1>1, <1>3, <1>5, <1>6, <2>1, SubtreeLeaves
<1>8. DiskInv'
  <2>1. Disk(used', block', addrs') /\ Forest(used', block', addrs', own)
    BY <1>1, <1>7
  <2> QED BY <2>1 DEF DiskInv, Disk, Forest, SlotsLead, EntriesLead, Hangs
<1>9. OpsInv'
  BY <1>1, <1>4 DEF BmapInv, OpsInv
<1> QED BY <1>8, <1>9 DEF BmapInv

LEMMA BmapNextKeeps == BmapInv /\ [BmapNext]_bmapVars => BmapInv'
<1> SUFFICES ASSUME BmapInv, [BmapNext]_bmapVars PROVE BmapInv'
  OBVIOUS
<1>1. CASE Boot
  BY <1>1, DiskKept DEF Boot, BmapInv, OpsInv
<1>2. ASSUME NEW f \in BFiles, Iappend(f) PROVE BmapInv'
  BY <1>2, IappendKeeps
<1>3. ASSUME NEW f \in BFiles, NEW r \in Requests, StartWritei(f, r[1], r[2]) PROVE BmapInv'
  BY <1>3, StartWriteiKeeps
<1>4. ASSUME NEW f \in BFiles, WriteiBlock(f) PROVE BmapInv'
  BY <1>4, WriteiBlockKeeps
<1>5. ASSUME NEW f \in BFiles, OutOfBlocks(f) PROVE BmapInv'
  BY <1>5, DiskKept DEF OutOfBlocks, BmapInv, OpsInv
<1>6. ASSUME NEW f \in BFiles, WriteiEnd(f) PROVE BmapInv'
  BY <1>6, WriteiEndKeeps
<1>7. ASSUME NEW f \in BFiles, StartItrunc(f) PROVE BmapInv'
  BY <1>7, StartItruncKeeps
<1>8. ASSUME NEW f \in BFiles, ItruncSlot(f) PROVE BmapInv'
  BY <1>8, ItruncSlotKeeps
<1>9. ASSUME NEW f \in BFiles, ItruncEnd(f) PROVE BmapInv'
  BY <1>9, ItruncEndKeeps
<1>10. CASE UNCHANGED bmapVars
  BY <1>10, DiskKept DEF bmapVars, BmapInv, OpsInv
<1> QED BY <1>1, <1>2, <1>3, <1>4, <1>5, <1>6, <1>7, <1>8, <1>9, <1>10 DEF BmapNext

LEMMA BmapInvHolds == BmapSpec => []BmapInv
BY BmapInitHolds, BmapNextKeeps, PTL DEF BmapSpec

LEMMA BmapTypes == BmapInv => BmapTypeOK
BY DEF BmapInv, DiskInv, OpsInv, Disk, BmapTypeOK, ASlots, Words

\* The bitmap and the block numbers stay on the disk, and files below MAXFILE,
\* through bmap(), writei() and itrunc() (fs.c:377-613).
THEOREM BmapTyped == BmapSpec => []BmapTypeOK
BY BmapInvHolds, BmapTypes, PTL
-----------------------------------------------------------------------------
\* The indirect blocks of a file are those that hang above others in it.
LEMMA IndexDown ==
  ASSUME NEW own, Forest(used, block, addrs, own), NEW f \in BFiles, NEW s \in ASlots,
         NEW b \in Index(f, s)
  PROVE  b \in Data(used) /\ own[b].file = f /\ own[b].h > 0
<1> DEFINE r == SlotRoot(f, s)  k1 == Kids(r)  k2 == Kids(k1)
<1>1. /\ (Height(s) = 0 <=> s < NDIRECT) /\ (Height(s) = 1 <=> s = NDIRECT)
      /\ (Height(s) = 2 <=> s = D_NINDIRECT_ADRS) /\ (Height(s) = 3 <=> s = T_NINDIRECT_ADRS)
      /\ s \in Nat /\ Height(s) \in 0..3
  BY HeightIs
<1>2. /\ (Height(s) = 0 => Index(f, s) = {}) /\ (Height(s) = 1 => Index(f, s) = r)
      /\ (Height(s) = 2 => Index(f, s) = r \cup k1) /\ (Height(s) = 3 => Index(f, s) = r \cup k1 \cup k2)
  BY <1>1, BmapNumbers DEF Index, SlotRoot
<1>3. Level(r, f, Height(s), own)
  BY RootIs
<1>4. Height(s) > 1 => Level(k1, f, Height(s) - 1, own)
  BY <1>1, <1>3, KidsAre
<1> HIDE DEF r, k1
<1>5. Height(s) > 2 => Level(k2, f, Height(s) - 2, own)
  <2> SUFFICES ASSUME Height(s) > 2 PROVE Level(k2, f, Height(s) - 2, own)
    OBVIOUS
  <2>1. Height(s) - 1 \in Nat \ {0} /\ (Height(s) - 1) - 1 = Height(s) - 2 /\ Level(k1, f, Height(s) - 1, own)
    BY <1>1, <1>4
  <2>2. Level(k2, f, (Height(s) - 1) - 1, own)
    BY <2>1, KidsAre
  <2> QED BY <2>1, <2>2
<1> HIDE DEF k2
<1>6. CASE Height(s) = 1
  BY <1>2, <1>3, <1>6 DEF Level
<1>7. CASE Height(s) = 2
  BY <1>2, <1>3, <1>4, <1>7 DEF Level
<1>8. CASE Height(s) = 3
  BY <1>2, <1>3, <1>4, <1>5, <1>8 DEF Level
<1> QED BY <1>1, <1>2, <1>6, <1>7, <1>8

\* A block has the slot or a block above it.
LEMMA Above ==
  ASSUME NEW own, Disk(used, block, addrs), Forest(used, block, addrs, own), NEW b \in Data(used)
  PROVE  LET o == own[b] IN
         /\ o.file \in BFiles /\ o.h \in 0..3 /\ b # 0
         /\ \/ o.up = 0 /\ o.i \in ASlots /\ o.h = Height(o.i) /\ addrs[o.file][o.i] = b
                /\ b \in SlotRoot(o.file, o.i)
            \/ /\ o.up # 0 /\ o.up \in Data(used) /\ own[o.up].h = o.h + 1 /\ own[o.up].file = o.file
               /\ o.i \in Words /\ block[o.up][o.i] = b /\ \A S : o.up \in S => b \in Kids(S)
<1> DEFINE o == own[b]
<1>1. used \in SUBSET DBlocks /\ b \in DBlocks /\ b # 0 /\ 0 \notin Data(used)
  BY DataOnly DEF Disk
<1>2. o \in Homes /\ Hangs(b, used, block, addrs, own)
  BY <1>1 DEF Forest
<1>3. o.file \in BFiles /\ o.h \in 0..3
  BY <1>2 DEF Homes
<1>4. CASE /\ o.up = 0 /\ o.i \in ASlots /\ o.h = Height(o.i) /\ addrs[o.file][o.i] = b
  BY <1>1, <1>3, <1>4 DEF SlotRoot
<1>5. CASE /\ o.up \in Data(used) /\ own[o.up].h = o.h + 1 /\ own[o.up].file = o.file
           /\ o.i \in Words /\ block[o.up][o.i] = b
  <2>1. \A S : o.up \in S => b \in Kids(S)
    BY <1>1, <1>5 DEF Kids, Words
  <2> QED BY <1>1, <1>3, <1>5, <2>1
<1> QED BY <1>2, <1>4, <1>5 DEF Hangs

LEMMA IndexUp ==
  ASSUME NEW own, Disk(used, block, addrs), Forest(used, block, addrs, own), NEW b \in Data(used),
         own[b].h > 0
  PROVE  \E s \in ASlots : b \in Index(own[b].file, s)
<1> DEFINE f == own[b].file
           S1 == NDIRECT  S2 == D_NINDIRECT_ADRS  S3 == T_NINDIRECT_ADRS
           R1 == SlotRoot(f, S1)  R2 == SlotRoot(f, S2)  R3 == SlotRoot(f, S3)
<1>1. /\ S1 \in ASlots /\ S2 \in ASlots /\ S3 \in ASlots
      /\ Index(f, S1) = R1 /\ Index(f, S2) = R2 \cup Kids(R2)
      /\ Index(f, S3) = R3 \cup Kids(R3) \cup Kids(Kids(R3))
  BY BmapNumbers DEF ASlots, Index, SlotRoot
<1> HIDE DEF f
<1>2. \A i \in ASlots : /\ (Height(i) = 1 => i = S1) /\ (Height(i) = 2 => i = S2) /\ (Height(i) = 3 => i = S3)
  BY HeightIs
<1>3. f = own[b].file
  BY DEF f
<1> HIDE DEF R1, R2, R3, S1, S2, S3
<1> DEFINE In(x, k) == x \in Data(used) /\ own[x].file = f /\ own[x].h = k
<1>4. ASSUME NEW x, In(x, 3) PROVE x \in R3
  BY <1>2, <1>4, Above DEF R3
<1>5. ASSUME NEW x, In(x, 2) PROVE x \in R2 \/ x \in Kids(R3)
  <2>1. CASE own[x].up = 0
    BY <1>2, <1>5, <2>1, Above DEF R2
  <2>2. CASE own[x].up # 0
    <3>1. In(own[x].up, 3) /\ \A S : own[x].up \in S => x \in Kids(S)
      BY <1>5, <2>2, Above
    <3> QED BY <1>4, <3>1
  <2> QED BY <2>1, <2>2
<1>6. ASSUME NEW x, In(x, 1) PROVE x \in R1 \/ x \in Kids(R2) \/ x \in Kids(Kids(R3))
  <2>1. CASE own[x].up = 0
    BY <1>2, <1>6, <2>1, Above DEF R1
  <2>2. CASE own[x].up # 0
    <3>1. In(own[x].up, 2) /\ \A S : own[x].up \in S => x \in Kids(S)
      BY <1>6, <2>2, Above
    <3> QED BY <1>5, <3>1
  <2> QED BY <2>1, <2>2
<1>7. In(b, 1) \/ In(b, 2) \/ In(b, 3)
  BY <1>3, Above
<1>8. b \in Index(f, S1) \/ b \in Index(f, S2) \/ b \in Index(f, S3)
  BY <1>1, <1>4, <1>5, <1>6, <1>7
<1> QED BY <1>1, <1>3, <1>8

\* The places of file f: the slots of ip->addrs and the entries of its
\* indirect blocks.
LEMMA PlacesAre ==
  \A p : p \in Places <=>
    \E f \in BFiles :
      \/ \E i \in ASlots : p = <<f, 0, i>> /\ addrs[f][i] # 0
      \/ \E s \in ASlots : \E b \in Index(f, s), i \in Words : p = <<f, b, i>>
BY DEF Places, ASlots, Words

\* Where block b hangs is its place, and nothing else hangs there.
LEMMA PlaceOfBlock ==
  ASSUME NEW own, Disk(used, block, addrs), Forest(used, block, addrs, own), NEW b \in Data(used),
         NEW p, p = <<own[b].file, own[b].up, own[b].i>>
  PROVE  p \in Places /\ PlaceOf(p) = b /\ b # 0
<1> DEFINE f == own[b].file  y == own[b].up  i == own[b].i
<1>1. p = <<f, y, i>> /\ p[1] = f /\ p[2] = y /\ p[3] = i /\ f \in BFiles /\ b # 0
  BY Above
<1>2. CASE y = 0 /\ i \in ASlots /\ addrs[f][i] = b
  <2>1. p \in Places
    BY <1>1, <1>2, PlacesAre
  <2> QED BY <1>1, <1>2, <2>1 DEF PlaceOf
<1>3. CASE y # 0 /\ y \in Data(used) /\ own[y].h = own[b].h + 1 /\ own[y].file = f /\ i \in Words
           /\ block[y][i] = b
  <2>1. own[y].h > 0
    BY <1>3, Above
  <2>2. \E s \in ASlots : y \in Index(f, s)
    BY <1>3, <2>1, IndexUp
  <2>3. p \in Places
    BY <1>1, <1>3, <2>2, PlacesAre
  <2> QED BY <1>1, <1>3, <2>3 DEF PlaceOf
<1> QED BY <1>2, <1>3, Above

LEMMA BlockOfPlace ==
  ASSUME NEW own, Disk(used, block, addrs), Forest(used, block, addrs, own), NEW p \in Places, PlaceOf(p) # 0,
         NEW b, b = PlaceOf(p)
  PROVE  b \in Data(used) /\ p = <<own[b].file, own[b].up, own[b].i>>
<1>1. PICK f \in BFiles :
        \/ \E i \in ASlots : p = <<f, 0, i>> /\ addrs[f][i] # 0
        \/ \E s \in ASlots : \E x \in Index(f, s), i \in Words : p = <<f, x, i>>
  BY PlacesAre
<1>2. CASE \E i \in ASlots : p = <<f, 0, i>> /\ addrs[f][i] # 0
  <2>1. PICK i \in ASlots : p = <<f, 0, i>> /\ addrs[f][i] # 0
    BY <1>2
  <2>2. b = addrs[f][i]
    BY <2>1 DEF PlaceOf
  <2>3. b \in Data(used) /\ own[b] = HomeOf(f, Height(i), 0, i)
    BY <2>1, <2>2 DEF Forest, SlotsLead
  <2>4. own[b].file = f /\ own[b].up = 0 /\ own[b].i = i
    BY <2>3 DEF HomeOf
  <2> QED BY <2>1, <2>3, <2>4
<1>3. CASE \E s \in ASlots : \E x \in Index(f, s), i \in Words : p = <<f, x, i>>
  <2>0. PICK s \in ASlots : \E x \in Index(f, s), i \in Words : p = <<f, x, i>>
    BY <1>3
  <2>1. PICK x \in Index(f, s), i \in Words : p = <<f, x, i>>
    BY <2>0
  <2>2. x \in Data(used) /\ own[x].file = f /\ own[x].h > 0
    BY <2>1, IndexDown
  <2>3. b = block[x][i] /\ x # 0
    <3>1. x # 0
      BY <2>2, Above
    <3> QED BY <2>1, <3>1 DEF PlaceOf
  <2>4. b \in Data(used) /\ own[b] = HomeOf(own[x].file, own[x].h - 1, x, i)
    BY <2>2, <2>3 DEF Forest, EntriesLead
  <2>5. own[b].file = f /\ own[b].up = x /\ own[b].i = i
    BY <2>2, <2>4 DEF HomeOf
  <2> QED BY <2>1, <2>4, <2>5
<1> QED BY <1>1, <1>2, <1>3

LEMMA OwnedOnce == DiskInv => BlocksOwned
<1> SUFFICES ASSUME DiskInv PROVE BlocksOwned
  OBVIOUS
<1> DEFINE P == {p \in Places : PlaceOf(p) # 0}  D == used \ 0..(NMETA - 1)
<1>1. PICK own : Disk(used, block, addrs) /\ Forest(used, block, addrs, own)
  BY DEF DiskInv
<1> DEFINE g == [b \in D |-> <<own[b].file, own[b].up, own[b].i>>]
<1>2. ASSUME NEW b \in D PROVE g[b] \in P /\ PlaceOf(g[b]) = b
  BY <1>1, PlaceOfBlock DEF Data
<1>3. ASSUME NEW p \in P PROVE PlaceOf(p) \in D /\ g[PlaceOf(p)] = p
  <2>1. PlaceOf(p) \in Data(used) /\ p = <<own[PlaceOf(p)].file, own[PlaceOf(p)].up, own[PlaceOf(p)].i>>
    BY <1>1, BlockOfPlace
  <2> QED BY <2>1 DEF Data
<1>4. {PlaceOf(p) : p \in P} = D
  <2> HIDE DEF P, D, g
  <2> QED BY <1>2, <1>3
<1>5. IsFiniteSet(D)
  <2>1. D \subseteq 0..(FSSIZE - 1) /\ 0 \in Int /\ FSSIZE - 1 \in Int
    BY <1>1, BmapNumbers DEF Disk, DBlocks
  <2>2. IsFiniteSet(0..(FSSIZE - 1))
    BY <2>1, FS_Interval
  <2> QED BY <2>1, <2>2, FS_Subset
<1>6. g \in Bijection(D, P)
  <2>1. g \in [D -> P]
    BY <1>2
  <2> HIDE DEF P, D, g
  <2>2. \A a \in D, b \in D : g[a] = g[b] => a = b
    BY <1>2
  <2>3. \A p \in P : \E b \in D : g[b] = p
    BY <1>3
  <2> QED BY <2>1, <2>2, <2>3 DEF Bijection, Injection, Surjection, IsInjective
<1>7. Cardinality(P) = Cardinality(D)
  <2> HIDE DEF P, D, g
  <2>1. ExistsBijection(D, P)
    BY <1>6 DEF ExistsBijection
  <2> QED BY <1>5, <2>1, FS_Bijection
<1> QED BY <1>4, <1>7 DEF BlocksOwned

\* No block is shared by two files or by two places of one, and none is leaked,
\* however the calls on several inodes take turns: balloc(), bmap() and itrunc()
\* keep the bitmap and the trees of blocks in step (fs.c:57-107, 377-527).
THEOREM BlocksOwnedAlways == BmapSpec => []BlocksOwned
<1>1. BmapInv => BlocksOwned
  BY OwnedOnce DEF BmapInv
<1> QED BY BmapInvHolds, <1>1, PTL
-----------------------------------------------------------------------------
\* Bmap implements ByteFiles.
Offsets == 0..(MAXFILE * BSIZE - 1)
Has(ad, bl, f, i) == There(ad, bl, f, i \div BSIZE)

LEMMA OffsetsAre ==
  /\ MAXFILE * BSIZE \in Nat /\ BSIZE \in Nat \ {0}
  /\ \A i \in Nat : i \in Offsets <=> i < MAXFILE * BSIZE
  /\ \A i \in Offsets : i \in Nat /\ i \div BSIZE \in 0..(MAXFILE - 1) /\ i % BSIZE \in Words
<1>1. MAXFILE \in Nat /\ BSIZE \in Nat \ {0}
  BY MaxFileIs, BmapNumbers
<1>2. MAXFILE * BSIZE \in Nat
  BY <1>1
<1> DEFINE all == MAXFILE * BSIZE
<1>3. Offsets = 0..(all - 1) /\ all \in Nat
  BY <1>2 DEF Offsets
<1> HIDE DEF all
<1>4. \A i \in Nat : i \in Offsets <=> i < all
  BY <1>3
<1>5. \A i \in Offsets : i \in Nat /\ i < all
  BY <1>3
<1>6. \A i \in Nat : i < all => i \div BSIZE \in 0..(MAXFILE - 1) /\ i % BSIZE \in Words
  BY BlockNumber DEF all
<1> QED BY <1>1, <1>2, <1>4, <1>5, <1>6 DEF all

\* What the two disks have in common of file f.
WordsKept(ad, bl, ad2, bl2, f) ==
  \A i \in Offsets : Has(ad, bl, f, i) =>
    Has(ad2, bl2, f, i) /\ WordIn(ad2, bl2, f, i) = WordIn(ad, bl, f, i)

LEMMA WordsRewritten ==
  ASSUME NEW f \in BFiles, NEW bn, NEW c, NEW v, NEW ad2, NEW bl2,
         Rewritten(f, bn, c, v, ad2, bl2)
  PROVE  /\ \A g \in BFiles : g # f => WordsKept(addrs, block, ad2, bl2, g)
         /\ \A i \in Offsets :
              /\ i \div BSIZE # bn /\ Has(addrs, block, f, i) =>
                   Has(ad2, bl2, f, i) /\ WordIn(ad2, bl2, f, i) = WordIn(addrs, block, f, i)
              /\ i \div BSIZE = bn =>
                   /\ Has(ad2, bl2, f, i) /\ WordIn(ad2, bl2, f, i) = v[i % BSIZE]
                   /\ Has(addrs, block, f, i) =>
                        c.s.block[c.at][i % BSIZE] = WordIn(addrs, block, f, i)
<1>1. ASSUME NEW g \in BFiles, NEW i \in Offsets, ~(g = f /\ i \div BSIZE = bn), Has(addrs, block, g, i)
      PROVE  Has(ad2, bl2, g, i) /\ WordIn(ad2, bl2, g, i) = WordIn(addrs, block, g, i)
  <2> DEFINE n == i \div BSIZE  b == Leaf(addrs, block, g, n)
  <2>1. n \in 0..(MAXFILE - 1) /\ There(addrs, block, g, n) /\ ~(g = f /\ n = bn)
    BY <1>1, OffsetsAre DEF Has
  <2> HIDE DEF n
  <2>2. There(ad2, bl2, g, n) /\ Leaf(ad2, bl2, g, n) = b /\ bl2[b] = block[b]
    BY <2>1 DEF Rewritten
  <2>3. WordIn(ad2, bl2, g, i) = bl2[b][i % BSIZE] /\ WordIn(addrs, block, g, i) = block[b][i % BSIZE]
    BY <2>1, <2>2, WordInIs DEF n
  <2> QED BY <2>2, <2>3 DEF Has, n
<1>2. ASSUME NEW i \in Offsets, i \div BSIZE = bn
      PROVE  /\ Has(ad2, bl2, f, i) /\ WordIn(ad2, bl2, f, i) = v[i % BSIZE]
             /\ Has(addrs, block, f, i) => c.s.block[c.at][i % BSIZE] = WordIn(addrs, block, f, i)
  <2>1. bn \in 0..(MAXFILE - 1)
    BY <1>2, OffsetsAre
  <2>2. /\ WordIn(ad2, bl2, f, i) = bl2[Leaf(ad2, bl2, f, bn)][i % BSIZE]
        /\ WordIn(addrs, block, f, i) = block[Leaf(addrs, block, f, bn)][i % BSIZE]
    BY <1>2, <2>1, WordInIs
  <2>3. There(ad2, bl2, f, bn) /\ Leaf(ad2, bl2, f, bn) = c.at /\ bl2[c.at] = v
    BY DEF Rewritten
  <2>4. There(addrs, block, f, bn) => Leaf(addrs, block, f, bn) = c.at /\ c.s.block[c.at] = block[c.at]
    BY DEF Rewritten
  <2> QED BY <1>2, <2>2, <2>3, <2>4 DEF Has
<1> QED BY <1>1, <1>2 DEF WordsKept

\* What a call leaves of file f to be seen, and what it has done to it so far.
Writing(r, o, n, ad, bl, f) ==
  /\ r[1] <= n /\ r[1] <= o.off /\ o.off + o.left = r[1] + r[2]
  /\ o.v \in 1..(MaxCalls + 1) /\ o.before = [i \in 1..n |-> o.before[i]]
  /\ \A i \in Offsets : i < n \/ i < o.off =>
       /\ Has(ad, bl, f, i)
       /\ WordIn(ad, bl, f, i) = IF r[1] <= i /\ i < o.off THEN o.v ELSE o.before[i + 1]

FileHolds(o, n, ad, bl, f) ==
  /\ o = Idle => \A i \in Offsets : i < n => Has(ad, bl, f, i)
  /\ o.kind = "write" => \E r \in Requests : Writing(r, o, n, ad, bl, f)
  /\ o.kind = "trunc" => o.before = <<>>

Showing(o, n, ad, bl, f) == IF o = Idle THEN [i \in 1..n |-> WordIn(ad, bl, f, i - 1)] ELSE o.before

WordsInv ==
  /\ \A f \in BFiles : FileHolds(op[f], size[f], addrs, block, f)
  /\ state = "mkfs" => \A f \in BFiles : op[f] = Idle

Bytes == [f \in BFiles |-> Showing(op[f], size[f], addrs, block, f)]

LEMMA BytesAre ==
  /\ Bytes  = [f \in BFiles |-> IF op[f] = Idle THEN WordsOf(f) ELSE op[f].before]
  /\ Bytes' = [f \in BFiles |-> IF op[f] = Idle THEN WordsOf(f) ELSE op[f].before]'
<1>1. \A f : WordAt(f, 0) = WordIn(addrs, block, f, 0)
  BY DEF WordAt, WordIn, WordBelow
<1>2. \A f, i : WordAt(f, i) = WordIn(addrs, block, f, i)
  BY DEF WordAt, WordIn, WordBelow
<1>3. \A f, i : WordAt(f, i)' = WordIn(addrs', block', f, i)
  BY DEF WordAt, WordIn, WordBelow
<1>4. \A f : WordsOf(f) = [i \in 1..size[f] |-> WordIn(addrs, block, f, i - 1)]
  BY <1>2 DEF WordsOf
<1>5. \A f : WordsOf(f)' = [i \in 1..size'[f] |-> WordIn(addrs', block', f, i - 1)]
  BY <1>3 DEF WordsOf
<1> QED BY <1>4, <1>5 DEF Bytes, Showing

LEMMA FileHoldsKept ==
  ASSUME NEW o, NEW n \in 0..(MAXFILE * BSIZE), NEW ad, NEW bl, NEW ad2, NEW bl2, NEW f,
         FileHolds(o, n, ad, bl, f), WordsKept(ad, bl, ad2, bl2, f)
  PROVE  FileHolds(o, n, ad2, bl2, f) /\ Showing(o, n, ad2, bl2, f) = Showing(o, n, ad, bl, f)
<1>1. CASE o = Idle
  <2>1. \A i \in Offsets : i < n => Has(ad2, bl2, f, i) /\ WordIn(ad2, bl2, f, i) = WordIn(ad, bl, f, i)
    BY <1>1 DEF FileHolds, WordsKept
  <2>2. \A i \in 1..n : i - 1 \in Offsets /\ i - 1 < n
    <3> DEFINE all == MAXFILE * BSIZE
    <3>1. n \in 0..all /\ all \in Nat /\ Offsets = 0..(all - 1)
      BY OffsetsAre DEF Offsets
    <3> HIDE DEF all
    <3> QED BY ONLY <3>1
  <2>3. \A i \in 1..n : WordIn(ad2, bl2, f, i - 1) = WordIn(ad, bl, f, i - 1)
    BY <2>1, <2>2
  <2>4. Showing(o, n, ad2, bl2, f) = Showing(o, n, ad, bl, f)
    BY <1>1, <2>3 DEF Showing
  <2>5. o.kind = "idle"
    BY <1>1 DEF Idle
  <2> QED BY <1>1, <2>1, <2>4, <2>5 DEF FileHolds
<1>2. CASE o # Idle
  <2>1. Showing(o, n, ad2, bl2, f) = Showing(o, n, ad, bl, f)
    BY <1>2 DEF Showing
  <2>2. ASSUME NEW r \in Requests, Writing(r, o, n, ad, bl, f) PROVE Writing(r, o, n, ad2, bl2, f)
    BY <2>2 DEF Writing, WordsKept
  <2> QED BY <1>2, <2>1, <2>2 DEF FileHolds
<1> QED BY <1>1, <1>2

\* A step of one file.
FileStep(old, new) ==
  \/ new = old
  \/ \E s \in Requests, v \in 1..(MaxCalls + 1) :
       s[1] <= Len(old) /\ new = Plain!Written(old, s[1], s[2], v)
  \/ \E v \in 1..(MaxCalls + 1) : new = Append(old, v)
  \/ new = <<>>

OthersKept(f) ==
  \A g \in BFiles : g # f =>
    op'[g] = op[g] /\ size'[g] = size[g] /\ WordsKept(addrs, block, addrs', block', g)

PlainStep == [Plain!Next]_[f \in BFiles |-> IF op[f] = Idle THEN WordsOf(f) ELSE op[f].before]

LEMMA OneFile ==
  ASSUME BmapInv, WordsInv, NEW f \in BFiles, OthersKept(f),
         FileHolds(op'[f], size'[f], addrs', block', f),
         FileStep(Showing(op[f], size[f], addrs, block, f), Showing(op'[f], size'[f], addrs', block', f)),
         state' = "mkfs" => state = "mkfs" /\ op'[f] = Idle
  PROVE  WordsInv' /\ PlainStep
<1> DEFINE w == Showing(op'[f], size'[f], addrs', block', f)
<1>1. ASSUME NEW g \in BFiles, g # f
      PROVE  /\ FileHolds(op'[g], size'[g], addrs', block', g)
             /\ Showing(op'[g], size'[g], addrs', block', g) = Showing(op[g], size[g], addrs, block, g)
  <2>1. size[g] \in 0..(MAXFILE * BSIZE) /\ FileHolds(op[g], size[g], addrs, block, g)
    BY DEF BmapInv, OpsInv, WordsInv
  <2>2. op'[g] = op[g] /\ size'[g] = size[g] /\ WordsKept(addrs, block, addrs', block', g)
    BY <1>1 DEF OthersKept
  <2> QED BY <2>1, <2>2, FileHoldsKept
<1>2. WordsInv'
  <2>1. \A g \in BFiles : FileHolds(op'[g], size'[g], addrs', block', g)
    BY <1>1
  <2>2. state' = "mkfs" => \A g \in BFiles : op'[g] = Idle
    BY DEF WordsInv, OthersKept
  <2> QED BY <2>1, <2>2 DEF WordsInv
<1>3. Bytes' = [Bytes EXCEPT ![f] = w] /\ Bytes[f] = Showing(op[f], size[f], addrs, block, f)
      /\ DOMAIN Bytes = BFiles
  <2>1. Bytes' = [g \in BFiles |-> Showing(op'[g], size'[g], addrs', block', g)]
    BY DEF Bytes
  <2>2. Bytes = [g \in BFiles |-> Showing(op[g], size[g], addrs, block, g)]
    BY DEF Bytes
  <2>3. \A g \in BFiles : Bytes'[g] = IF g = f THEN w ELSE Bytes[g]
    BY <1>1, <2>1, <2>2
  <2> QED BY <2>1, <2>2, <2>3
<1> DEFINE bytes == [g \in BFiles |-> IF op[g] = Idle THEN WordsOf(g) ELSE op[g].before]
           bytes2 == [g \in BFiles |-> IF op[g] = Idle THEN WordsOf(g) ELSE op[g].before]'
<1>4. bytes = Bytes /\ bytes2 = Bytes'
  BY BytesAre
<1> HIDE DEF w
<1>5. FileStep(Bytes[f], w)
  BY <1>3 DEF w
<1>6. bytes2 = bytes \/ Plain!Next
  <2> SUFFICES ASSUME bytes2 # bytes PROVE Plain!Next
    OBVIOUS
  <2>0. bytes2 = [bytes EXCEPT ![f] = w] /\ FileStep(bytes[f], w) /\ DOMAIN bytes = BFiles
    BY <1>3, <1>4, <1>5
  <2>1. w # bytes[f]
    BY <2>0
  <2>5. Plain!Next <=>
          /\ bytes2 # bytes
          /\ \E g \in BFiles :
               \/ \E s \in Requests, v \in 1..(MaxCalls + 1) :
                    s[1] <= Len(bytes[g]) /\ bytes2 = [bytes EXCEPT ![g] = Plain!Written(@, s[1], s[2], v)]
               \/ \E v \in 1..(MaxCalls + 1) : bytes2 = [bytes EXCEPT ![g] = Append(@, v)]
               \/ bytes2 = [bytes EXCEPT ![g] = <<>>]
    BY DEF Plain!Next
  <2> HIDE DEF bytes, bytes2
  <2>2. CASE \E s \in Requests, v \in 1..(MaxCalls + 1) :
               s[1] <= Len(bytes[f]) /\ w = Plain!Written(bytes[f], s[1], s[2], v)
    <3>1. PICK s \in Requests, v \in 1..(MaxCalls + 1) :
            s[1] <= Len(bytes[f]) /\ w = Plain!Written(bytes[f], s[1], s[2], v)
      BY <2>2
    <3>2. bytes2 = [bytes EXCEPT ![f] = Plain!Written(@, s[1], s[2], v)]
      BY <2>0, <3>1
    <3> QED BY <2>5, <3>1, <3>2
  <2>3. CASE \E v \in 1..(MaxCalls + 1) : w = Append(bytes[f], v)
    <3>1. PICK v \in 1..(MaxCalls + 1) : w = Append(bytes[f], v)
      BY <2>3
    <3>2. bytes2 = [bytes EXCEPT ![f] = Append(@, v)]
      BY <2>0, <3>1
    <3> QED BY <2>5, <3>2
  <2>4. CASE w = <<>>
    BY <2>0, <2>4, <2>5
  <2> QED BY <2>0, <2>1, <2>2, <2>3, <2>4 DEF FileStep
<1> QED BY <1>2, <1>6 DEF PlainStep
LEMMA Filled ==
  ASSUME NEW n \in Nat, NEW s, s = [i \in 1..n |-> s[i]]
  PROVE  s \in Seq({s[i] : i \in 1..n}) /\ Len(s) = n
<1> DEFINE T == {s[i] : i \in 1..n}
<1>1. s \in [1..n -> T]
  <2>1. \A i \in 1..n : s[i] \in T
    OBVIOUS
  <2> HIDE DEF T
  <2> QED BY <2>1
<1> HIDE DEF T
<1>2. s \in Seq(T) /\ Len(s) = n
  BY <1>1
<1> QED BY <1>2 DEF T

Extends(t, s, n, v) ==
  /\ n \in Nat /\ s = [i \in 1..n |-> s[i]] /\ t = [i \in 1..(n + 1) |-> t[i]]
  /\ (\A i \in 1..n : t[i] = s[i]) /\ t[n + 1] = v

LEMMA AppendedIs ==
  ASSUME NEW n, NEW s, NEW t, NEW v, Extends(t, s, n, v)
  PROVE  t = Append(s, v)
<1>0. /\ n \in Nat /\ s = [i \in 1..n |-> s[i]] /\ t = [i \in 1..(n + 1) |-> t[i]]
      /\ (\A i \in 1..n : t[i] = s[i]) /\ t[n + 1] = v
  BY DEF Extends
<1> DEFINE T == {s[i] : i \in 1..n} \cup {v}  a == Append(s, v)
<1>1. s \in Seq({s[i] : i \in 1..n}) /\ Len(s) = n
  BY <1>0, Filled
<1>2. s \in Seq(T) /\ v \in T
  BY <1>1
<1> HIDE DEF T
<1>3. a \in Seq(T) /\ Len(a) = n + 1 /\ (\A i \in 1..n : a[i] = s[i]) /\ a[n + 1] = v
  BY <1>0, <1>1, <1>2
<1> HIDE DEF a
<1>4. a = [i \in 1..(n + 1) |-> a[i]]
  BY <1>0, <1>3
<1>5. \A i \in 1..(n + 1) : t[i] = a[i]
  <2>1. \A i \in 1..(n + 1) : i = n + 1 \/ i \in 1..n
    BY <1>0
  <2> QED BY <1>0, <1>3, <2>1
<1>6. t = a
  BY <1>0, <1>4, <1>5
<1> QED BY <1>6 DEF a

LEMMA SameBlock ==
  ASSUME NEW a \in Nat, NEW i \in Nat
  PROVE  /\ i \div BSIZE = a \div BSIZE => i - a = (i % BSIZE) - (a % BSIZE)
         /\ a <= i /\ (a % BSIZE) + (i - a) < BSIZE => i \div BSIZE = a \div BSIZE
<1> DEFINE n == BSIZE  qa == a \div n  ra == a % n  qi == i \div n  ri == i % n
<1>0. n \in Nat \ {0}
  BY OffsetsAre
<1> HIDE DEF n
<1>1. a = n * qa + ra /\ qa \in Nat /\ ra \in 0..(n - 1) /\ i = n * qi + ri /\ qi \in Nat /\ ri \in 0..(n - 1)
  BY ONLY <1>0, Quotients, a \in Nat, i \in Nat
<1> HIDE DEF qa, ra, qi, ri
<1>2. ASSUME qi = qa PROVE i - a = ri - ra
  <2> DEFINE m == n * qa
  <2>1. a = m + ra /\ i = m + ri /\ m \in Nat /\ ra \in Nat /\ ri \in Nat
    BY <1>0, <1>1, <1>2
  <2> HIDE DEF m
  <2> QED BY ONLY <2>1
<1>3. ASSUME a <= i, ra + (i - a) < n PROVE qi = qa
  <2> DEFINE m == n * qa  r == ra + (i - a)
  <2>1. a = m + ra /\ m \in Nat
    BY <1>0, <1>1
  <2> HIDE DEF m
  <2>2. r \in 0..(n - 1) /\ i = m + r
    BY <1>0, <1>1, <1>3, <2>1
  <2> HIDE DEF r
  <2>3. i = n * qa + r
    BY <2>2 DEF m
  <2> QED BY <1>0, <1>1, <2>2, <2>3, Remainders DEF qi
<1> QED BY <1>2, <1>3 DEF n, qa, ra, qi, ri

LEMMA NothingMoved ==
  ASSUME NEW f \in BFiles, addrs'[f] = addrs[f], block' = block
  PROVE  WordsKept(addrs, block, addrs', block', f)
<1>1. \A x : Lead(addrs'[f], block', x, Depth(x)) = Lead(addrs[f], block, x, Depth(x))
  OBVIOUS
<1>2. ASSUME NEW i \in Offsets PROVE Has(addrs', block', f, i) <=> Has(addrs, block, f, i)
  BY DEF Has, There
<1>3. ASSUME NEW i \in Offsets PROVE WordIn(addrs', block', f, i) = WordIn(addrs, block, f, i)
  <2>1. Leaf(addrs', block', f, i \div BSIZE) = Leaf(addrs, block, f, i \div BSIZE)
    BY DEF Leaf
  <2>2. WordIn(addrs', block', f, i) = block'[Leaf(addrs', block', f, i \div BSIZE)][i % BSIZE]
        /\ WordIn(addrs, block, f, i) = block[Leaf(addrs, block, f, i \div BSIZE)][i % BSIZE]
    BY OffsetsAre, WordInIs
  <2> QED BY <2>1, <2>2
<1> QED BY <1>2, <1>3 DEF WordsKept

LEMMA Calm ==
  ASSUME BmapInv, NEW f \in BFiles
  PROVE  /\ size[f] \in 0..(MAXFILE * BSIZE) /\ size[f] \in Nat /\ calls \in Nat
         /\ Idle.kind = "idle" /\ DOMAIN op = BFiles
         /\ \A i \in Nat : i < size[f] => i \in Offsets
         /\ op[f].kind = "write" => WriteOp(op[f])
         /\ op[f].kind = "trunc" => TruncOp(op[f])
<1> DEFINE all == MAXFILE * BSIZE
<1>1. size[f] \in 0..all /\ all \in Nat /\ \A i \in Nat : i \in Offsets <=> i < all
  BY OffsetsAre DEF BmapInv, OpsInv
<1> HIDE DEF all
<1>2. size[f] \in Nat /\ \A i \in Nat : i < size[f] => i \in Offsets
  BY <1>1
<1> QED BY <1>1, <1>2, WriteOps DEF BmapInv, OpsInv, all

LEMMA StartWriteiMaps ==
  ASSUME BmapInv, WordsInv, NEW f \in BFiles, NEW r \in Requests, StartWritei(f, r[1], r[2])
  PROVE  WordsInv' /\ PlainStep
<1> DEFINE o == [kind |-> "write", off |-> r[1], left |-> r[2], v |-> Word, before |-> WordsOf(f)]
           n == size[f]
<1>1. /\ op' = [op EXCEPT ![f] = o] /\ r[1] <= n /\ calls < MaxCalls /\ op[f] = Idle /\ state = "up"
      /\ UNCHANGED <<used, block, addrs, size, state>>
  BY DEF StartWritei
<1>2. r[1] \in Nat /\ r[2] \in Nat /\ MaxCalls \in Nat /\ calls \in Nat /\ n \in Nat
      /\ \A i \in Nat : i < n => i \in Offsets
  BY BmapAssumption, BmapNumbers, Calm
<1>3. \A i : WordAt(f, i) = WordIn(addrs, block, f, i)
  BY DEF WordAt, WordIn, WordBelow
<1>4. WordsOf(f) = [i \in 1..n |-> WordIn(addrs, block, f, i - 1)]
  BY <1>3 DEF WordsOf
<1> DEFINE w == WordsOf(f)
<1>5. o.kind = "write" /\ o.off = r[1] /\ o.left = r[2] /\ o.v = Word /\ o.before = w /\ o # Idle
  BY DEF Idle
<1>6. \A i \in Offsets : i < n => Has(addrs, block, f, i)
  BY <1>1 DEF WordsInv, FileHolds
<1> HIDE DEF o, w, n
<1>7. Writing(r, o, n, addrs, block, f)
  <2>1. Word \in 1..(MaxCalls + 1)
    BY <1>1, <1>2 DEF Word
  <2>2. w = [i \in 1..n |-> w[i]]
    BY <1>4 DEF w
  <2>3. ASSUME NEW i \in Offsets, i < n \/ i < r[1]
        PROVE  Has(addrs, block, f, i) /\ WordIn(addrs, block, f, i) = w[i + 1] /\ ~(r[1] <= i /\ i < r[1])
    <3>1. i \in Nat /\ i < n
      BY <1>1, <1>2, <2>3, OffsetsAre
    <3>2. i + 1 \in 1..n /\ (i + 1) - 1 = i
      BY <1>2, <3>1
    <3>3. w = [j \in 1..n |-> WordIn(addrs, block, f, j - 1)]
      BY <1>4 DEF w
    <3>4. w[i + 1] = WordIn(addrs, block, f, (i + 1) - 1)
      BY <3>2, <3>3
    <3>5. w[i + 1] = WordIn(addrs, block, f, i)
      BY <3>2, <3>4
    <3>6. ~(r[1] <= i /\ i < r[1])
      BY <1>2, <3>1
    <3> QED BY <1>6, <3>1, <3>5, <3>6
  <2>4. \A i \in Offsets : i < n \/ i < o.off =>
          /\ Has(addrs, block, f, i)
          /\ WordIn(addrs, block, f, i) = IF r[1] <= i /\ i < o.off THEN o.v ELSE o.before[i + 1]
    BY <1>5, <2>3
  <2>5. /\ r[1] <= n /\ r[1] <= o.off /\ o.off + o.left = r[1] + r[2]
        /\ o.v \in 1..(MaxCalls + 1) /\ o.before = [i \in 1..n |-> o.before[i]]
    BY <1>1, <1>2, <1>5, <2>1, <2>2
  <2> QED BY <2>4, <2>5 DEF Writing
<1>8. op'[f] = o /\ size'[f] = n /\ addrs' = addrs /\ block' = block
      /\ \A g \in BFiles : g # f => op'[g] = op[g]
  BY <1>1, Calm DEF n
<1>9. OthersKept(f)
  BY <1>1, <1>8, NothingMoved DEF OthersKept
<1>10. FileHolds(op'[f], size'[f], addrs', block', f)
  BY <1>5, <1>7, <1>8 DEF FileHolds
<1>11. Showing(op'[f], size'[f], addrs', block', f) = Showing(op[f], size[f], addrs, block, f)
  BY <1>1, <1>4, <1>5, <1>8 DEF Showing, w, n
<1> QED BY <1>1, <1>9, <1>10, <1>11, OneFile DEF FileStep

LEMMA StartItruncMaps ==
  ASSUME BmapInv, WordsInv, NEW f \in BFiles, StartItrunc(f)
  PROVE  WordsInv' /\ PlainStep
<1> DEFINE o == [kind |-> "trunc", slot |-> 0, before |-> <<>>]
<1>1. op' = [op EXCEPT ![f] = o] /\ state = "up" /\ UNCHANGED <<used, block, addrs, size, state>>
  BY DEF StartItrunc
<1>2. o.kind = "trunc" /\ o.before = <<>> /\ o # Idle
  BY DEF Idle
<1> HIDE DEF o
<1>3. op'[f] = o /\ \A g \in BFiles : g # f => op'[g] = op[g]
  BY <1>1, Calm
<1>4. OthersKept(f)
  BY <1>1, <1>3, NothingMoved DEF OthersKept
<1>5. FileHolds(op'[f], size'[f], addrs', block', f) /\ Showing(op'[f], size'[f], addrs', block', f) = <<>>
  BY <1>2, <1>3 DEF FileHolds, Showing
<1> QED BY <1>1, <1>4, <1>5, OneFile DEF FileStep

LEMMA ItruncSlotMaps ==
  ASSUME BmapInv, WordsInv, NEW f \in BFiles, ItruncSlot(f)
  PROVE  WordsInv' /\ PlainStep
<1> DEFINE o == [op[f] EXCEPT !.slot = @ + 1]
<1>1. op' = [op EXCEPT ![f] = o] /\ state = "up" /\ op[f].kind = "trunc"
      /\ addrs' = [addrs EXCEPT ![f][op[f].slot] = 0] /\ UNCHANGED <<block, size, state>>
  BY DEF ItruncSlot
<1>2. TruncOp(op[f])
  BY <1>1, Calm
<1>3. op[f].before = <<>> /\ op[f] # Idle
  <2>1. op[f].before = <<>>
    BY <1>1 DEF WordsInv, FileHolds
  <2> QED BY <1>1, <2>1 DEF Idle
<1>4. o.kind = "trunc" /\ o.before = <<>> /\ o # Idle
  <2>1. o.kind = op[f].kind /\ o.before = op[f].before
    BY <1>2 DEF TruncOp
  <2> QED BY <1>1, <1>3, <2>1 DEF Idle
<1> HIDE DEF o
<1>5. op'[f] = o /\ \A g \in BFiles : g # f => op'[g] = op[g]
  BY <1>1, Calm
<1>6. \A g \in BFiles : g # f => addrs'[g] = addrs[g]
  BY <1>1 DEF BmapInv, DiskInv, Disk
<1>7. OthersKept(f)
  BY <1>1, <1>5, <1>6, NothingMoved DEF OthersKept
<1>8. FileHolds(op'[f], size'[f], addrs', block', f)
  BY <1>4, <1>5 DEF FileHolds
<1>9. Showing(op'[f], size'[f], addrs', block', f) = Showing(op[f], size[f], addrs, block, f)
  BY <1>3, <1>4, <1>5 DEF Showing
<1> QED BY <1>1, <1>7, <1>8, <1>9, OneFile DEF FileStep

LEMMA ItruncEndMaps ==
  ASSUME BmapInv, WordsInv, NEW f \in BFiles, ItruncEnd(f)
  PROVE  WordsInv' /\ PlainStep
<1>1. /\ op' = [op EXCEPT ![f] = Idle] /\ state = "up" /\ size' = [size EXCEPT ![f] = 0]
      /\ UNCHANGED <<block, addrs, state>>
  BY DEF ItruncEnd
<1>2. op'[f] = Idle /\ size'[f] = 0 /\ \A g \in BFiles : g # f => op'[g] = op[g] /\ size'[g] = size[g]
  BY <1>1, Calm DEF BmapInv, OpsInv
<1>3. OthersKept(f)
  BY <1>1, <1>2, NothingMoved DEF OthersKept
<1>4. FileHolds(op'[f], size'[f], addrs', block', f)
  <2>1. \A i \in Offsets : ~(i < 0)
    BY OffsetsAre
  <2> QED BY <1>2, <2>1 DEF FileHolds, Idle
<1>5. Showing(op'[f], size'[f], addrs', block', f) = <<>>
  <2> DEFINE s == Showing(op'[f], size'[f], addrs', block', f)
  <2>1. s = [i \in 1..0 |-> s[i]]
    BY <1>2 DEF Showing
  <2> HIDE DEF s
  <2>2. s = <<>>
    BY <2>1
  <2> QED BY <2>2 DEF s
<1> QED BY <1>1, <1>3, <1>4, <1>5, OneFile DEF FileStep
LEMMA IappendMaps ==
  ASSUME BmapInv, WordsInv, NEW f \in BFiles, Iappend(f)
  PROVE  WordsInv' /\ PlainStep
<1> DEFINE n == size[f]  bn == n \div BSIZE  c == WalkTree(f, bn)  j == n % BSIZE
           b == c.at  v == [c.s.block[b] EXCEPT ![j] = 1]
<1>1. /\ n < MaxImage /\ ~c.full /\ used' = c.s.used
      /\ block' = [c.s.block EXCEPT ![b] = v] /\ state' = state /\ state = "mkfs" /\ op' = op
      /\ addrs' = [addrs EXCEPT ![f] = c.addrs] /\ size' = [size EXCEPT ![f] = n + 1]
  BY DEF Iappend, Appended
<1>2. op[f] = Idle /\ op'[f] = Idle
  BY <1>1 DEF WordsInv
<1>3. n \in Offsets /\ n \in Nat /\ size'[f] = n + 1 /\ \A g \in BFiles : g # f => size'[g] = size[g]
  <2>1. BmapInv'
    BY IappendKeeps
  <2>2. size'[f] = n + 1 /\ \A g \in BFiles : g # f => size'[g] = size[g]
    BY <1>1 DEF BmapInv, OpsInv
  <2>3. n + 1 \in 0..(MAXFILE * BSIZE)
    BY <2>1, <2>2 DEF BmapInv, OpsInv
  <2>4. n \in Nat
    BY Calm
  <2> DEFINE all == MAXFILE * BSIZE
  <2>5. n + 1 \in 0..all /\ n \in Nat /\ (n \in Offsets <=> n < all) /\ all \in Nat
    BY <2>3, <2>4, OffsetsAre
  <2> HIDE DEF all, n
  <2>6. n \in Offsets
    BY <2>5
  <2> QED BY <2>2, <2>4, <2>6
<1>4. bn \in 0..(MAXFILE - 1) /\ j \in Words
  BY <1>3, OffsetsAre
<1>5. PICK own : Disk(used, block, addrs) /\ Forest(used, block, addrs, own)
  BY DEF BmapInv, DiskInv
<1>6. Walked(c, Before(own), f, Path(bn))
  BY <1>4, <1>5, WalkGives
<1> HIDE DEF c
<1>7. c.s.block[b] \in [Words -> Nat]
  BY <1>6 DEF Walked, WalkStates
<1> HIDE DEF b
<1>8. v[j] = 1 /\ \A k \in Words : k # j => v[k] = c.s.block[b][k]
  BY <1>4, <1>7
<1> HIDE DEF v, bn, j, n
<1>9. Rewritten(f, bn, c, v, addrs', block')
  BY <1>1, <1>4, <1>5, <1>6, LeafSet DEF b
<1>10. OthersKept(f)
  BY <1>1, <1>3, <1>9, WordsRewritten DEF OthersKept
<1>11. \A i \in Offsets : i < n => Has(addrs, block, f, i)
  BY <1>2 DEF WordsInv, FileHolds, n
<1>12. ASSUME NEW i \in Offsets, i < n
       PROVE  Has(addrs', block', f, i) /\ WordIn(addrs', block', f, i) = WordIn(addrs, block, f, i)
  <2>1. Has(addrs, block, f, i) /\ i \in Nat /\ i % BSIZE \in Words
    BY <1>11, <1>12, OffsetsAre
  <2>2. CASE i \div BSIZE # bn
    BY <1>9, <2>1, <2>2, WordsRewritten
  <2>3. CASE i \div BSIZE = bn
    <3>1. i % BSIZE # j
      <4>1. i - n = (i % BSIZE) - (n % BSIZE)
        BY <1>3, <2>1, <2>3, SameBlock DEF bn
      <4>2. n % BSIZE = j /\ j \in Nat
        BY <1>4 DEF j, Words
      <4> QED BY <1>3, <1>12, <2>1, <4>1, <4>2
    <3>2. Has(addrs', block', f, i) /\ WordIn(addrs', block', f, i) = v[i % BSIZE]
          /\ c.s.block[c.at][i % BSIZE] = WordIn(addrs, block, f, i)
      BY <1>9, <2>1, <2>3, WordsRewritten
    <3> QED BY <1>8, <2>1, <3>1, <3>2 DEF b
  <2> QED BY <2>2, <2>3
<1>13. Has(addrs', block', f, n) /\ WordIn(addrs', block', f, n) = 1
  <2>1. n \div BSIZE = bn /\ n % BSIZE = j
    BY DEF bn, j
  <2>2. Has(addrs', block', f, n) /\ WordIn(addrs', block', f, n) = v[j]
    BY <1>3, <1>9, <2>1, WordsRewritten
  <2> QED BY <1>8, <2>2
<1>14. FileHolds(op'[f], size'[f], addrs', block', f)
  <2>1. \A i \in Offsets : i < n + 1 => i < n \/ i = n
    BY <1>3, OffsetsAre
  <2>2. \A i \in Offsets : i < n + 1 => Has(addrs', block', f, i)
    BY <1>12, <1>13, <2>1
  <2>3. Idle.kind = "idle"
    BY DEF Idle
  <2> QED BY <1>2, <1>3, <2>2, <2>3 DEF FileHolds
<1>15. Showing(op'[f], size'[f], addrs', block', f) = Append(Showing(op[f], size[f], addrs, block, f), 1)
  <2> DEFINE s == [i \in 1..n |-> WordIn(addrs, block, f, i - 1)]
             t == [i \in 1..(n + 1) |-> WordIn(addrs', block', f, i - 1)]
  <2>1. Showing(op[f], size[f], addrs, block, f) = s /\ Showing(op'[f], size'[f], addrs', block', f) = t
    BY <1>2, <1>3 DEF Showing, n
  <2>2. \A i \in 1..n : i - 1 \in Offsets /\ i - 1 < n
    <3>1. \A i \in 1..n : i - 1 \in Nat /\ i - 1 < n
      BY <1>3
    <3> QED BY <3>1, Calm DEF n
  <2>3. \A i \in 1..n : WordIn(addrs', block', f, i - 1) = WordIn(addrs, block, f, i - 1)
    BY <1>12, <2>2
  <2>4. \A i \in 1..n : t[i] = s[i]
    <3>1. 1..n \subseteq 1..(n + 1)
      BY <1>3
    <3> QED BY <2>3, <3>1
  <2>5. t[n + 1] = 1
    <3>1. n + 1 \in 1..(n + 1) /\ (n + 1) - 1 = n
      BY <1>3
    <3>2. t[n + 1] = WordIn(addrs', block', f, (n + 1) - 1)
      BY <3>1
    <3> QED BY <1>13, <3>1, <3>2
  <2>6. s = [i \in 1..n |-> s[i]] /\ t = [i \in 1..(n + 1) |-> t[i]]
    OBVIOUS
  <2> HIDE DEF s, t
  <2>7. t = Append(s, 1)
    <3>1. Extends(t, s, n, 1)
      BY <1>3, <2>4, <2>5, <2>6 DEF Extends
    <3> QED BY <3>1, AppendedIs
  <2> QED BY <2>1, <2>7
<1>16. 1 \in 1..(MaxCalls + 1)
  BY BmapAssumption
<1>17. FileStep(Showing(op[f], size[f], addrs, block, f), Showing(op'[f], size'[f], addrs', block', f))
  BY <1>15, <1>16 DEF FileStep
<1> QED BY <1>1, <1>2, <1>10, <1>14, <1>17, OneFile

LEMMA MovedIs ==
  ASSUME NEW o, WriteOp(o), NEW m, NEW p, p = [o EXCEPT !.off = @ + m, !.left = @ - m]
  PROVE  p.kind = "write" /\ p.off = o.off + m /\ p.left = o.left - m /\ p.v = o.v /\ p.before = o.before
<1> DEFINE off == o.off  left == o.left  v == o.v  before == o.before
<1>1. o = [kind |-> "write", off |-> off, left |-> left, v |-> v, before |-> before]
  BY DEF WriteOp
<1> HIDE DEF off, left, v, before
<1>2. p = [kind |-> "write", off |-> off + m, left |-> left - m, v |-> v, before |-> before]
  BY <1>1
<1>3. p.kind = "write" /\ p.off = off + m /\ p.left = left - m /\ p.v = v /\ p.before = before
  BY ONLY <1>2
<1> QED BY <1>3 DEF off, left, v, before

LEMMA WriteiBlockMaps ==
  ASSUME BmapInv, WordsInv, NEW f \in BFiles, WriteiBlock(f)
  PROVE  WordsInv' /\ PlainStep
<1> DEFINE o == op[f]  off == o.off  bn == off \div BSIZE  c == WalkTree(f, bn)  e == off % BSIZE
           m == Least(o.left, BSIZE - e)
           at == e..(e + m - 1)  b == c.at  n == size[f]
           v == [i \in 0..(BSIZE - 1) |-> IF i \in at THEN o.v ELSE c.s.block[b][i]]
           p == [o EXCEPT !.off = @ + m, !.left = @ - m]
<1>1. /\ o.kind = "write" /\ o.left > 0 /\ ~c.full /\ state = "up" /\ state' = state /\ size' = size
      /\ block' = [c.s.block EXCEPT ![b] = v]
      /\ addrs' = [addrs EXCEPT ![f] = c.addrs]
      /\ op' = [op EXCEPT ![f] = p]
  <2>1. op' = [op EXCEPT ![f].off = @ + m, ![f].left = @ - m]
    BY DEF WriteiBlock
  <2>2. op' = [op EXCEPT ![f] = p]
    BY <2>1
  <2> QED BY <2>2 DEF WriteiBlock
<1>2. WriteOp(o)
  BY <1>1, Calm
<1>3. off \in Nat /\ o.left \in Nat /\ off \in Offsets
  <2> DEFINE all == MAXFILE * BSIZE
  <2>1. off \in Nat /\ o.left \in Nat /\ off + o.left <= all /\ all \in Nat /\ (off \in Offsets <=> off < all)
    BY <1>2, OffsetsAre DEF WriteOp
  <2>3. o.left > 0
    BY <1>1
  <2> HIDE DEF all, o
  <2>2. off \in Offsets
    BY ONLY <2>1, <2>3
  <2> QED BY <2>1, <2>2
<1>4. bn \in 0..(MAXFILE - 1) /\ e \in 0..(BSIZE - 1) /\ BSIZE \in Nat \ {0}
  BY <1>3, OffsetsAre DEF Words
<1>5. m \in Nat /\ m <= o.left /\ e + m <= BSIZE
  BY <1>3, <1>4 DEF Least
<1>a. PICK own : Disk(used, block, addrs) /\ Forest(used, block, addrs, own)
  BY DEF BmapInv, DiskInv
<1>6. Walked(c, Before(own), f, Path(bn))
  BY <1>4, <1>a, WalkGives
<1>b. op'[f] = p /\ size'[f] = n /\ \A g \in BFiles : g # f => op'[g] = op[g] /\ size'[g] = size[g]
  BY <1>1, Calm
<1>c. p.kind = "write" /\ p.off = off + m /\ p.left = o.left - m /\ p.v = o.v /\ p.before = o.before
  <2> HIDE DEF m, o
  <2> QED BY <1>2, MovedIs
<1> HIDE DEF c, b, m, p
<1>7. \A k \in Words : v[k] = IF e <= k /\ k < e + m THEN o.v ELSE c.s.block[c.at][k]
  <2>1. \A k \in Words : k \in at <=> (e <= k /\ k < e + m)
    BY <1>4, <1>5 DEF Words
  <2> HIDE DEF at
  <2> QED BY <2>1 DEF Words, b
<1> HIDE DEF v, at
<1>9. Rewritten(f, bn, c, v, addrs', block')
  <2> HIDE DEF bn
  <2> QED BY <1>1, <1>4, <1>6, <1>a, LeafSet DEF b
<1> HIDE DEF bn, e, n
<1>10. OthersKept(f)
  BY <1>b, <1>9, WordsRewritten DEF OthersKept
<1>11. PICK r \in Requests : Writing(r, o, n, addrs, block, f)
  BY <1>1 DEF WordsInv, FileHolds, n
<1>12. r[1] \in Nat /\ r[2] \in Nat /\ n \in Nat
  BY BmapNumbers, Calm DEF n
<1>d. /\ r[1] <= n /\ r[1] <= off /\ off + o.left = r[1] + r[2]
      /\ o.v \in 1..(MaxCalls + 1) /\ o.before = [i \in 1..n |-> o.before[i]]
  BY <1>11 DEF Writing
<1>e. \A i \in Offsets : i < n \/ i < off =>
       /\ Has(addrs, block, f, i)
       /\ WordIn(addrs, block, f, i) = IF r[1] <= i /\ i < off THEN o.v ELSE o.before[i + 1]
  BY <1>11 DEF Writing
<1> HIDE DEF o
<1>13. ASSUME NEW i \in Offsets, i < n \/ i < off + m
       PROVE  /\ Has(addrs', block', f, i)
              /\ WordIn(addrs', block', f, i) = IF r[1] <= i /\ i < off + m THEN o.v ELSE o.before[i + 1]
  <2>0. i \in Nat /\ i % BSIZE \in Words
    BY OffsetsAre
  <2>1. CASE off <= i /\ i < off + m
    <3>1. e + (i - off) < BSIZE
      BY <1>3, <1>4, <1>5, <2>0, <2>1
    <3>2. i \div BSIZE = bn
      BY <1>3, <2>0, <2>1, <3>1, SameBlock DEF bn, e
    <3>3. i - off = (i % BSIZE) - e
      BY <1>3, <2>0, <3>2, SameBlock DEF bn, e
    <3>4. e <= i % BSIZE /\ i % BSIZE < e + m
      BY <1>3, <1>4, <1>5, <2>0, <2>1, <3>3 DEF Words
    <3>5. Has(addrs', block', f, i) /\ WordIn(addrs', block', f, i) = v[i % BSIZE]
      BY <1>9, <3>2, WordsRewritten
    <3>6. v[i % BSIZE] = o.v
      BY <1>7, <2>0, <3>4
    <3>7. r[1] <= i
      BY <1>3, <1>12, <1>d, <2>0, <2>1
    <3> QED BY <2>1, <3>5, <3>6, <3>7
  <2>2. CASE ~(off <= i /\ i < off + m)
    <3>1. i < n \/ i < off
      BY <1>3, <1>5, <1>12, <1>13, <2>0, <2>2
    <3>2. /\ Has(addrs, block, f, i)
          /\ WordIn(addrs, block, f, i) = IF r[1] <= i /\ i < off THEN o.v ELSE o.before[i + 1]
      BY <1>e, <3>1
    <3>3. i < off <=> i < off + m
      BY <1>3, <1>5, <2>0, <2>2
    <3>4. Has(addrs', block', f, i) /\ WordIn(addrs', block', f, i) = WordIn(addrs, block, f, i)
      <4>1. CASE i \div BSIZE # bn
        BY <1>9, <3>2, <4>1, WordsRewritten
      <4>2. CASE i \div BSIZE = bn
        <5>1. i - off = (i % BSIZE) - e
          BY <1>3, <2>0, <4>2, SameBlock DEF bn, e
        <5>2. ~(e <= i % BSIZE /\ i % BSIZE < e + m)
          BY <1>3, <1>4, <1>5, <2>0, <2>2, <5>1 DEF Words
        <5>3. Has(addrs', block', f, i) /\ WordIn(addrs', block', f, i) = v[i % BSIZE]
              /\ c.s.block[c.at][i % BSIZE] = WordIn(addrs, block, f, i)
          BY <1>9, <3>2, <4>2, WordsRewritten
        <5> QED BY <1>7, <2>0, <5>2, <5>3
      <4> QED BY <4>1, <4>2
    <3> QED BY <3>2, <3>3, <3>4
  <2> QED BY <2>1, <2>2
<1>14. FileHolds(op'[f], size'[f], addrs', block', f)
  <2>1. r[1] <= p.off /\ p.off + p.left = r[1] + r[2]
    BY <1>3, <1>5, <1>12, <1>c, <1>d
  <2>2. Writing(r, p, n, addrs', block', f)
    BY <1>c, <1>d, <1>13, <2>1 DEF Writing
  <2>3. p # Idle
    BY <1>c DEF Idle
  <2> QED BY <1>b, <1>c, <2>2, <2>3 DEF FileHolds
<1>15. Showing(op'[f], size'[f], addrs', block', f) = Showing(op[f], size[f], addrs, block, f)
  <2>1. p # Idle /\ op[f] # Idle
    BY <1>1, <1>c DEF Idle, o
  <2> QED BY <1>b, <1>c, <2>1 DEF Showing, o
<1> QED BY <1>1, <1>10, <1>14, <1>15, OneFile DEF FileStep
LEMMA WriteiEndMaps ==
  ASSUME BmapInv, WordsInv, NEW f \in BFiles, WriteiEnd(f)
  PROVE  WordsInv' /\ PlainStep
<1> DEFINE o == op[f]  n == size[f]  k == IF o.off > n THEN o.off ELSE n
<1>1. /\ size' = [size EXCEPT ![f] = k] /\ op' = [op EXCEPT ![f] = Idle]
      /\ o.kind = "write" /\ o.left = 0 /\ state = "up" /\ state' = state
      /\ block' = block /\ addrs' = addrs
  BY DEF WriteiEnd
<1>2. op'[f] = Idle /\ size'[f] = k /\ \A g \in BFiles : g # f => op'[g] = op[g] /\ size'[g] = size[g]
  BY <1>1, Calm DEF BmapInv, OpsInv
<1>3. PICK r \in Requests : Writing(r, o, n, addrs, block, f)
  BY <1>1 DEF WordsInv, FileHolds
<1>4. r[1] \in Nat /\ r[2] \in Nat /\ n \in Nat
  BY BmapNumbers, Calm
<1>5. WriteOp(o)
  BY <1>1, Calm
<1>6. o.off \in Nat
  BY <1>5 DEF WriteOp
<1>7. o # Idle
  BY <1>1 DEF Idle
<1>8. BmapInv'
  BY WriteiEndKeeps
<1> HIDE DEF o, n
<1>9. /\ r[1] <= n /\ o.off = r[1] + r[2] /\ r[1] <= o.off
      /\ o.v \in 1..(MaxCalls + 1) /\ o.before = [i \in 1..n |-> o.before[i]]
  BY <1>1, <1>4, <1>6, <1>3 DEF Writing
<1>10. \A i \in Offsets : i < n \/ i < o.off =>
       /\ Has(addrs, block, f, i)
       /\ WordIn(addrs, block, f, i) = IF r[1] <= i /\ i < o.off THEN o.v ELSE o.before[i + 1]
  BY <1>3 DEF Writing
<1>11. OthersKept(f)
  BY <1>1, <1>2, NothingMoved DEF OthersKept
<1>12. k \in Nat /\ (\A i \in Nat : i < k <=> (i < n \/ i < o.off)) /\ \A i \in Nat : i < k => i \in Offsets
  <2>1. k \in Nat /\ \A i \in Nat : i < k <=> (i < n \/ i < o.off)
    BY <1>4, <1>6
  <2>2. k \in 0..(MAXFILE * BSIZE)
    BY <1>2, <1>8 DEF BmapInv, OpsInv
  <2> DEFINE all == MAXFILE * BSIZE
  <2>3. k \in 0..all /\ all \in Nat /\ \A i \in Nat : i \in Offsets <=> i < all
    BY <2>2, OffsetsAre
  <2> HIDE DEF all, k
  <2>4. \A i \in Nat : i < k => i \in Offsets
    BY <2>3
  <2> QED BY <2>1, <2>4
<1> HIDE DEF k
<1>13. FileHolds(op'[f], size'[f], addrs', block', f)
  <2>1. Idle.kind = "idle"
    BY DEF Idle
  <2>2. \A i \in Offsets : i < k => Has(addrs, block, f, i)
    BY <1>10, <1>12, OffsetsAre
  <2> QED BY <1>1, <1>2, <2>1, <2>2 DEF FileHolds
<1> DEFINE old == o.before  new == [i \in 1..k |-> WordIn(addrs, block, f, i - 1)]
<1>14. Showing(op'[f], size'[f], addrs', block', f) = new /\ Showing(op[f], size[f], addrs, block, f) = old
  BY <1>1, <1>2, <1>7 DEF Showing, o
<1>15. Len(old) = n
  <2> HIDE DEF old
  <2>1. old = [i \in 1..n |-> old[i]]
    BY <1>9 DEF old
  <2> QED BY <1>4, <2>1, Filled
<1>16. new = Plain!Written(old, r[1], r[2], o.v)
  <2>1. k = IF r[1] + r[2] > n THEN r[1] + r[2] ELSE n
    BY <1>9 DEF k
  <2>2. ASSUME NEW i \in 1..k
        PROVE  new[i] = IF i \in (r[1] + 1)..(r[1] + r[2]) THEN o.v ELSE old[i]
    <3>1. i - 1 \in Nat /\ i - 1 < k /\ (i - 1) + 1 = i
      BY <1>12
    <3>2. WordIn(addrs, block, f, i - 1) = IF r[1] <= i - 1 /\ i - 1 < o.off THEN o.v ELSE old[(i - 1) + 1]
      BY <1>10, <1>12, <3>1
    <3>3. (r[1] <= i - 1 /\ i - 1 < o.off) <=> i \in (r[1] + 1)..(r[1] + r[2])
      BY <1>4, <1>9, <1>12, <3>1
    <3>4. new[i] = WordIn(addrs, block, f, i - 1)
      OBVIOUS
    <3> HIDE DEF new, old
    <3> QED BY <3>1, <3>2, <3>3, <3>4
  <2>3. new = [i \in 1..k |-> IF i \in (r[1] + 1)..(r[1] + r[2]) THEN o.v ELSE old[i]]
    BY <2>2
  <2> HIDE DEF new, old
  <2> QED BY <1>15, <2>1, <2>3 DEF Plain!Written
<1> HIDE DEF old, new
<1>17. FileStep(old, new)
  BY <1>9, <1>15, <1>16 DEF FileStep
<1> QED BY <1>1, <1>11, <1>13, <1>14, <1>17, OneFile

LEMMA StillMaps ==
  ASSUME BmapInv, WordsInv, UNCHANGED <<block, addrs, size, op>>, state' = "mkfs" => state = "mkfs"
  PROVE  WordsInv' /\ PlainStep
<1>1. PICK f \in BFiles : TRUE
  BY BmapAssumption
<1>2. OthersKept(f)
  BY NothingMoved DEF OthersKept
<1>3. FileHolds(op'[f], size'[f], addrs', block', f)
  BY DEF WordsInv
<1>4. Showing(op'[f], size'[f], addrs', block', f) = Showing(op[f], size[f], addrs, block, f)
  OBVIOUS
<1>5. state' = "mkfs" => op'[f] = Idle
  BY DEF WordsInv
<1> QED BY <1>2, <1>3, <1>4, <1>5, OneFile DEF FileStep

LEMMA BmapNextMaps == BmapInv /\ WordsInv /\ [BmapNext]_bmapVars => WordsInv' /\ PlainStep
<1> SUFFICES ASSUME BmapInv, WordsInv, [BmapNext]_bmapVars PROVE WordsInv' /\ PlainStep
  OBVIOUS
<1>1. CASE Boot
  BY <1>1, StillMaps DEF Boot
<1>2. ASSUME NEW f \in BFiles, Iappend(f) PROVE WordsInv' /\ PlainStep
  BY <1>2, IappendMaps
<1>3. ASSUME NEW f \in BFiles, NEW r \in Requests, StartWritei(f, r[1], r[2]) PROVE WordsInv' /\ PlainStep
  BY <1>3, StartWriteiMaps
<1>4. ASSUME NEW f \in BFiles, WriteiBlock(f) PROVE WordsInv' /\ PlainStep
  BY <1>4, WriteiBlockMaps
<1>5. ASSUME NEW f \in BFiles, OutOfBlocks(f) PROVE WordsInv' /\ PlainStep
  BY <1>5, StillMaps DEF OutOfBlocks
<1>6. ASSUME NEW f \in BFiles, WriteiEnd(f) PROVE WordsInv' /\ PlainStep
  BY <1>6, WriteiEndMaps
<1>7. ASSUME NEW f \in BFiles, StartItrunc(f) PROVE WordsInv' /\ PlainStep
  BY <1>7, StartItruncMaps
<1>8. ASSUME NEW f \in BFiles, ItruncSlot(f) PROVE WordsInv' /\ PlainStep
  BY <1>8, ItruncSlotMaps
<1>9. ASSUME NEW f \in BFiles, ItruncEnd(f) PROVE WordsInv' /\ PlainStep
  BY <1>9, ItruncEndMaps
<1>10. CASE UNCHANGED bmapVars
  BY <1>10, StillMaps DEF bmapVars
<1> QED BY <1>1, <1>2, <1>3, <1>4, <1>5, <1>6, <1>7, <1>8, <1>9, <1>10 DEF BmapNext

LEMMA BmapInitMaps == BmapInit => WordsInv /\ Plain!Init
<1> SUFFICES ASSUME BmapInit PROVE WordsInv /\ Plain!Init
  OBVIOUS
<1>1. size = [f \in BFiles |-> 0] /\ op = [f \in BFiles |-> Idle]
  BY DEF BmapInit
<1>2. WordsInv
  <2>1. \A i \in Offsets : ~(i < 0)
    BY OffsetsAre
  <2>2. Idle.kind = "idle"
    BY DEF Idle
  <2> QED BY <1>1, <2>1, <2>2 DEF WordsInv, FileHolds
<1>3. ASSUME NEW f \in BFiles PROVE WordsOf(f) = <<>>
  <2> DEFINE s == WordsOf(f)
  <2>1. s = [i \in 1..0 |-> s[i]]
    BY <1>1 DEF WordsOf
  <2> HIDE DEF s
  <2>2. s = <<>>
    BY <2>1
  <2> QED BY <2>2 DEF s
<1>4. Plain!Init
  BY <1>1, <1>3 DEF Plain!Init
<1> QED BY <1>2, <1>4

\* What readi() returns of a file is what its writes made of it, word for word:
\* blocks may be direct or behind any level of indirection, allocated in any
\* order and given back by other files, and the disk may be full in the middle of
\* a call (fs.c:377-613).
THEOREM BmapIsFiles == BmapSpec => BytesKept
<1>1. BmapInv /\ WordsInv /\ [BmapNext]_bmapVars
      => WordsInv' /\ [Plain!Next]_[f \in BFiles |-> IF op[f] = Idle THEN WordsOf(f) ELSE op[f].before]
  BY BmapNextMaps DEF PlainStep
<1>2. BmapSpec => []BmapInv
  BY BmapInvHolds
<1>3. BmapInit => WordsInv /\ Plain!Init
  BY BmapInitMaps
<1> QED BY <1>1, <1>2, <1>3, PTL DEF BmapSpec, BytesKept, Plain!Spec
-----------------------------------------------------------------------------
\* The types of the layers together: a step of one layer leaves the others
\* alone, so a behaviour of MCStorage is a behaviour of each of them.
THEOREM StorageTyped == StorageSpec => []StorageTypeOK
<1>1. StorageInit => BcacheInit /\ BmapInit /\ InodesInit
  BY DEF StorageInit
<1>2. [StorageNext]_<<layer, bcacheVars, bmapVars, inodesVars>>
      => [BcacheNext]_bcacheVars /\ [BmapNext]_bmapVars /\ [InodesNext]_inodesVars
  BY DEF StorageNext
<1>3. BcacheSpec => []BcacheTypeOK
  BY BcacheTypeCorrect
<1>4. BmapSpec => []BmapTypeOK
  BY BmapTyped
<1>5. InodesSpec => []InodesTypeOK
  BY InodesTyped
<1>6. BcacheTypeOK /\ BmapTypeOK /\ InodesTypeOK => StorageTypeOK
  BY DEF StorageTypeOK
<1> QED BY <1>1, <1>2, <1>3, <1>4, <1>5, <1>6, PTL DEF StorageSpec, BcacheSpec, BmapSpec, InodesSpec
===============================================================================
