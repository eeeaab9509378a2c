-------------------------------- MODULE Inodes --------------------------------
(***************************************************************************)
(* Inodes, directories and path names: the inode layer, dirlookup, dirlink *)
(* and namex of fs.c, and the calls of sysfile.c that work on names, in    *)
(* assignment03/project03/xv6-public (with symbolic links).                *)
(*                                                                         *)
(* A section in which a process holds inode locks without waiting for      *)
(* another lock is one action.  iput() has two: what it does under         *)
(* ip->lock, and ip->ref-- afterwards.  The cached copy of an inode and    *)
(* the one on disk are one value here: every change is followed by         *)
(* iupdate() under the same lock.                                          *)
(***************************************************************************)
EXTENDS Integers, Sequences, FiniteSets

CONSTANTS
  Procs,      \* processes that make calls
  Unlocked,   \* not a process
  NINODES,    \* inodes of the disk; 1 is the root
  DNames,     \* names of directory entries besides "." and ".."
  Trees,      \* what is on the disk, in use and open at the start
  Calls,      \* the calls that are made: [name, path, new, write]
  MaxNameCalls \* bound: calls of a behaviour

Inums  == 1..NINODES
None   == 0            \* no inode
Root   == 1
DEntries == DNames \cup {".", ".."}
Forward  == DEntries \ {".."}

\* Path names: a "/" may only come first.
Paths == {s \in Seq(DEntries \cup {"/"}) : \A k \in 2..Len(s) : s[k] # "/"}

Node == [type : {"free", "file", "dir", "sym"}, nlink : Nat,
         ent : [DEntries -> 0..NINODES], target : Paths]

NameCalls == [name : {"open", "chdir", "link", "symlink", "unlink", "create", "mkdir"},
              path : Paths, new : Paths, write : BOOLEAN]

VARIABLES
  inode,      \* type, nlink, directory entries, target of a symbolic link
  iref,       \* ip->ref
  ivalid,     \* ip->valid
  ilocked,    \* who holds ip->lock
  cwd,        \* proc.cwd
  opened,     \* the inode of the one open file of each process
  loc,        \* where each process is, the inodes its local variables name, and the
              \* entry it looked up last
  raced,      \* inodes two processes dropped at the same time
  nameCalls,  \* calls made so far
  ipanic      \* the panic the system ended in

inodesVars == <<inode, iref, ivalid, ilocked, cwd, opened, loc, raced, nameCalls, ipanic>>

NoEntries == [n \in DEntries |-> None]
FreeInode == [type |-> "free", nlink |-> 0, ent |-> NoEntries, target |-> <<>>]
NoCall    == [name |-> "none", path |-> <<>>, new |-> <<>>, write |-> FALSE]
NoLocals  == [pc |-> "idle", call |-> NoCall, path |-> <<>>, name |-> "",
              ip |-> None, dp |-> None, old |-> None, puts |-> <<>>, dropping |-> FALSE]

\* The pointers to inodes that process p has; at most two wait to be put.
ToPut(p, k) == IF k <= Len(loc[p].puts) THEN loc[p].puts[k] ELSE None
Pointers(p) == <<cwd[p], opened[p], loc[p].ip, loc[p].dp, loc[p].old, ToPut(p, 1), ToPut(p, 2)>>

RefCount(i) == Cardinality({r \in Procs \X (1..7) : Pointers(r[1])[r[2]] = i})

-----------------------------------------------------------------------------
\* File trees, for the table of inodes `nodes`.

\* What is counted in nlink of i: entries that name i, and entries of i that name
\* directories (whose ".." names i).  An entry for the directory itself is not.
LinksOf(nodes, i) ==
  {l \in Inums \X Forward :
     LET x == nodes[l[1]].ent[l[2]] IN
     /\ x # None /\ x # l[1]
     /\ \/ x = i
        \/ l[1] = i /\ nodes[x].type = "dir"}

\* Only directories have entries, the root is one, and what is free is cleared.
EntriesOfDirs(nodes) ==
  /\ \A i \in Inums : nodes[i].type # "dir" => nodes[i].ent = NoEntries
  /\ \A i \in Inums : nodes[i].type = "free" => nodes[i] = FreeInode
  /\ nodes[Root].type = "dir" /\ nodes[Root].ent[".."] = Root

\* ".." names the directory that has the entry.
DotDotUp(nodes) ==
  /\ \A i \in Inums : nodes[i].type = "dir" => nodes[i].ent[".."] # None
  /\ \A d \in Inums, n \in Forward :
       LET x == nodes[d].ent[n] IN
       x # None /\ x # d /\ nodes[x].type = "dir" => nodes[x].ent[".."] = d

\* Names lead nowhere in a circle.
NoCircle(nodes) ==
  \A S \in SUBSET Inums : S # {} => \E d \in S : \A n \in DNames : nodes[d].ent[n] \notin S

\* A file system that was left in order, with open files and directories in use.
InOrder(t) ==
  /\ t.inode \in [Inums -> Node]
  /\ EntriesOfDirs(t.inode) /\ DotDotUp(t.inode) /\ NoCircle(t.inode)
  /\ \A i \in Inums : t.inode[i].type # "free" => t.inode[i].nlink > 0
  /\ \A i \in Inums : t.inode[i].nlink >= Cardinality(LinksOf(t.inode, i)) + IF i = Root THEN 1 ELSE 0
  /\ t.cwd \in [Procs -> Inums] /\ \A p \in Procs : t.inode[t.cwd[p]].type # "free"
  /\ t.opened \in [Procs -> 0..NINODES]
  /\ \A p \in Procs : t.opened[p] # None => t.inode[t.opened[p]].type # "free"

ASSUME InodesFinite ==
  /\ IsFiniteSet(Procs) /\ Unlocked \notin Procs
  /\ NINODES \in Nat \ {0}
  /\ IsFiniteSet(DNames) /\ {".", "..", "/", ""} \cap DNames = {}

ASSUME InodesInputs == Calls \subseteq NameCalls /\ \A t \in Trees : InOrder(t)

InodesInit ==
  \E t \in Trees :
    /\ inode = t.inode
    /\ cwd = t.cwd /\ opened = t.opened
    /\ iref = [i \in Inums |-> Cardinality({p \in Procs : t.cwd[p] = i})
                             + Cardinality({p \in Procs : t.opened[p] = i})]
    /\ ivalid = [i \in Inums |-> iref[i] > 0]
    /\ ilocked = [i \in Inums |-> Unlocked]
    /\ loc = [p \in Procs |-> NoLocals]
    /\ raced = {} /\ nameCalls = 0 /\ ipanic = "none"

-----------------------------------------------------------------------------
\* ilock(i) would return: the lock is free, and the inode it reads is in use.
CanLock(i) == ilocked[i] = Unlocked /\ inode[i].type # "free" /\ ipanic = "none"

\* p runs the code between two locks, with no iput() left to do.
At(p, pc) == loc[p].pc = pc /\ loc[p].puts = <<>> /\ ipanic = "none"

\* ivalid after ilock(i) and, if j is an inode, iget(j); iref after iget(j).
Loaded(i, j) ==
  [k \in Inums |-> IF k = i THEN TRUE
                   ELSE IF k = j /\ iref[k] = 0 THEN FALSE ELSE ivalid[k]]
Got(j) == [k \in Inums |-> IF k = j THEN iref[k] + 1 ELSE iref[k]]

Set(p, r) == loc' = [loc EXCEPT ![p] = r]

\* Where namex() starts: the root, or the working directory.
Absolute(path) == path # <<>> /\ Head(path) = "/"
Origin(p, path) == IF Absolute(path) THEN Root ELSE cwd[p]
Rest(path) == IF Absolute(path) THEN Tail(path) ELSE path

\* The calls that stop one level early.
WantsParent(c) == c.name \in {"unlink", "create", "mkdir", "symlink", "link_new"}

\* A call that ends, after the iput()s that are left.
Done(puts) == [NoLocals EXCEPT !.puts = puts]

\* namex() or what follows it fails: link() takes its count back.
Failed(old, puts) ==
  IF old # None THEN [NoLocals EXCEPT !.pc = "undo", !.old = old, !.puts = puts] ELSE Done(puts)

\* namex(path) has inode i to start from; l is what the call has besides.  A path
\* without names is the start itself, or for nameiparent() an error.
Entered(l, path, i) ==
  IF path = <<>> /\ WantsParent(l.call) THEN Failed(l.old, <<i>>)
  ELSE [l EXCEPT !.pc = IF path = <<>> THEN "last" ELSE "walk", !.path = path, !.name = "", !.ip = i]

-----------------------------------------------------------------------------
StartCall(p, c) ==
  /\ At(p, "idle") /\ nameCalls < MaxNameCalls
  /\ c.name = "open" \/ c.name = "create" => opened[p] = None
  /\ nameCalls' = nameCalls + 1
  /\ iref' = Got(Origin(p, c.path))
  /\ ivalid' = [ivalid EXCEPT ![Origin(p, c.path)] = iref[Origin(p, c.path)] > 0 /\ @]
  /\ Set(p, Entered([NoLocals EXCEPT !.call = c], Rest(c.path), Origin(p, c.path)))
  /\ UNCHANGED <<inode, ilocked, cwd, opened, raced, ipanic>>

\* fileclose() of an inode.
CloseFile(p) ==
  /\ At(p, "idle") /\ opened[p] # None /\ nameCalls < MaxNameCalls
  /\ nameCalls' = nameCalls + 1
  /\ opened' = [opened EXCEPT ![p] = None]
  /\ Set(p, Done(<<opened[p]>>))
  /\ UNCHANGED <<inode, iref, ivalid, ilocked, cwd, raced, ipanic>>

\* One turn of the loop in namex(): lock, look up, unlock, and put.
Walk1(p) ==
  LET i == loc[p].ip  n == Head(loc[p].path)
      parent == WantsParent(loc[p].call) /\ Len(loc[p].path) = 1
      next == IF inode[i].type = "dir" /\ ~parent THEN inode[i].ent[n] ELSE None
  IN  /\ At(p, "walk") /\ CanLock(i)
      /\ iref' = Got(next) /\ ivalid' = Loaded(i, next)
      /\ IF inode[i].type = "dir" /\ parent
         THEN Set(p, [loc[p] EXCEPT !.pc = "parent", !.path = <<>>, !.name = n, !.ip = None, !.dp = i])
         ELSE IF next = None
         THEN Set(p, Failed(loc[p].old, <<i>>))
         ELSE Set(p, [loc[p] EXCEPT !.pc = IF Len(loc[p].path) = 1 THEN "last" ELSE "walk",
                                    !.path = Tail(@), !.name = n, !.ip = next, !.puts = <<i>>])
      /\ UNCHANGED <<inode, ilocked, cwd, opened, raced, nameCalls, ipanic>>

-----------------------------------------------------------------------------
\* The calls on an existing name, with the inode namei() found.

\* sys_open(): a symbolic link is followed, once.
OpenLast(p) ==
  LET i == loc[p].ip  c == loc[p].call  IN
  /\ At(p, "last") /\ CanLock(i) /\ c.name \in {"open", "open_target"}
  /\ LET follow == inode[i].type = "sym" /\ c.name = "open"
         path == inode[i].target
         start == IF follow THEN Origin(p, path) ELSE None
     IN /\ iref' = Got(start) /\ ivalid' = Loaded(i, start)
        /\ IF follow
           THEN /\ Set(p, Entered([loc[p] EXCEPT !.call.name = "open_target", !.puts = <<i>>], Rest(path), start))
                /\ UNCHANGED opened
           ELSE IF inode[i].type = "dir" /\ c.write
           THEN Set(p, Done(<<i>>)) /\ UNCHANGED opened
           ELSE Set(p, NoLocals) /\ opened' = [opened EXCEPT ![p] = i]
  /\ UNCHANGED <<inode, ilocked, cwd, raced, nameCalls, ipanic>>

Chdir(p) ==
  LET i == loc[p].ip  IN
  /\ At(p, "last") /\ CanLock(i) /\ loc[p].call.name = "chdir"
  /\ ivalid' = Loaded(i, None)
  /\ IF inode[i].type # "dir" THEN Set(p, Done(<<i>>)) /\ UNCHANGED cwd
     ELSE Set(p, Done(<<cwd[p]>>)) /\ cwd' = [cwd EXCEPT ![p] = i]
  /\ UNCHANGED <<inode, iref, ilocked, opened, raced, nameCalls, ipanic>>

\* Mutant of LinkOld: nlink++ is forgotten.
LinkOldUncounted(p) ==
  LET i == loc[p].ip  new == loc[p].call.new
      start == IF inode[i].type = "dir" THEN None ELSE Origin(p, new) IN
  /\ At(p, "last") /\ CanLock(i) /\ loc[p].call.name = "link"
  /\ iref' = Got(start) /\ ivalid' = Loaded(i, start)
  /\ IF inode[i].type = "dir" THEN Set(p, Done(<<i>>))
     ELSE Set(p, Entered([loc[p] EXCEPT !.call.name = "link_new", !.old = i], Rest(new), start))
  /\ UNCHANGED <<inode, ilocked, cwd, opened, raced, nameCalls, ipanic>>

\* sys_link() counts the new link before it exists, and walks to its parent.
LinkOld(p) ==
  LET i == loc[p].ip  new == loc[p].call.new
      start == IF inode[i].type = "dir" THEN None ELSE Origin(p, new) IN
  /\ At(p, "last") /\ CanLock(i) /\ loc[p].call.name = "link"
  /\ iref' = Got(start) /\ ivalid' = Loaded(i, start)
  /\ IF inode[i].type = "dir" THEN Set(p, Done(<<i>>)) /\ UNCHANGED inode
     ELSE /\ inode' = [inode EXCEPT ![i].nlink = @ + 1]
          /\ Set(p, Entered([loc[p] EXCEPT !.call.name = "link_new", !.old = i], Rest(new), start))
  /\ UNCHANGED <<ilocked, cwd, opened, raced, nameCalls, ipanic>>

\* dirlink() of the new name, or, under dp->lock, iput() of what has it.
LinkNew(p) ==
  LET d == loc[p].dp  n == loc[p].name  i == inode[d].ent[n]  IN
  /\ At(p, "parent") /\ CanLock(d) /\ loc[p].call.name = "link_new"
  /\ iref' = Got(i) /\ ivalid' = Loaded(d, i)
  /\ IF i = None
     THEN /\ inode' = [inode EXCEPT ![d].ent[n] = loc[p].old]
          /\ Set(p, Done(<<d, loc[p].old>>)) /\ UNCHANGED ilocked
     ELSE /\ ilocked' = [ilocked EXCEPT ![d] = p]
          /\ Set(p, [loc[p] EXCEPT !.pc = "unlock", !.puts = <<i>>]) /\ UNCHANGED inode
  /\ UNCHANGED <<cwd, opened, raced, nameCalls, ipanic>>

\* Mutant of UnlockParent: iunlock() instead of iunlockput().
UnlockParentKeep(p) ==
  LET d == loc[p].dp IN
  /\ At(p, "unlock")
  /\ ilocked' = [ilocked EXCEPT ![d] = Unlocked]
  /\ Set(p, Failed(loc[p].old, <<>>))
  /\ UNCHANGED <<inode, iref, ivalid, cwd, opened, raced, nameCalls, ipanic>>

\* iunlockput(dp) of a call that fails.
UnlockParent(p) ==
  LET d == loc[p].dp IN
  /\ At(p, "unlock")
  /\ ilocked' = [ilocked EXCEPT ![d] = Unlocked]
  /\ Set(p, Failed(loc[p].old, <<d>>))
  /\ UNCHANGED <<inode, iref, ivalid, cwd, opened, raced, nameCalls, ipanic>>

LinkUndo(p) ==
  LET i == loc[p].old IN
  /\ At(p, "undo") /\ CanLock(i)
  /\ inode' = [inode EXCEPT ![i].nlink = @ - 1]
  /\ ivalid' = Loaded(i, None)
  /\ Set(p, Done(<<i>>))
  /\ UNCHANGED <<iref, ilocked, cwd, opened, raced, nameCalls, ipanic>>

-----------------------------------------------------------------------------
\* create(): the name exists, or an inode is allocated and linked.

CreateParent(p) ==
  LET d == loc[p].dp  n == loc[p].name  i == inode[d].ent[n]
      c == loc[p].call
      type == CASE c.name = "mkdir" -> "dir" [] c.name = "symlink" -> "sym" [] OTHER -> "file"
      new(j) == [FreeInode EXCEPT !.type = type, !.nlink = 1,
                   !.ent = IF type = "dir" THEN [@ EXCEPT !["."] = j, ![".."] = d] ELSE @]
  IN  /\ At(p, "parent") /\ CanLock(d) /\ c.name \in {"create", "mkdir", "symlink"}
      /\ IF i # None
         THEN /\ iref' = Got(i) /\ ivalid' = Loaded(d, i)
              /\ Set(p, [loc[p] EXCEPT !.pc = "exists", !.dp = None, !.ip = i, !.puts = <<d>>])
              /\ UNCHANGED <<inode, ilocked>>
         ELSE \E j \in Inums :   \* else panic("ialloc: no inodes"); the bounds exclude it
              /\ inode[j].type = "free" /\ \A k \in 1..(j - 1) : inode[k].type # "free"
              /\ iref' = Got(j) /\ ivalid' = [Loaded(d, j) EXCEPT ![j] = TRUE]
              /\ inode' = [inode EXCEPT ![j] = new(j), ![d].ent[n] = j,
                                        ![d].nlink = @ + IF type = "dir" THEN 1 ELSE 0]
              /\ ilocked' = [ilocked EXCEPT ![j] = p]
              /\ Set(p, [loc[p] EXCEPT !.pc = "made", !.dp = None, !.ip = j, !.puts = <<d>>])
      /\ UNCHANGED <<cwd, opened, raced, nameCalls, ipanic>>

\* What sys_symLink() writes into the inode it got: the target, or over the
\* first entry of a directory.
WithTarget(r, t) ==
  IF r.type = "dir" THEN [r EXCEPT !.ent["."] = None] ELSE [r EXCEPT !.target = t]

\* The inode is new and locked, and the directory has been put.
Made(p) ==
  LET i == loc[p].ip  c == loc[p].call IN
  /\ At(p, "made")
  /\ ilocked' = [ilocked EXCEPT ![i] = Unlocked]
  /\ IF c.name = "create"
     THEN opened' = [opened EXCEPT ![p] = i] /\ Set(p, NoLocals) /\ UNCHANGED inode
     ELSE /\ inode' = IF c.name = "symlink" THEN [inode EXCEPT ![i] = WithTarget(@, c.new)] ELSE inode
          /\ Set(p, Done(<<i>>)) /\ UNCHANGED opened
  /\ UNCHANGED <<iref, ivalid, cwd, raced, nameCalls, ipanic>>

\* The name exists: open() takes a file, symLink() takes anything.
Exists(p) ==
  LET i == loc[p].ip  c == loc[p].call IN
  /\ At(p, "exists") /\ CanLock(i)
  /\ ivalid' = Loaded(i, None)
  /\ IF c.name = "create" /\ inode[i].type = "file"
     THEN opened' = [opened EXCEPT ![p] = i] /\ Set(p, NoLocals) /\ UNCHANGED inode
     ELSE /\ inode' = IF c.name = "symlink" THEN [inode EXCEPT ![i] = WithTarget(@, c.new)] ELSE inode
          /\ Set(p, Done(<<i>>)) /\ UNCHANGED opened
  /\ UNCHANGED <<iref, ilocked, cwd, raced, nameCalls, ipanic>>

-----------------------------------------------------------------------------
\* sys_unlink(): dp stays locked while ip is locked.

\* Mutant of the next operator: "." and ".." are not refused.
UnlinkDots(p) ==
  LET d == loc[p].dp  n == loc[p].name  i == inode[d].ent[n]  IN
  /\ At(p, "parent") /\ CanLock(d) /\ loc[p].call.name = "unlink"
  /\ i # None /\ iref' = Got(i) /\ ivalid' = Loaded(d, i)
  /\ ilocked' = [ilocked EXCEPT ![d] = p]
  /\ Set(p, [loc[p] EXCEPT !.pc = "unlink", !.ip = i])
  /\ UNCHANGED <<inode, cwd, opened, raced, nameCalls, ipanic>>

UnlinkParent(p) ==
  LET d == loc[p].dp  n == loc[p].name  i == inode[d].ent[n]  IN
  /\ At(p, "parent") /\ CanLock(d) /\ loc[p].call.name = "unlink"
  /\ IF n \in {".", ".."} \/ i = None
     THEN /\ iref' = iref /\ ivalid' = Loaded(d, None)
          /\ Set(p, Done(<<d>>)) /\ UNCHANGED ilocked
     ELSE /\ iref' = Got(i) /\ ivalid' = Loaded(d, i)
          /\ ilocked' = [ilocked EXCEPT ![d] = p]
          /\ Set(p, [loc[p] EXCEPT !.pc = "unlink", !.ip = i])
  /\ UNCHANGED <<inode, cwd, opened, raced, nameCalls, ipanic>>

\* isdirempty()
IsDirEmpty(i) == \A n \in DNames : inode[i].ent[n] = None

\* The entry is cleared; ip stays locked while dp is unlocked and put.  Or the
\* directory is not empty: ip is put while dp stays locked.
UnlinkEntry(p) ==
  LET d == loc[p].dp  i == loc[p].ip  isdir == inode[i].type = "dir" IN
  /\ At(p, "unlink") /\ CanLock(i)
  /\ ivalid' = Loaded(i, None)
  /\ IF isdir /\ ~IsDirEmpty(i)
     THEN /\ Set(p, [loc[p] EXCEPT !.pc = "unlock", !.ip = None, !.puts = <<i>>])
          /\ UNCHANGED <<inode, ilocked>>
     ELSE /\ inode' = [inode EXCEPT ![d].ent[loc[p].name] = None,
                                    ![d].nlink = @ - IF isdir THEN 1 ELSE 0]
          /\ ilocked' = [ilocked EXCEPT ![d] = Unlocked, ![i] = p]
          /\ Set(p, [loc[p] EXCEPT !.pc = "unlinked", !.dp = None, !.puts = <<d>>])
  /\ UNCHANGED <<iref, cwd, opened, raced, nameCalls, ipanic>>

Unlinked(p) ==
  LET i == loc[p].ip IN
  /\ At(p, "unlinked")
  /\ inode' = [inode EXCEPT ![i].nlink = @ - 1]
  /\ ilocked' = [ilocked EXCEPT ![i] = Unlocked]
  /\ Set(p, Done(<<i>>))
  /\ UNCHANGED <<iref, ivalid, cwd, opened, raced, nameCalls, ipanic>>

-----------------------------------------------------------------------------
\* iput().

Putting(p) == loc[p].puts # <<>> /\ ipanic = "none"

\* Mutant of IputLocked: the inode is freed whoever else refers to it.
IputAlways(p) ==
  LET i == Head(loc[p].puts) IN
  /\ Putting(p) /\ ~loc[p].dropping /\ ilocked[i] = Unlocked
  /\ IF ivalid[i] /\ inode[i].nlink = 0
     THEN inode' = [inode EXCEPT ![i] = FreeInode] /\ ivalid' = [ivalid EXCEPT ![i] = FALSE]
     ELSE UNCHANGED <<inode, ivalid>>
  /\ UNCHANGED raced
  /\ Set(p, [loc[p] EXCEPT !.dropping = TRUE])
  /\ UNCHANGED <<iref, ilocked, cwd, opened, nameCalls, ipanic>>

\* Under ip->lock: an inode without links and other references is freed.
IputLocked(p) ==
  LET i == Head(loc[p].puts)
      unlinked == ivalid[i] /\ inode[i].nlink = 0
  IN  /\ Putting(p) /\ ~loc[p].dropping /\ ilocked[i] = Unlocked
      /\ IF unlinked /\ iref[i] = 1
         THEN inode' = [inode EXCEPT ![i] = FreeInode] /\ ivalid' = [ivalid EXCEPT ![i] = FALSE]
         ELSE UNCHANGED <<inode, ivalid>>
      /\ raced' = raced \cup {j \in {i} : unlinked /\ \E q \in Procs \ {p} :
                                            loc[q].dropping /\ Head(loc[q].puts) = i}
      /\ Set(p, [loc[p] EXCEPT !.dropping = TRUE])
      /\ UNCHANGED <<iref, ilocked, cwd, opened, nameCalls, ipanic>>

\* ip->ref--, under icache.lock alone.
IputDrop(p) ==
  LET i == Head(loc[p].puts) IN
  /\ Putting(p) /\ loc[p].dropping
  /\ iref' = [iref EXCEPT ![i] = @ - 1]
  /\ Set(p, [loc[p] EXCEPT !.puts = Tail(@), !.dropping = FALSE])
  /\ UNCHANGED <<inode, ivalid, ilocked, cwd, opened, raced, nameCalls, ipanic>>

-----------------------------------------------------------------------------
\* The inode whose lock p asks for next.
Wanted(p) ==
  IF loc[p].puts # <<>> THEN (IF loc[p].dropping THEN None ELSE Head(loc[p].puts))
  ELSE CASE loc[p].pc \in {"walk", "last", "exists", "unlink"} -> loc[p].ip
         [] loc[p].pc = "parent" -> loc[p].dp
         [] loc[p].pc = "undo" -> loc[p].old
         [] OTHER -> None

\* ilock(): panic("ilock: no type").
IlockNoType(p) ==
  /\ ipanic = "none" /\ loc[p].puts = <<>> /\ Wanted(p) # None
  /\ ilocked[Wanted(p)] = Unlocked /\ inode[Wanted(p)].type = "free"
  /\ ipanic' = "ilock: no type"
  /\ UNCHANGED <<inode, iref, ivalid, ilocked, cwd, opened, loc, raced, nameCalls>>

InodesNext ==
  \E p \in Procs :
    \/ \E c \in Calls : StartCall(p, c)
    \/ CloseFile(p) \/ Walk1(p)
    \/ OpenLast(p) \/ Chdir(p) \/ LinkOld(p) \/ LinkNew(p) \/ UnlockParent(p) \/ LinkUndo(p)
    \/ CreateParent(p) \/ Made(p) \/ Exists(p)
    \/ UnlinkParent(p) \/ UnlinkEntry(p) \/ Unlinked(p)
    \/ IputLocked(p) \/ IputDrop(p) \/ IlockNoType(p)

InodesSpec == InodesInit /\ [][InodesNext]_inodesVars
-----------------------------------------------------------------------------
\* Properties.

InodesTypeOK ==
  /\ inode \in [Inums -> Node]
  /\ iref \in [Inums -> Nat] /\ ivalid \in [Inums -> BOOLEAN]
  /\ ilocked \in [Inums -> Procs \cup {Unlocked}]
  /\ raced \subseteq Inums

\* ip->ref is the number of pointers to the inode that processes have: open
\* files, working directories and the variables of calls, on every path through
\* a call that fails.  So an inode without links and references is free again,
\* unless two processes put it at the same time: each then sees the other's
\* reference and leaves the inode to it.
RefsHeld ==
  \A i \in Inums :
    /\ iref[i] = RefCount(i)
    /\ inode[i].type # "free" /\ inode[i].nlink = 0 /\ iref[i] = 0 => i \in raced

\* The directories that the root leads to, by names: the smallest set that has it
\* and every directory with an entry in a directory of the set.
KidsOf(S) == {d \in Inums : inode[d].type = "dir" /\ \E e \in S, n \in DNames : inode[e].ent[n] = d}
Linked ==
  {d \in Inums : \A S \in SUBSET Inums : Root \in S /\ KidsOf(S) \subseteq S => d \in S}

\* No link is missing from nlink: it covers every entry, and "..", of a
\* directory that has a path, so that an inode with a name is never freed.
LinksCovered ==
  LET places == Linked \X (DNames \cup {".."}) IN
  \A i \in Inums :
    LET entries == {e \in places : inode[e[1]].ent[e[2]] = i /\ e[1] # i} IN
    /\ inode[i].nlink >= Cardinality(entries)
    /\ entries # {} => inode[i].type # "free"

\* An inode that a process has open or as its working directory is not freed
\* under it, and the panic for an inode without type needs a walk through "..": it
\* is the one entry that nlink does not always cover.
InUse(p) == {cwd[p], opened[p]} \ {None}
HeldNotFreed ==
  /\ \A p \in Procs : \A i \in InUse(p) : inode[i].type # "free"
  /\ ipanic # "none" => \E p \in Procs :
       Wanted(p) # None /\ inode[Wanted(p)].type = "free" /\ loc[p].name = ".."

\* Processes never wait for inodes in a circle, nor one for itself, except
\* through iput(): it takes the lock of an inode while its caller may hold that of
\* another one, in any order.  (Those circles are real, see the README.)
CyclesThroughIput ==
  \A S \in SUBSET {p \in Procs : loc[p].puts = <<>> /\ Wanted(p) # None} :
    S # {} => \E p \in S : ilocked[Wanted(p)] \notin S
=============================================================================
