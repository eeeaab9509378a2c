------------------------------- MODULE MCStorage ------------------------------
(***************************************************************************)
(* Model values and fairness for Bcache, Bmap and Inodes, the layers of    *)
(* the file system besides the log.  They share no variable: a behaviour   *)
(* is one of `layer`, and the others stay in an initial state of theirs.   *)
(***************************************************************************)
EXTENDS Bcache, Bmap, Inodes

CONSTANTS p1, p2

VARIABLE layer

Only(s) == layer = s /\ UNCHANGED layer

\* A write through every level of the tree, and one inside the file that begins
\* in the middle of a block.
Writes == {<<0, 18>>, <<15, 3>>}

-----------------------------------------------------------------------------
\* File trees of four inodes.

FileNode(n) == [FreeInode EXCEPT !.type = "file", !.nlink = n]
DirNode(self, parent, entries, n) ==
  [FreeInode EXCEPT !.type = "dir", !.nlink = n,
     !.ent = [e \in DEntries |-> CASE e = "." -> self [] e = ".." -> parent
                                   [] e \in DOMAIN entries -> entries[e] [] OTHER -> None]]
Tree4(root, i2, i3) == [i \in Inums |-> CASE i = 1 -> root [] i = 2 -> i2 [] i = 3 -> i3 [] i = 4 -> FreeInode]
Everywhere(i) == [p \in Procs |-> i]

\* A file with two names.
TwoNames == [inode |-> Tree4(DirNode(1, 1, [a |-> 2, b |-> 2], 1), FileNode(2), FreeInode),
             cwd |-> Everywhere(Root), opened |-> Everywhere(None)]

\* /a/b, which is the working directory of p1.
DeepCwd == [inode |-> Tree4(DirNode(1, 1, [a |-> 2], 2), DirNode(2, 1, [b |-> 3], 2), DirNode(3, 2, <<>>, 1)),
            cwd |-> [Everywhere(Root) EXCEPT ![p1] = 3], opened |-> Everywhere(None)]

\* A file that both processes have open.
SharedFile == [inode |-> Tree4(DirNode(1, 1, [a |-> 2], 1), FileNode(1), FreeInode),
               cwd |-> Everywhere(Root), opened |-> Everywhere(2)]

FileTrees == {TwoNames, DeepCwd, SharedFile}

NameCall(name, path, new, write) == [name |-> name, path |-> path, new |-> new, write |-> write]
NameCallSet ==
  {NameCall("open", <<"a">>, <<>>, TRUE), NameCall("open", <<"b">>, <<>>, FALSE),
   NameCall("chdir", <<"..">>, <<>>, FALSE), NameCall("chdir", <<"a">>, <<>>, FALSE),
   NameCall("link", <<"a">>, <<"b">>, FALSE), NameCall("symlink", <<"b">>, <<"a">>, TRUE),
   NameCall("unlink", <<"a">>, <<>>, FALSE), NameCall("unlink", <<"b">>, <<>>, FALSE),
   NameCall("unlink", <<"a", "b">>, <<>>, FALSE), NameCall("unlink", <<".">>, <<>>, FALSE),
   NameCall("create", <<"b">>, <<>>, TRUE), NameCall("mkdir", <<"b">>, <<>>, TRUE)}

-----------------------------------------------------------------------------
StorageInit ==
  /\ layer \in {"bcache", "bmap", "inodes"}
  /\ BcacheInit /\ BmapInit /\ InodesInit
  /\ layer # "bcache" => platter = [n \in Nos |-> CHOOSE v \in Contents : TRUE]
  /\ layer # "inodes" => inode = TwoNames.inode

StorageNext ==
  \/ Only("bcache") /\ BcacheNext /\ UNCHANGED <<bmapVars, inodesVars>>
  \/ Only("bmap") /\ BmapNext /\ UNCHANGED <<bcacheVars, inodesVars>>
  \/ Only("inodes") /\ InodesNext /\ UNCHANGED <<bcacheVars, bmapVars>>

\* The disk interrupts when it is done, and who was woken runs again.
DiskFairness ==
  /\ WF_bcacheVars(layer = "bcache" /\ \E ok \in Outcomes : IdeIntr(ok))
  /\ \A p \in Users : WF_bcacheVars(layer = "bcache" /\ IoWoken(p))

StorageSpec ==
  StorageInit /\ [][StorageNext]_<<layer, bcacheVars, bmapVars, inodesVars>> /\ DiskFairness

-----------------------------------------------------------------------------
\* The types of the three layers.
StorageTypeOK == BcacheTypeOK /\ BmapTypeOK /\ InodesTypeOK

\* A process that waits in iderw() gets its block: ideintr() wakes the sleeper
\* of the request it has done and starts the next one (ide.c:104-134).
IoAnswered == \A p \in Users : bpc[p] = "io" ~> bpc[p] = "held"
===============================================================================
