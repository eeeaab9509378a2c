-------------------------------- MODULE Files ---------------------------------
(***************************************************************************)
(* Descriptors, open files and pipes: file.c, pipe.c and the descriptor    *)
(* calls of sysfile.c in assignment03/project03/xv6-public (the three      *)
(* copies of xv6 agree here).                                              *)
(*                                                                         *)
(* One action is one section under ftable.lock or under p->lock, or what   *)
(* a process does to its own descriptors; between two of them any other    *)
(* process may run.  Bytes are members of Bytes, the counters of a pipe    *)
(* wrap at COUNTER, a power of two.                                        *)
(***************************************************************************)
EXTENDS Integers, Sequences, FiniteSets, FiniteSetsExt

CONSTANTS
  FProcs,      \* processes
  InitProc,    \* initproc, the only process at the start, which never exits
  NOFILE,      \* param.h: descriptors of a process
  NFILE,       \* param.h: slots of ftable
  PIPESIZE,    \* pipe.c
  COUNTER,     \* values of the uint counters nread and nwrite
  Bytes,       \* what is written to a pipe
  Messages,    \* sequences of bytes a process may write
  ReadSizes    \* numbers of bytes a process may ask for

ASSUME FilesAssumption ==
  /\ InitProc \in FProcs /\ IsFiniteSet(FProcs)
  /\ NOFILE \in Nat \ {0} /\ NFILE \in Nat \ {0}
  /\ PIPESIZE \in Nat \ {0} /\ COUNTER \in Nat
  /\ COUNTER % PIPESIZE = 0 /\ COUNTER > PIPESIZE
  /\ Messages \subseteq Seq(Bytes) /\ ReadSizes \subseteq Nat \ {0}

FDs   == 0..(NOFILE - 1)
Slots == 1..NFILE
NoFile == 0

VARIABLES
  ofile,       \* proc.ofile: the slot each descriptor of a process refers to
  file,        \* ftable.file
  pipe,        \* the page pipealloc() takes from kalloc()
  pageFree,    \* that page is on the free list
  inodeRefs,   \* ip->ref of the one inode that is opened
  killedProcs, \* processes with p->killed
  fpc,         \* where each process is
  call,        \* the file, and what is left to write or the bytes to read
  result       \* what the last step copied out to a reader, if it was a read()

filesVars == <<ofile, file, pipe, pageFree, inodeRefs, killedProcs, fpc, call, result>>

ClosedFile == [ref |-> 0, type |-> "FD_NONE", writable |-> FALSE]
NoCall == [slot |-> NoFile, bytes |-> <<>>, n |-> 0]

FilesInit ==
  /\ ofile = [p \in FProcs |-> [fd \in FDs |-> NoFile]]
  /\ file = [f \in Slots |-> ClosedFile]
  /\ pipe = [nread |-> 0, nwrite |-> 0, data |-> [i \in 0..(PIPESIZE - 1) |-> CHOOSE b \in Bytes : TRUE],
             readopen |-> FALSE, writeopen |-> FALSE]
  /\ pageFree = TRUE
  /\ inodeRefs = 0
  /\ killedProcs = {}
  /\ fpc = [p \in FProcs |-> IF p = InitProc THEN "user" ELSE "unused"]
  /\ call = [p \in FProcs |-> NoCall]
  /\ result = <<>>

\* A system call is entered, or not: trap() makes a killed process exit.
InUser(p) == fpc[p] = "user" /\ p \notin killedProcs

FreeSlots  == {f \in Slots : file[f].ref = 0}
FreeFDs(p) == {fd \in FDs : ofile[p][fd] = NoFile}
Second(S)  == Min(S \ {Min(S)})

NothingRead == result' = <<>>

Walk(p, s) == fpc' = [fpc EXCEPT ![p] = s]

-----------------------------------------------------------------------------
\* Descriptors.  A call that fails undoes what it did, and is no step here.

\* pipealloc(), and fdalloc() for both ends.
SysPipe(p) ==
  LET r == Min(FreeSlots)  w == Second(FreeSlots) IN
  /\ InUser(p)
  /\ Cardinality(FreeSlots) >= 2 /\ Cardinality(FreeFDs(p)) >= 2 /\ pageFree
  /\ pageFree' = FALSE
  /\ pipe' = [pipe EXCEPT !.nread = 0, !.nwrite = 0, !.readopen = TRUE, !.writeopen = TRUE]
  /\ file' = [file EXCEPT ![r] = [ref |-> 1, type |-> "FD_PIPE", writable |-> FALSE],
                          ![w] = [ref |-> 1, type |-> "FD_PIPE", writable |-> TRUE]]
  /\ ofile' = [ofile EXCEPT ![p][Min(FreeFDs(p))] = r, ![p][Second(FreeFDs(p))] = w]
  /\ NothingRead /\ UNCHANGED <<inodeRefs, killedProcs, fpc, call>>

\* sys_open() of a file that exists: filealloc() and fdalloc(), and after
\* end_op() the fields of the file.
SysOpen(p) ==
  /\ InUser(p) /\ FreeSlots # {} /\ FreeFDs(p) # {}
  /\ inodeRefs' = inodeRefs + 1
  /\ file' = [file EXCEPT ![Min(FreeSlots)].ref = 1]
  /\ ofile' = [ofile EXCEPT ![p][Min(FreeFDs(p))] = Min(FreeSlots)]
  /\ call' = [call EXCEPT ![p].slot = Min(FreeSlots)]
  /\ Walk(p, "opening")
  /\ NothingRead /\ UNCHANGED <<pipe, pageFree, killedProcs>>

SysOpenDone(p, w) ==
  /\ fpc[p] = "opening"
  /\ file' = [file EXCEPT ![call[p].slot].type = "FD_INODE", ![call[p].slot].writable = w]
  /\ call' = [call EXCEPT ![p] = NoCall]
  /\ Walk(p, "user")
  /\ NothingRead /\ UNCHANGED <<ofile, pipe, pageFree, inodeRefs, killedProcs>>

\* Mutant of SysDup: filedup() is not called.
SysDupUncounted(p, fd) ==
  /\ InUser(p) /\ ofile[p][fd] # NoFile /\ FreeFDs(p) # {}
  /\ ofile' = [ofile EXCEPT ![p][Min(FreeFDs(p))] = ofile[p][fd]]
  /\ NothingRead /\ UNCHANGED <<file, pipe, pageFree, inodeRefs, killedProcs, fpc, call>>

SysDup(p, fd) ==
  /\ InUser(p) /\ ofile[p][fd] # NoFile /\ FreeFDs(p) # {}
  /\ ofile' = [ofile EXCEPT ![p][Min(FreeFDs(p))] = ofile[p][fd]]
  /\ file' = [file EXCEPT ![ofile[p][fd]].ref = @ + 1]
  /\ NothingRead /\ UNCHANGED <<pipe, pageFree, inodeRefs, killedProcs, fpc, call>>

\* fork() as far as files go: filedup() of every descriptor.
ForkFiles(p, c) ==
  /\ InUser(p) /\ fpc[c] = "unused"
  /\ ofile' = [ofile EXCEPT ![c] = ofile[p]]
  /\ file' = [f \in Slots |->
                [file[f] EXCEPT !.ref = @ + Cardinality({fd \in FDs : ofile[p][fd] = f})]]
  /\ Walk(c, "user")
  /\ NothingRead /\ UNCHANGED <<pipe, pageFree, inodeRefs, killedProcs, call>>

\* fileclose(), first half: under ftable.lock.  The last reference leaves the
\* file to the second half, which works on the copy ff.
Drop(p, fd, then) ==
  LET f == ofile[p][fd] IN
  /\ ofile' = [ofile EXCEPT ![p][fd] = NoFile]
  /\ IF file[f].ref > 1 \/ file[f].type = "FD_NONE"
     THEN /\ file' = [file EXCEPT ![f].ref = @ - 1]
          /\ Walk(p, then) /\ UNCHANGED call
     ELSE /\ file' = [file EXCEPT ![f].ref = 0, ![f].type = "FD_NONE"]
          /\ call' = [call EXCEPT ![p] = [type |-> file[f].type, writable |-> file[f].writable, then |-> then]]
          /\ Walk(p, "closing")
  /\ NothingRead /\ UNCHANGED <<pipe, pageFree, inodeRefs, killedProcs>>

SysClose(p, fd) == InUser(p) /\ ofile[p][fd] # NoFile /\ Drop(p, fd, "user")

\* exit() closes the descriptors one by one.  A process may also be killed.
StartExit(p) ==
  /\ fpc[p] = "user" /\ p # InitProc
  /\ Walk(p, "exiting")
  /\ NothingRead /\ UNCHANGED <<ofile, file, pipe, pageFree, inodeRefs, killedProcs, call>>

OpenFDs(p) == {fd \in FDs : ofile[p][fd] # NoFile}

ExitClose(p) == fpc[p] = "exiting" /\ OpenFDs(p) # {} /\ Drop(p, Min(OpenFDs(p)), "exiting")

\* The zombie is reaped and its slot can be used again.
ExitDone(p) ==
  /\ fpc[p] = "exiting" /\ OpenFDs(p) = {}
  /\ Walk(p, "unused")
  /\ killedProcs' = killedProcs \ {p}
  /\ NothingRead /\ UNCHANGED <<ofile, file, pipe, pageFree, inodeRefs, call>>

\* kill() by a process that is not modelled.
KillProc(p) ==
  /\ fpc[p] # "unused" /\ p \notin killedProcs \cup {InitProc}
  /\ killedProcs' = killedProcs \cup {p}
  /\ fpc' = [fpc EXCEPT ![p] = CASE @ = "read_sleep" -> "read" [] @ = "write_sleep" -> "write" [] OTHER -> @]
  /\ NothingRead /\ UNCHANGED <<ofile, file, pipe, pageFree, inodeRefs, call>>

-----------------------------------------------------------------------------
\* fileclose(), second half: iput(), or pipeclose() under p->lock.

CloseInode(p) ==
  /\ fpc[p] = "closing" /\ call[p].type = "FD_INODE"
  /\ inodeRefs' = inodeRefs - 1
  /\ Walk(p, call[p].then) /\ call' = [call EXCEPT ![p] = NoCall]
  /\ NothingRead /\ UNCHANGED <<ofile, file, pipe, pageFree, killedProcs>>

\* wakeup() of the sleepers of one end, as p goes to s.
Wake(p, s, sleep, run) ==
  fpc' = [q \in FProcs |-> IF q = p THEN s ELSE IF fpc[q] = sleep THEN run ELSE fpc[q]]

\* Mutant of ClosePipe: the writers are not woken when the reader goes.
ClosePipeSilently(p) ==
  /\ fpc[p] = "closing" /\ call[p].type = "FD_PIPE"
  /\ IF call[p].writable
     THEN /\ pipe' = [pipe EXCEPT !.writeopen = FALSE]
          /\ Wake(p, call[p].then, "read_sleep", "read")
     ELSE /\ pipe' = [pipe EXCEPT !.readopen = FALSE]
          /\ Walk(p, call[p].then)
  /\ pageFree' = (~pipe'.readopen /\ ~pipe'.writeopen)
  /\ call' = [call EXCEPT ![p] = NoCall]
  /\ NothingRead /\ UNCHANGED <<ofile, file, inodeRefs, killedProcs>>

ClosePipe(p) ==
  /\ fpc[p] = "closing" /\ call[p].type = "FD_PIPE"
  /\ IF call[p].writable
     THEN /\ pipe' = [pipe EXCEPT !.writeopen = FALSE]
          /\ Wake(p, call[p].then, "read_sleep", "read")
     ELSE /\ pipe' = [pipe EXCEPT !.readopen = FALSE]
          /\ Wake(p, call[p].then, "write_sleep", "write")
  /\ pageFree' = (~pipe'.readopen /\ ~pipe'.writeopen)
  /\ call' = [call EXCEPT ![p] = NoCall]
  /\ NothingRead /\ UNCHANGED <<ofile, file, inodeRefs, killedProcs>>

-----------------------------------------------------------------------------
\* Pipes.

Used == (pipe.nwrite - pipe.nread) % COUNTER

\* Mutant of Room: a full pipe takes one more byte.
RoomOneMore == PIPESIZE + 1 - Used
Room == PIPESIZE - Used

\* Mutant of InPipe: the position is not reduced with the counter.
InPipeFromZero == [i \in 1..Used |-> pipe.data[(i - 1) % PIPESIZE]]

\* The bytes between nread and nwrite, oldest first.
InPipe == [i \in 1..Used |-> pipe.data[(pipe.nread + i - 1) % PIPESIZE]]

SysWrite(p, fd, m) ==
  /\ InUser(p) /\ ofile[p][fd] # NoFile
  /\ file[ofile[p][fd]].type = "FD_PIPE" /\ file[ofile[p][fd]].writable
  /\ call' = [call EXCEPT ![p] = [NoCall EXCEPT !.slot = ofile[p][fd], !.bytes = m]]
  /\ Walk(p, "write")
  /\ NothingRead /\ UNCHANGED <<ofile, file, pipe, pageFree, inodeRefs, killedProcs>>

SysRead(p, fd, n) ==
  /\ InUser(p) /\ ofile[p][fd] # NoFile
  /\ file[ofile[p][fd]].type = "FD_PIPE" /\ ~file[ofile[p][fd]].writable
  /\ call' = [call EXCEPT ![p] = [NoCall EXCEPT !.slot = ofile[p][fd], !.n = n]]
  /\ Walk(p, "read")
  /\ NothingRead /\ UNCHANGED <<ofile, file, pipe, pageFree, inodeRefs, killedProcs>>

\* data[nwrite++ % PIPESIZE] for the first k bytes of m.
Filled(m, k) ==
  [pipe EXCEPT
     !.nwrite = (@ + k) % COUNTER,
     !.data = [i \in DOMAIN pipe.data |->
                 LET at == {j \in 1..k : (pipe.nwrite + j - 1) % PIPESIZE = i}
                 IN  IF at = {} THEN pipe.data[i] ELSE m[Max(at)]]]

\* pipewrite() to the end: everything fits.
PipeWriteAll(p) ==
  LET m == call[p].bytes IN
  /\ fpc[p] = "write" /\ Len(m) <= Room
  /\ pipe' = Filled(m, Len(m))
  /\ Wake(p, "user", "read_sleep", "read")
  /\ call' = [call EXCEPT ![p] = NoCall]
  /\ NothingRead /\ UNCHANGED <<ofile, file, pageFree, inodeRefs, killedProcs>>

\* The pipe is full with bytes left: wake the readers and sleep.
PipeWriteSleep(p) ==
  LET m == call[p].bytes IN
  /\ fpc[p] = "write" /\ Len(m) > Room
  /\ pipe.readopen /\ p \notin killedProcs
  /\ pipe' = Filled(m, Room)
  /\ Wake(p, "write_sleep", "read_sleep", "read")
  /\ call' = [call EXCEPT ![p].bytes = SubSeq(m, Room + 1, Len(m))]
  /\ NothingRead /\ UNCHANGED <<ofile, file, pageFree, inodeRefs, killedProcs>>

\* The pipe is full and the reader is gone or the writer was killed: return -1
\* without a wakeup.
PipeWriteFail(p) ==
  LET m == call[p].bytes IN
  /\ fpc[p] = "write" /\ Len(m) > Room
  /\ ~pipe.readopen \/ p \in killedProcs
  /\ pipe' = Filled(m, Room)
  /\ Walk(p, "user")
  /\ call' = [call EXCEPT ![p] = NoCall]
  /\ NothingRead /\ UNCHANGED <<ofile, file, pageFree, inodeRefs, killedProcs>>

PipeReadSleep(p) ==
  /\ fpc[p] = "read" /\ Used = 0 /\ pipe.writeopen /\ p \notin killedProcs
  /\ Walk(p, "read_sleep")
  /\ NothingRead /\ UNCHANGED <<ofile, file, pipe, pageFree, inodeRefs, killedProcs, call>>

PipeReadFail(p) ==
  /\ fpc[p] = "read" /\ Used = 0 /\ pipe.writeopen /\ p \in killedProcs
  /\ Walk(p, "user")
  /\ call' = [call EXCEPT ![p] = NoCall]
  /\ NothingRead /\ UNCHANGED <<ofile, file, pipe, pageFree, inodeRefs, killedProcs>>

PipeRead(p) ==
  LET k == IF call[p].n < Used THEN call[p].n ELSE Used IN
  /\ fpc[p] = "read" /\ (Used > 0 \/ ~pipe.writeopen)
  /\ result' = SubSeq(InPipe, 1, k)
  /\ pipe' = [pipe EXCEPT !.nread = (@ + k) % COUNTER]
  /\ Wake(p, "user", "write_sleep", "write")
  /\ call' = [call EXCEPT ![p] = NoCall]
  /\ UNCHANGED <<ofile, file, pageFree, inodeRefs, killedProcs>>

-----------------------------------------------------------------------------
FileStep(p) ==
  \/ SysPipe(p) \/ SysOpen(p) \/ \E w \in BOOLEAN : SysOpenDone(p, w)
  \/ \E fd \in FDs : SysDup(p, fd) \/ SysClose(p, fd)
  \/ \E c \in FProcs : ForkFiles(p, c)
  \/ StartExit(p) \/ ExitClose(p) \/ ExitDone(p) \/ KillProc(p)
  \/ CloseInode(p) \/ ClosePipe(p)
  \/ \E fd \in FDs, m \in Messages : SysWrite(p, fd, m)
  \/ \E fd \in FDs, n \in ReadSizes : SysRead(p, fd, n)
  \/ PipeWriteAll(p) \/ PipeWriteSleep(p) \/ PipeWriteFail(p)
  \/ PipeReadSleep(p) \/ PipeReadFail(p) \/ PipeRead(p)

FilesNext == \E p \in FProcs : FileStep(p)

FilesSpec == FilesInit /\ [][FilesNext]_filesVars
-----------------------------------------------------------------------------
\* Properties.

FilesTypeOK ==
  /\ ofile \in [FProcs -> [FDs -> Slots \cup {NoFile}]]
  /\ file \in [Slots -> [ref : Nat, type : {"FD_NONE", "FD_PIPE", "FD_INODE"}, writable : BOOLEAN]]
  /\ pipe.nread \in 0..(COUNTER - 1) /\ pipe.nwrite \in 0..(COUNTER - 1)
  /\ Used <= PIPESIZE
  /\ pageFree \in BOOLEAN /\ inodeRefs \in Nat
  /\ killedProcs \subseteq FProcs

\* An end of the pipe is open exactly while some file, or a close that is
\* under way, stands for it.
EndOpen(w) ==
  \/ \E f \in Slots : file[f].type = "FD_PIPE" /\ file[f].writable = w
  \/ \E p \in FProcs : fpc[p] = "closing" /\ call[p].type = "FD_PIPE" /\ call[p].writable = w

\* f->ref counts the descriptors of all processes; ip->ref counts the open
\* files that name the inode, those half opened and those half closed; the
\* flags of a pipe say which of its ends have files.  So a file, an inode or the
\* page of a pipe is given back once and after its last use, and readers see
\* the end of the data exactly when nobody can write any more.
RefsCounted ==
  /\ \A f \in Slots : file[f].ref = Cardinality({pf \in FProcs \X FDs : ofile[pf[1]][pf[2]] = f})
  /\ inodeRefs = Cardinality({f \in Slots : file[f].type = "FD_INODE"})
               + Cardinality({p \in FProcs : fpc[p] = "opening"})
               + Cardinality({p \in FProcs : fpc[p] = "closing" /\ call[p].type = "FD_INODE"})
  /\ pipe.writeopen <=> EndOpen(TRUE)
  /\ pipe.readopen <=> EndOpen(FALSE)
  /\ pageFree <=> ~pipe.readopen /\ ~pipe.writeopen
  /\ \A p \in FProcs : fpc[p] \in {"read", "read_sleep", "write", "write_sleep"} => ~pageFree

\* A reader waits for a pipe that somebody may still write to, a writer for a
\* full pipe that somebody may still read; they never both wait.
AsleepWithCause ==
  /\ \A p \in FProcs :
       /\ fpc[p] = "read_sleep" => pipe.writeopen
       /\ fpc[p] = "write_sleep" => pipe.readopen /\ Room = 0
  /\ \A p, q \in FProcs : ~(fpc[p] = "read_sleep" /\ fpc[q] = "write_sleep")

\* A step that puts bytes into the pipe leaves a reader asleep only if it is
\* the write() of a killed process, which the code ends without wakeup().
ReadersTold ==
  (Used' > Used /\ \E p \in FProcs : fpc[p] = "read_sleep" /\ fpc'[p] = "read_sleep")
    => \E q \in killedProcs : fpc[q] = "write" /\ fpc'[q] = "user"

\* Nobody sleeps on a pipe that it could go on with, but for the readers that
\* a killed writer did not wake: they wait for the next writer, or for the
\* last to close, while the pipe holds bytes.
SleepersHaveCause == [][AsleepWithCause' /\ ReadersTold]_filesVars

Fifo == INSTANCE Channel WITH sent <- InPipe, got <- result
PipeIsFifo == Fifo!Spec
=============================================================================
