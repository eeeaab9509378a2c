--------------------------------- MODULE Shell --------------------------------
(***************************************************************************)
(* The shell, assignment03/project03/xv6-public/sh.c: the parser of a      *)
(* command line, and the processes that runcmd() makes of the parsed       *)
(* command, with their descriptors and pipes.                              *)
(*                                                                         *)
(* A line is a sequence of tokens.  A program is known by its name: "cat"  *)
(* reads its input to the end, "fill" writes more than a pipe holds, any   *)
(* other neither waits for input nor for room.  What the closing of a      *)
(* descriptor is to a reader and a writer of the pipe is pipe.c's (Files). *)
(* What a shell does between two forks or waits is one action.             *)
(***************************************************************************)
EXTENDS Integers, Sequences, SequencesExt, FiniteSetsExt

CONSTANTS
  Sessions,    \* the command lines that are typed, one after the other
  MAXARGS,     \* sh.c
  NJOBS        \* processes besides init that fit in the process table

ASSUME ShellAssumption == NJOBS \in Nat \ {0} /\ MAXARGS \in Nat

Lines == UNION {ToSet(s) : s \in Sessions}
Jobs  == 1..NJOBS
Main  == 1         \* the shell that init started
Fds   == 0..4

VARIABLES
  job,         \* the processes: where they are, their command, descriptors and parent
  typed        \* lines typed

shellVars == <<job, typed>>

-----------------------------------------------------------------------------
\* The parser.  Every function returns the command it found and the tokens left,
\* or NoParse, where the code calls panic().

Symbols == {"<", ">", ">>", "|", "&", ";", "(", ")"}

NoCommand    == [type |-> "none"]
Found(c, ts) == [cmd |-> c, rest |-> ts]
NoParse      == Found([type |-> "panic"], <<>>)

Peek(ts, toks) == ts # <<>> /\ Head(ts) \in toks
IsWord(ts)     == ts # <<>> /\ Head(ts) \notin Symbols

\* redircmd() of each redirection in turn: the last one is outermost.
Redirect(c, tok) == [type |-> "REDIR", fd |-> IF tok = "<" THEN 0 ELSE 1, cmd |-> c]
Redirected(c, toks) == FoldLeft(Redirect, c, toks)

RECURSIVE ParseRedirs(_, _)
ParseRedirs(r, toks) ==
  IF r = NoParse \/ ~Peek(r.rest, {"<", ">", ">>"}) THEN [r |-> r, toks |-> toks]
  ELSE IF ~IsWord(Tail(r.rest)) THEN [r |-> NoParse, toks |-> <<>>]
  ELSE ParseRedirs([r EXCEPT !.rest = Tail(Tail(@))], Append(toks, Head(r.rest)))

\* The loop of parseexec(), with the arguments and redirections it has read.
RECURSIVE ParseArgs(_, _, _)
ParseArgs(argv, toks, ts) ==
  LET more == ParseRedirs(Found(NoCommand, ts), toks)
      left == more.r.rest IN
  IF more.r = NoParse THEN NoParse
  ELSE IF left = <<>> \/ Peek(left, {"|", ")", "&", ";"})
  THEN Found(Redirected([type |-> "EXEC", argv |-> argv], more.toks), left)
  ELSE IF ~IsWord(left) \/ Len(argv) + 1 >= MAXARGS THEN NoParse
  ELSE ParseArgs(Append(argv, Head(left)), more.toks, Tail(left))

\* pipecmd() or listcmd() of what was found and what follows.
Joined(type, left, right) ==
  IF right = NoParse THEN NoParse
  ELSE Found([type |-> type, left |-> left.cmd, right |-> right.cmd], right.rest)

RECURSIVE Backed(_)
Backed(r) ==
  IF Peek(r.rest, {"&"}) THEN Backed(Found([type |-> "BACK", cmd |-> r.cmd], Tail(r.rest))) ELSE r

RECURSIVE ParseLine(_), ParsePipe(_), ParseBlock(_)
ParseBlock(ts) ==
  LET r == ParseLine(Tail(ts)) IN
  IF r = NoParse \/ ~Peek(r.rest, {")"}) THEN NoParse
  ELSE LET more == ParseRedirs(Found(r.cmd, Tail(r.rest)), <<>>) IN
       IF more.r = NoParse THEN NoParse ELSE Found(Redirected(r.cmd, more.toks), more.r.rest)

ParsePipe(ts) ==
  LET r == IF Peek(ts, {"("}) THEN ParseBlock(ts) ELSE ParseArgs(<<>>, <<>>, ts) IN
  IF Peek(r.rest, {"|"}) THEN Joined("PIPE", r, ParsePipe(Tail(r.rest))) ELSE r

ParseLine(ts) ==
  LET r == Backed(ParsePipe(ts)) IN
  IF Peek(r.rest, {";"}) THEN Joined("LIST", r, ParseLine(Tail(r.rest))) ELSE r

\* parsecmd(): tokens left over are an error too.
Parse(ts) == LET r == ParseLine(ts) IN IF r.rest # <<>> THEN NoParse.cmd ELSE r.cmd

ParsedLines == [line \in Lines |-> Parse(line)]

-----------------------------------------------------------------------------
\* The system calls of the shell.

Closed == <<>>
Tty    == <<"tty">>
OnFile == <<"file">>
ReadEnd(k)  == <<"read", k>>
WriteEnd(k) == <<"write", k>>

NoJob == [pc |-> "none", cmd |-> NoCommand, fds |-> [f \in Fds |-> Closed], parent |-> 0]
NewShell == [NoJob EXCEPT !.pc = "prompt", !.fds = [f \in Fds |-> IF f < 3 THEN Tty ELSE Closed]]

ShellInit == job = [j \in Jobs |-> IF j = Main THEN NewShell ELSE NoJob] /\ typed = <<>>

LowestFree(fds)  == Min({f \in Fds : fds[f] = Closed})
Close(fds, f)    == [fds EXCEPT ![f] = Closed]
Opened(fds, end) == [fds EXCEPT ![LowestFree(fds)] = end]

Holders(end) == {j \in Jobs : \E f \in Fds : job[j].fds[f] = end}
Children(j)  == {c \in Jobs : job[c].parent = j /\ job[c].pc # "none"}

\* exit(): the children go to init, which reaps what it gets.
Exited(t, j) ==
  LET left == [c \in Jobs |-> IF t[c].parent # j THEN t[c]
                              ELSE IF t[c].pc = "zombie" THEN NoJob ELSE [t[c] EXCEPT !.parent = 0]] IN
  [left EXCEPT ![j] = IF j # Main /\ t[j].parent = 0 THEN NoJob
                      ELSE [NoJob EXCEPT !.pc = "zombie", !.parent = t[j].parent]]

ExitJob(j) == job' = Exited(job, j)

\* fork1(): the child starts at pc with a command; without a free slot, panic().
Fork1(j, mine, pc, cmd) ==
  LET free == {c \in Jobs : job[c].pc = "none"} IN
  IF free = {} THEN ExitJob(j)
  ELSE job' = [job EXCEPT ![j] = mine, ![Min(free)] = [mine EXCEPT !.pc = pc, !.cmd = cmd, !.parent = j]]

\* wait(): the slot of a child that has exited, and on.
WaitJob(j, mine) ==
  \/ Children(j) = {} /\ job' = [job EXCEPT ![j] = mine]
  \/ \E c \in Children(j) : job[c].pc = "zombie" /\ job' = [job EXCEPT ![j] = mine, ![c] = NoJob]

-----------------------------------------------------------------------------
\* main(): read a line and let a child parse and run it.
TypeLine(line) ==
  /\ job[Main].pc = "prompt"
  /\ typed' = Append(typed, line) /\ \E s \in Sessions : IsPrefix(typed', s)
  /\ Fork1(Main, [job[Main] EXCEPT !.pc = "wait"], "parse", [type |-> "LINE", tokens |-> line])

\* init starts a new shell when the old one has left with panic("fork").
Restart ==
  /\ job[Main].pc = "zombie"
  /\ job' = [job EXCEPT ![Main] = NewShell]
  /\ UNCHANGED typed

ParseCmd(j) ==
  /\ job[j].pc = "parse"
  /\ LET c == ParsedLines[job[j].cmd.tokens] IN
     IF c = NoParse.cmd THEN ExitJob(j)
     ELSE job' = [job EXCEPT ![j].pc = "run", ![j].cmd = c]

Command(j, type) == job[j].pc = "run" /\ job[j].cmd.type = type

Program(c) == [type |-> "PROGRAM", name |-> c.argv[1]]

\* exec() of the program, or its failure.
RunExec(j) ==
  /\ Command(j, "EXEC")
  /\ \/ job[j].cmd.argv # <<>> /\ job' = [job EXCEPT ![j].pc = "program", ![j].cmd = Program(@)]
     \/ ExitJob(j)

RunRedir(j) ==
  LET c == job[j].cmd IN
  /\ Command(j, "REDIR")
  /\ \/ job' = [job EXCEPT ![j].fds = Opened(Close(@, c.fd), OnFile), ![j].cmd = c.cmd]
     \/ ExitJob(j)

RunList(j) ==
  /\ Command(j, "LIST")
  /\ Fork1(j, [job[j] EXCEPT !.pc = "left", !.cmd = @.right], "run", job[j].cmd.left)

RunBack(j) ==
  /\ Command(j, "BACK")
  /\ Fork1(j, [job[j] EXCEPT !.pc = "exit"], "run", job[j].cmd.cmd)

\* pipe(p) and the first fork1(); p stays in the descriptors 3 and 4.
RunPipe(j) ==
  LET k   == Min({i \in Jobs : Holders(ReadEnd(i)) \cup Holders(WriteEnd(i)) = {}})
      fds == Opened(Opened(job[j].fds, ReadEnd(k)), WriteEnd(k)) IN
  /\ Command(j, "PIPE")
  /\ \/ Fork1(j, [job[j] EXCEPT !.pc = "right", !.fds = fds, !.cmd = @.right], "toPipe", job[j].cmd.left)
     \/ ExitJob(j)

\* The left side writes into the pipe, the right side reads from it.
OwnEnd(fds, f, p0, p1) == Close(Close(Opened(Close(fds, f), fds[IF f = 1 THEN p1 ELSE p0]), p0), p1)

Ends(j) == {f \in Fds : f > 2 /\ job[j].fds[f] # Closed}

TakeEnd(j) ==
  /\ job[j].pc \in {"toPipe", "fromPipe"}
  /\ job' = [job EXCEPT ![j].fds = OwnEnd(@, IF job[j].pc = "toPipe" THEN 1 ELSE 0, Min(Ends(j)), Max(Ends(j))),
                        ![j].pc = "run"]

ForkRight(j) ==
  /\ job[j].pc = "right"
  /\ Fork1(j, [job[j] EXCEPT !.pc = "close"], "fromPipe", job[j].cmd)

\* Mutant of CloseEnds: the shell keeps the write end.
CloseReadEnd(j) ==
  /\ job[j].pc = "close"
  /\ job' = [job EXCEPT ![j].fds = Close(@, Min(Ends(j))), ![j].pc = "bothWait"]

CloseEnds(j) ==
  /\ job[j].pc = "close"
  /\ job' = [job EXCEPT ![j].fds = [f \in Fds |-> IF f \in Ends(j) THEN Closed ELSE @[f]], ![j].pc = "bothWait"]

\* The calls of wait(): main()'s, that of LIST, and the two of PIPE.
AfterWait == [wait |-> "prompt", left |-> "run", bothWait |-> "lastWait", lastWait |-> "exit"]

Waits(j) == job[j].pc \in DOMAIN AfterWait /\ WaitJob(j, [job[j] EXCEPT !.pc = AfterWait[@]])

Leave(j) == job[j].pc = "exit" /\ ExitJob(j)

-----------------------------------------------------------------------------
\* Programs.  pipe.c: a reader sees the end when no write end is open, a writer
\* goes on when somebody reads or no read end is open.

InputEnds(j) == \A k \in Jobs : job[j].fds[0] = ReadEnd(k) => Holders(WriteEnd(k)) = {}

Reads(k) == \E c \in Jobs : job[c].pc = "program" /\ job[c].cmd.name = "cat" /\ job[c].fds[0] = ReadEnd(k)
OutputGoes(j) == \A k \in Jobs : job[j].fds[1] = WriteEnd(k) => Holders(ReadEnd(k)) = {} \/ Reads(k)

ProgramEnds(j) ==
  /\ job[j].pc = "program"
  /\ job[j].cmd.name = "cat" => InputEnds(j)
  /\ job[j].cmd.name = "fill" => OutputGoes(j)
  /\ ExitJob(j)

-----------------------------------------------------------------------------
JobStep(j) ==
  /\ UNCHANGED typed
  /\ \/ ParseCmd(j) \/ RunExec(j) \/ RunRedir(j) \/ RunList(j) \/ RunBack(j) \/ RunPipe(j)
     \/ TakeEnd(j) \/ ForkRight(j) \/ CloseEnds(j) \/ Waits(j) \/ Leave(j) \/ ProgramEnds(j)

ShellNext == Restart \/ (\E line \in Lines : TypeLine(line)) \/ \E j \in Jobs : JobStep(j)

ShellSpec == ShellInit /\ [][ShellNext]_shellVars
-----------------------------------------------------------------------------
\* Properties.

ShellTypeOK ==
  /\ \E s \in Sessions : IsPrefix(typed, s)
  /\ \A j \in Jobs :
       /\ job[j].parent \in 0..NJOBS
       /\ DOMAIN job[j].fds = Fds
       /\ job[j].pc \in {"none", "zombie", "prompt", "parse", "run", "program", "exit", "toPipe",
                         "fromPipe", "right", "close"} \cup DOMAIN AfterWait
===============================================================================
