------------------------------ MODULE MCProcesses -----------------------------
(***************************************************************************)
(* Model values and fairness for Procs, Memory and Shell.  They share no   *)
(* variable: a behaviour is one of `part`, and the others stay in their    *)
(* initial state.                                                          *)
(***************************************************************************)
EXTENDS Procs, Memory, Shell

VARIABLE part

Only(s) == part = s /\ UNCHANGED part

\* The end of each segment of a program, and what sbrk() is called with.
TwoPrograms == {<<1, 3>>, <<2>>}
FourAmounts == {-3, -2, 1, 3}

\* Lines with each construct of the shell, and four that do not parse.  The first
\* session leaves five processes behind, so that the shell may find no slot.
TypedSessions ==
  {<<<<"fill", "|", "cat", "|", "ls", "&">>, <<"ls">>>>}
  \cup {<<line>> : line \in
          {<<"(", "ls", ";", "cat", ")", "|", "cat">>, <<"cat", "<", "f", ";", "ls", ">>", "f">>,
           <<"fill", "|", "ls">>, <<"fill", "&", ";", "ls">>, <<"ls", "|", "cat">>,
           <<"ls", "|">>, <<"(", "ls">>, <<"ls", ">">>, <<"ls", ")">>}}

ProcessesInit == part \in {"procs", "memory", "shell"} /\ ProcsInit /\ MemoryInit /\ ShellInit

ProcessesNext ==
  \/ Only("procs") /\ ProcsNext /\ UNCHANGED <<memoryVars, shellVars>>
  \/ Only("memory") /\ MemoryNext /\ UNCHANGED <<procsVars, shellVars>>
  \/ Only("shell") /\ ShellNext /\ UNCHANGED <<procsVars, memoryVars>>

\* scheduler() goes through ptable again and again, so that a process that is
\* runnable again and again is run again and again (strong fairness); a process
\* that runs and has no choice of its own goes on, or the timer takes its CPU;
\* init's program (init.c:32) waits in a loop.
ProcsFairness ==
  /\ SF_procsVars(part = "procs" /\ InitWaits)
  /\ \A p \in ProcSlots :
       /\ SF_procsVars(part = "procs" /\ Proceeds(p))
       /\ SF_procsVars(part = "procs" /\ \E c \in CPUs : Run(c, p))
       /\ WF_procsVars(part = "procs" /\ Yield(p))

\* Every process is scheduled, a program that does not wait for a pipe ends, and
\* init starts the next shell (init.c:24-33).
ShellFairness ==
  /\ WF_shellVars(part = "shell" /\ Restart)
  /\ \A j \in Jobs : WF_shellVars(part = "shell" /\ JobStep(j))

ProcessesSpec ==
  /\ ProcessesInit /\ [][ProcessesNext]_<<part, procsVars, memoryVars, shellVars>>
  /\ ProcsFairness /\ ShellFairness

-----------------------------------------------------------------------------
\* The types of the three components.
ProcessesTypeOK == ProcsTypeOK /\ MemoryTypeOK /\ ShellTypeOK

\* exit() gives the children of a process to init and wakes it for the zombies
\* among them (proc.c:258-263), so that init reaps them, once processes stop
\* being made: wait() looks from the first slot on, and new zombies in low slots
\* could keep it from an old one.
OrphansReaped ==
  <>[](\A p \in ProcSlots : np[p] = NoOne) =>
    \A p \in ProcSlots \ {initproc} :
      (proc[p].state = "ZOMBIE" /\ proc[p].parent = initproc) ~> (proc[p].state # "ZOMBIE")

\* The shell comes back to its prompt whatever line it runs, and when forks fail:
\* both sides of each pipe see its end, because every process that has an end of
\* it closes it, the shell between them included (sh.c:100-123).
PromptReturns == job[Main].pc = "wait" ~> job[Main].pc = "prompt"
===============================================================================
