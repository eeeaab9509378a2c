------------------------------ MODULE MCUserCalls -----------------------------
(***************************************************************************)
(* Model values for Files, Threads, Console and SpinLocks.  They share no  *)
(* variable: a behaviour is one of `part`, and the others stay in their    *)
(* initial state.                                                          *)
(***************************************************************************)
EXTENDS Files, Threads, Console, SpinLocks

VARIABLE part

Only(s) == part = s /\ UNCHANGED part

\* One message fills the pipe and more.
LongMessage == {<<0, 1, 0>>}

\* What sbrk() is called with, in pages.
GiveOneTakeTwo == {-1, 2}

-----------------------------------------------------------------------------
UserCallsInit ==
  /\ part \in {"files", "threads", "console", "spin"}
  /\ FilesInit /\ ThreadsInit /\ ConsoleInit /\ SpinInit

UserCallsNext ==
  \/ Only("files") /\ FilesNext /\ UNCHANGED <<threadsVars, consoleVars, spinVars>>
  \/ Only("threads") /\ ThreadsNext /\ UNCHANGED <<filesVars, consoleVars, spinVars>>
  \/ Only("console") /\ ConsoleNext /\ UNCHANGED <<filesVars, threadsVars, spinVars>>
  \/ Only("spin") /\ SpinNext /\ UNCHANGED <<filesVars, threadsVars, consoleVars>>

UserCallsSpec ==
  UserCallsInit /\ [][UserCallsNext]_<<part, filesVars, threadsVars, consoleVars, spinVars>>

-----------------------------------------------------------------------------
\* The types of the four components.
UserCallsTypeOK == FilesTypeOK /\ ThreadsTypeOK /\ ConsoleTypeOK /\ SpinTypeOK
===============================================================================
