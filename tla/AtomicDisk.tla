------------------------------ MODULE AtomicDisk ------------------------------
(***************************************************************************)
(* What the log promises to the rest of the xv6 file system: a disk whose  *)
(* durable image only ever changes by taking over, in one step, everything *)
(* that has been written so far, and only at a moment when no file system  *)
(* operation is half done.  A crash throws away whatever is not durable.   *)
(* The module has no counterpart in the code; Log.tla, which has, is shown *)
(* to implement it.                                                        *)
(***************************************************************************)

CONSTANTS
  Procs,      \* processes that issue file system operations
  Blocks,     \* home blocks of the file system
  Data        \* contents of a block

VARIABLES
  stable,     \* the image a reboot would find
  working,    \* the image the running kernel shows
  active      \* processes inside a file system operation

diskVars == <<stable, working, active>>

Init ==
  /\ stable \in [Blocks -> Data]
  /\ working = stable
  /\ active = {}

Begin(p) ==
  /\ active' = active \cup {p}
  /\ UNCHANGED <<stable, working>>

Write(p, b, v) ==
  /\ p \in active
  /\ working' = [working EXCEPT ![b] = v]
  /\ UNCHANGED <<stable, active>>

End(p) ==
  /\ p \in active
  /\ active' = active \ {p}
  /\ UNCHANGED <<stable, working>>

\* The only step that makes anything durable.
Commit ==
  /\ active = {}
  /\ stable' = working
  /\ UNCHANGED <<working, active>>

Crash ==
  /\ working' = stable
  /\ active' = {}
  /\ UNCHANGED stable

Next ==
  \/ \E p \in Procs : Begin(p) \/ End(p)
  \/ \E p \in Procs, b \in Blocks, v \in Data : Write(p, b, v)
  \/ Commit
  \/ Crash

Spec == Init /\ [][Next]_diskVars
===============================================================================
