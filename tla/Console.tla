------------------------------- MODULE Console --------------------------------
(***************************************************************************)
(* Input of the console: consoleintr() and consoleread() of                *)
(* assignment03/project03/xv6-public/console.c.                            *)
(*                                                                         *)
(* input.buf is a ring between three counters: what lies between r and w   *)
(* can be read, what lies between w and e is the line being edited.  The   *)
(* counters are uint and wrap at COUNT, a power of two.  One action is one *)
(* character of an interrupt, or one section of a reader under cons.lock,  *)
(* up to its sleep() or its return.                                        *)
(***************************************************************************)
EXTENDS Integers, Sequences, FiniteSets, FiniteSetsExt

CONSTANTS
  Readers,
  INPUTBUF,    \* console.c
  COUNT,       \* values of a uint
  Letters,     \* ordinary characters
  Sizes        \* what read() asks for

ASSUME ConsoleAssumption ==
  /\ INPUTBUF \in Nat \ {0} /\ COUNT \in Nat /\ COUNT % INPUTBUF = 0 /\ COUNT > INPUTBUF
  /\ Sizes \subseteq Nat \ {0} /\ Letters \cap {"nl", "^D", "^U", "^H"} = {}

Kept == Letters \cup {"nl", "^D"}     \* what gets into the buffer
Keys == Kept \cup {"^U", "^H"}

VARIABLES
  input,       \* input: buf, r, w, e
  rpc,         \* each reader: in user code, runnable in consoleread(), asleep
  todo,        \* n and target of each reader
  signalled,   \* readers with p->killed
  given        \* what the last step copied to a reader

consoleVars == <<input, rpc, todo, signalled, given>>

Returned == [n |-> 0, target |-> 0]

ConsoleInit ==
  /\ input = [buf |-> [i \in 0..(INPUTBUF - 1) |-> "nl"], r |-> 0, w |-> 0, e |-> 0]
  /\ rpc = [p \in Readers |-> "user"]
  /\ todo = [p \in Readers |-> Returned]
  /\ signalled = {}
  /\ given = <<>>

Diff(i, j) == (i - j) % COUNT
Plus(i, n) == (i + n) % COUNT
Span(from, to) == [i \in 1..Diff(to, from) |-> input.buf[Plus(from, i - 1) % INPUTBUF]]

Committed == Span(input.r, input.w)   \* what consoleread() may take
Editing   == Span(input.w, input.e)   \* the line that can still be edited

WakeReaders == rpc' = [p \in Readers |-> IF rpc[p] = "asleep" THEN "reading" ELSE rpc[p]]

-----------------------------------------------------------------------------
\* consoleintr()

\* Control-U: back to the last newline of the line, or to its start.
KillLine ==
  LET line == Editing
      keep == Max({0} \cup {i \in DOMAIN line : line[i] = "nl"}) IN
  /\ input' = [input EXCEPT !.e = Plus(@, keep - Len(line))]
  /\ given' = <<>>
  /\ UNCHANGED <<rpc, todo, signalled>>

\* A mutant of the next operator that may erase what a reader was promised.
BackspaceAnything ==
  /\ input' = [input EXCEPT !.e = Plus(@, -1), !.w = IF @ = input.e THEN Plus(@, -1) ELSE @]
  /\ input.e # input.r /\ given' = <<>>
  /\ UNCHANGED <<rpc, todo, signalled>>

Backspace ==
  /\ input.e # input.w
  /\ input' = [input EXCEPT !.e = Plus(@, -1)]
  /\ given' = <<>>
  /\ UNCHANGED <<rpc, todo, signalled>>

\* The end of a line, or of the buffer, gives everything typed to the readers.
Type(c) ==
  LET e == Plus(input.e, 1)
      commit == c \in {"nl", "^D"} \/ e = Plus(input.r, INPUTBUF) IN
  /\ Diff(input.e, input.r) < INPUTBUF
  /\ input' = [input EXCEPT !.buf[input.e % INPUTBUF] = c, !.e = e, !.w = IF commit THEN e ELSE @]
  /\ given' = <<>>
  /\ IF commit THEN WakeReaders ELSE UNCHANGED rpc
  /\ UNCHANGED <<todo, signalled>>

-----------------------------------------------------------------------------
\* consoleread()

Read(p, n) ==
  /\ rpc[p] = "user" /\ p \notin signalled
  /\ rpc' = [rpc EXCEPT ![p] = "reading"]
  /\ todo' = [todo EXCEPT ![p] = [n |-> n, target |-> n]]
  /\ given' = <<>>
  /\ UNCHANGED <<input, signalled>>

\* How many characters the section takes: up to n, a newline or a control-D.
Taken(p) ==
  LET stops == {i \in DOMAIN Committed : Committed[i] \in {"nl", "^D"}} IN
  Min(stops \cup {Len(Committed), todo[p].n})

\* A control-D ends the read; after other characters it stays for the next one.
Consume(p) ==
  LET k == Taken(p)
      eof == Committed[k] = "^D"
      n == todo[p].n - (IF eof THEN k - 1 ELSE k)
      stays == eof /\ n < todo[p].target
      goes == eof \/ Committed[k] = "nl" \/ n = 0 IN
  /\ rpc[p] = "reading" /\ Committed # <<>>
  /\ input' = [input EXCEPT !.r = Plus(@, IF stays THEN k - 1 ELSE k)]
  /\ given' = SubSeq(Committed, 1, IF eof THEN k - 1 ELSE k)
  /\ todo' = [todo EXCEPT ![p] = IF goes \/ p \in signalled THEN Returned ELSE [@ EXCEPT !.n = n]]
  /\ rpc' = [rpc EXCEPT ![p] = IF goes \/ p \in signalled THEN "user" ELSE "asleep"]
  /\ UNCHANGED signalled

\* Nothing to read: the reader sleeps, or leaves because it was killed.
NothingToRead(p) ==
  /\ rpc[p] = "reading" /\ Committed = <<>>
  /\ rpc' = [rpc EXCEPT ![p] = IF p \in signalled THEN "user" ELSE "asleep"]
  /\ todo' = [todo EXCEPT ![p] = IF p \in signalled THEN Returned ELSE @]
  /\ given' = <<>>
  /\ UNCHANGED <<input, signalled>>

KillReader(p) ==
  /\ p \notin signalled
  /\ signalled' = signalled \cup {p}
  /\ rpc' = [rpc EXCEPT ![p] = IF @ = "asleep" THEN "reading" ELSE @]
  /\ given' = <<>>
  /\ UNCHANGED <<input, todo>>

ConsoleNext ==
  \/ KillLine
  \/ Backspace
  \/ \E c \in Kept : Type(c)
  \/ \E p \in Readers :
       \/ \E n \in Sizes : Read(p, n)
       \/ Consume(p) \/ NothingToRead(p) \/ KillReader(p)

ConsoleSpec == ConsoleInit /\ [][ConsoleNext]_consoleVars

-----------------------------------------------------------------------------
\* Types, and the order r <= w <= e <= r + INPUTBUF of the counters.
ConsoleTypeOK ==
  /\ input.buf \in [0..(INPUTBUF - 1) -> Kept]
  /\ {input.r, input.w, input.e} \subseteq 0..(COUNT - 1)
  /\ Diff(input.w, input.r) + Diff(input.e, input.w) <= INPUTBUF
  /\ rpc \in [Readers -> {"user", "reading", "asleep"}]
  /\ \A p \in Readers : todo[p].n \in 0..todo[p].target
  /\ signalled \subseteq Readers
  /\ given \in Seq(Kept)

\* A step takes the front of what can be read, or adds the edited line behind it
\* with the character that ended it.  Who finds something to read does not sleep.
LineInOrder ==
  LET old == Committed
      new == Committed'
      taken == Len(old) - Len(new) IN
  /\ \/ /\ new = old /\ given' = <<>>
     \/ /\ taken > 0 /\ new = SubSeq(old, taken + 1, Len(old))
        /\ given' = SubSeq(old, 1, taken) \/ Append(given', "^D") = SubSeq(old, 1, taken)
     \/ /\ given' = <<>> /\ \E c \in Kept : new = old \o Append(Editing, c)
  /\ new # <<>> => \A p \in Readers : rpc'[p] # "asleep"

\* The readers get what was typed, in order and once; no editing, however the
\* counters wrap, touches what can be read.
LinesKept == [][LineInOrder]_consoleVars
===============================================================================
