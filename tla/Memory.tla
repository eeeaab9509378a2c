-------------------------------- MODULE Memory --------------------------------
(***************************************************************************)
(* Physical pages and address spaces: kalloc.c, vm.c, and what fork, exec, *)
(* wait and growproc of proc.c and exec.c do with them, in                 *)
(* assignment03/project03/xv6-public.                                      *)
(*                                                                         *)
(* kalloc() may return any free page, so pages are counted and not named:  *)
(* a page that is lost, or freed twice, shows in the sum.  A page of       *)
(* memory is PGSIZE units of size, a page table has PTES entries, and the  *)
(* kernel's half of an address space takes KTABLES page tables.  One       *)
(* action is one call: kmem.lock makes each kalloc() and kfree() a step of *)
(* its own, and no other state is shared.                                  *)
(***************************************************************************)
EXTENDS Integers, Sequences, SequencesExt, FiniteSets, FiniteSetsExt

CONSTANTS
  NSPACES,     \* processes at a time
  NPAGES,      \* pages kinit1() and kinit2() free
  PGSIZE,
  PTES,        \* NPTENTRIES
  KTABLES,     \* page tables that setupkvm() fills
  USERTOP,     \* KERNBASE, in pages
  Programs,    \* what exec() loads: the end of each segment, in units
  SbrkArgs     \* what sbrk() is called with

ASSUME MemoryAssumption ==
  /\ NSPACES \in Nat \ {0} /\ NPAGES \in Nat /\ PGSIZE \in Nat \ {0}
  /\ PTES \in Nat \ {0} /\ KTABLES \in Nat /\ USERTOP \in Nat
  /\ NPAGES > KTABLES + 4 /\ USERTOP > 1
  /\ Programs \subseteq Seq(Nat) /\ SbrkArgs \subseteq Int

Ids  == 1..NSPACES
Vpns == 0..(USERTOP - 1)
Pdx(vpn) == vpn \div PTES

VARIABLES
  freePages,   \* pages on kmem.freelist
  space        \* of each process: life, size, kernel stack and page directory

memoryVars == <<freePages, space>>

\* A page directory: itself, the kernel's page tables, the user's, the pages.
NoDir == [dir |-> 0, ktabs |-> 0, tabs |-> {}, pte |-> {}]

\* A computation over the free list and one directory; ok is whether it returned
\* an address, held the pages it took and has not mapped yet.
Begin(free, d) == [free |-> free, d |-> d, ok |-> TRUE, held |-> 0]

PageRoundUp(n) == (n + PGSIZE - 1) \div PGSIZE

-----------------------------------------------------------------------------
\* kalloc.c

Kalloc(m) == IF m.free = 0 THEN [m EXCEPT !.ok = FALSE] ELSE [m EXCEPT !.free = @ - 1, !.held = @ + 1]

Kfree(m, n) == [m EXCEPT !.free = @ + n]

-----------------------------------------------------------------------------
\* vm.c

\* mappages() of a page that was just allocated: walkpgdir() may need a table.
Mappages(m, vpn) ==
  LET t == IF Pdx(vpn) \in m.d.tabs THEN m ELSE Kalloc(m) IN
  IF ~t.ok THEN t ELSE [t EXCEPT !.held = 0, !.d.tabs = @ \cup {Pdx(vpn)}, !.d.pte = @ \cup {vpn}]

\* deallocuvm(pgdir, old, new) keeps the page tables.
Deallocuvm(m, old, new) ==
  LET range == {v \in m.d.pte : PageRoundUp(new) <= v /\ v * PGSIZE < old} IN
  IF new >= old THEN m ELSE [Kfree(m, Cardinality(range)) EXCEPT !.d.pte = @ \ range]

\* The page that could not be mapped is freed after the others; a mutant loses it.
LoseHeld(m) == [m EXCEPT !.held = 0]
GiveUp(m) == [Kfree(m, m.held) EXCEPT !.held = 0]

\* One page after the other, until one fails.
AllocFrom(m, first, last) ==
  LET Page(n, v) == LET k == IF n.ok THEN Kalloc(n) ELSE n IN IF k.ok THEN Mappages(k, v) ELSE k IN
  FoldLeft(Page, m, [i \in 1..(last - first + 1) |-> first + i - 1])

\* allocuvm(pgdir, old, new): every page or none.
Allocuvm(m, old, new) ==
  LET n == AllocFrom(m, PageRoundUp(old), PageRoundUp(new) - 1) IN
  IF new >= USERTOP * PGSIZE THEN [m EXCEPT !.ok = FALSE]
  ELSE IF n.ok THEN n ELSE GiveUp(Deallocuvm(n, new, old))

\* freevm(): the pages, the page tables, the directory.
Freevm(m) ==
  LET n == Deallocuvm(m, USERTOP * PGSIZE, 0) IN
  [Kfree(n, Cardinality(n.d.tabs) + n.d.ktabs + n.d.dir) EXCEPT !.d = NoDir]

\* setupkvm()
Setupkvm(m) ==
  LET dir == Kalloc(m)
      Table(n, i) == LET k == IF n.ok THEN Kalloc(n) ELSE n IN
                     IF k.ok THEN [k EXCEPT !.d.ktabs = @ + 1, !.held = 0] ELSE k
      all == FoldLeft(Table, [dir EXCEPT !.d.dir = 1, !.held = 0], [i \in 1..KTABLES |-> i]) IN
  IF ~dir.ok THEN dir ELSE IF all.ok THEN all ELSE Freevm(all)

\* copyuvm(pgdir, sz); the source has every page below sz (PagesConserved).
Copyuvm(m, sz) ==
  LET d == Setupkvm(m)
      n == AllocFrom(d, 0, PageRoundUp(sz) - 1) IN
  IF ~d.ok THEN d ELSE IF n.ok THEN n ELSE Freevm(GiveUp(n))

-----------------------------------------------------------------------------
\* Processes

NoSpace == [life |-> "unused", sz |-> 0, kstack |-> 0, d |-> NoDir]

\* userinit(): a kernel stack, setupkvm() and one page.
MemoryInit ==
  LET m == AllocFrom(Setupkvm(Begin(NPAGES - 1, NoDir)), 0, 0) IN
  /\ freePages = m.free
  /\ space = [p \in Ids |-> IF p = 1 THEN [life |-> "used", sz |-> PGSIZE, kstack |-> 1, d |-> m.d] ELSE NoSpace]

\* fork(): the kernel stack goes back when the copy fails.
ForkSpace(p, q) ==
  LET copy == Copyuvm(Begin(freePages - 1, NoDir), space[p].sz) IN
  /\ space[p].life = "used" /\ space[q].life = "unused"
  /\ freePages > 0
  /\ IF copy.ok THEN /\ freePages' = copy.free
                     /\ space' = [space EXCEPT ![q] = [space[p] EXCEPT !.d = copy.d]]
     ELSE freePages' = Kfree(copy, 1).free /\ UNCHANGED space

\* exec(): a new directory, a segment after the other, two pages of stack; then
\* the old one is freed.  At `bad` the new one is.
ExecSpace(p, program) ==
  LET new == Setupkvm(Begin(freePages, NoDir))
      Segment(a, end) == IF a.m.ok THEN [m |-> Allocuvm(a.m, a.sz, end), sz |-> Max({a.sz, end})] ELSE a
      load == FoldLeft(Segment, [m |-> new, sz |-> 0], program)
      base == PageRoundUp(load.sz) * PGSIZE
      sz == base + 2 * PGSIZE
      image == IF load.m.ok THEN Allocuvm(load.m, base, sz) ELSE load.m IN
  /\ space[p].life = "used"
  /\ IF image.ok THEN /\ freePages' = Freevm(Begin(image.free, space[p].d)).free
                      /\ space' = [space EXCEPT ![p].d = image.d, ![p].sz = sz]
     ELSE freePages' = Freevm(image).free /\ UNCHANGED space

\* growproc(n).  A process that gives back everything loses the code it runs, and
\* trap() makes it exit: growproc() leaves sz as it was.
SbrkSpace(p, n) ==
  LET sz == space[p].sz
      m == Begin(freePages, space[p].d)
      grown == Allocuvm(m, sz, sz + n)
      shrunk == Deallocuvm(m, sz, sz + n) IN
  /\ space[p].life = "used"
  /\ \/ /\ n > 0
        /\ freePages' = grown.free
        /\ space' = [space EXCEPT ![p].d = grown.d, ![p].sz = IF grown.ok THEN sz + n ELSE @]
     \/ /\ n < 0 /\ sz + n >= 0
        /\ freePages' = shrunk.free
        /\ space' = [space EXCEPT ![p].d = shrunk.d, ![p].sz = IF sz + n > 0 THEN sz + n ELSE @,
                                  ![p].life = IF sz + n = 0 THEN "doomed" ELSE @]

\* exit() keeps everything; wait() of the parent frees the stack and the directory.
WaitSpace(p) ==
  /\ space[p].life # "unused" /\ p # 1
  /\ freePages' = Freevm(Kfree(Begin(freePages, space[p].d), space[p].kstack)).free
  /\ space' = [space EXCEPT ![p] = NoSpace]

MemoryNext ==
  \E p \in Ids :
    \/ \E q \in Ids : ForkSpace(p, q)
    \/ \E program \in Programs : ExecSpace(p, program)
    \/ \E n \in SbrkArgs : SbrkSpace(p, n)
    \/ WaitSpace(p)

MemorySpec == MemoryInit /\ [][MemoryNext]_memoryVars

-----------------------------------------------------------------------------
\* Types: the free list and the address spaces.
MemoryTypeOK ==
  /\ freePages \in 0..NPAGES
  /\ \A p \in Ids :
       /\ space[p].life \in {"unused", "used", "doomed"}
       /\ space[p].sz \in 0..(USERTOP * PGSIZE)
       /\ space[p].kstack \in 0..1
       /\ space[p].d.dir \in 0..1 /\ space[p].d.ktabs \in 0..KTABLES
       /\ space[p].d.tabs \subseteq {Pdx(v) : v \in Vpns} /\ space[p].d.pte \subseteq Vpns

PagesOf(s) == s.kstack + s.d.dir + s.d.ktabs + Cardinality(s.d.tabs) + Cardinality(s.d.pte)
PagesHeld(spaces) == FoldSet(LAMBDA p, n : n + PagesOf(spaces[p]), 0, Ids)

\* No page is lost or freed twice, whichever allocation of a fork, an exec or an
\* sbrk fails, and a process has exactly the pages below its size, each with its
\* page table (copyuvm() panics on a hole).
PagesConserved ==
  /\ freePages + PagesHeld(space) = NPAGES
  /\ \A p \in Ids : space[p].life = "used" =>
       /\ space[p].d.pte = {v \in Vpns : v * PGSIZE < space[p].sz}
       /\ \A v \in space[p].d.pte : Pdx(v) \in space[p].d.tabs
===============================================================================
