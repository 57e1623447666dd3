------------------------------- MODULE Memory -------------------------------
(***************************************************************************)
(* Physical pages and address spaces: kalloc.c, vm.c, and the calls that   *)
(* change a process's memory (fork, exec, sbrk, exit and wait), in the     *)
(* kernels of labs 3 and 4.  They differ in where a stack is: in lab 4     *)
(* above the program, with a guard page below it; in lab 3 at the top of   *)
(* user space, growing downwards (module Stack).  Lab 4 has shared pages   *)
(* (module Shm), which is why the free list has to be told when a frame it *)
(* gets is still in use.                                                   *)
(*                                                                         *)
(* An address is a page number.  The frame of a page directory stands for  *)
(* its page tables too.  A call touches its own address space and the free *)
(* list, and is one step; that others take frames meanwhile shows as       *)
(* kalloc() failing whenever it likes.                                     *)
(***************************************************************************)
EXTENDS Integers, FiniteSets

CONSTANTS
  Process,
  TOP,           \* KERNBASE: the pages of user space are 0, ..., TOP - 1
  PROGRAM,       \* pages of a program that exec() loads
  MaxStack,      \* bound on stack_pages
  SHM,           \* entries of shm_table
  MaxRefs,       \* bound on refcnt
  Id,            \* names of shared pages that programs use
  None           \* address 0, an unmapped page, no panic

ASSUME MemoryAssumption ==
  /\ IsFiniteSet(Process) /\ Process # {} /\ None \notin Process
  /\ PROGRAM \in Nat \ {0} /\ TOP \in Nat /\ TOP > PROGRAM + 2
  /\ SHM \in Nat \ {0} /\ MaxRefs \in Nat /\ Id \subseteq Nat

Page == 0 .. TOP - 1
MaxSize == TOP + 1 \* bound: shm_open() takes a process one page past KERNBASE

(* kalloc() hands out frames in an order that nobody relies on.  Here each *)
(* use has frames to get it from: two for a page of a process (exec() has  *)
(* the old image and the new), the page TOP being its directory, three for *)
(* an entry of shm_table (two may be mapped after their entry is gone),    *)
(* and one to lose.                                                        *)
Home(p, v) == {p} \X {v} \X {1, 2}
ShmHome(s) == {None} \X {s} \X {1, 2, 3}
SpareFrame == <<None, 0, 1>>
Frame == (UNION {Home(p, v) : p \in Process, v \in 0 .. TOP})
           \cup (UNION {ShmHome(s) : s \in 1 .. SHM}) \cup {SpareFrame}

Address0 == <<None, 0, 0>> \* the mapping that V2P(0) makes; no frame
Space == [Page -> Frame \cup {Address0, None}]

(* What copyuvm() says where a page to copy has no page table, or is not   *)
(* mapped; which of the two it is, a page number does not tell.            *)
NotThere == {"copyuvm: pte should exist", "copyuvm: page not present"}

ASSUME NoneAssumption ==
  /\ None \notin Frame \cup {Address0} /\ None \notin 1 .. SHM
  /\ None \notin {"kfree", "remap", "clearpteu"} \cup NotThere

VARIABLES
  kernel,                  \* "lab3" or "lab4"
  free,                    \* kmem.freelist
  state, pgdir, pages, sz, \* per process: its page directory, what it maps, p->sz
  guard,                   \* per process: mapped pages without PTE_U
  stack_pages, my_sp,      \* lab 3, per process
  shm_pages,               \* lab 4: shm_table
  shared,                  \* history: frames in use that shm_open() handed out
  lost,                    \* history: frames that nothing refers to any more
  misfreed,                \* history: frames given to kfree() while in use
  misused,                 \* history: what programs did that shm.c does not handle
  panic                    \* the message of a panic, or None

spaceVars == <<state, pgdir, pages, sz, guard, stack_pages, my_sp>>
histories == <<shared, lost, misfreed, misused>>
vars == <<kernel, free, spaceVars, shm_pages, histories, panic>>

NoPages == [v \in Page |-> None]
Mapped(p) == {v \in Page : pages[p][v] # None}

-----------------------------------------------------------------------------
KallocFrom(frames, home) ==
  CHOOSE f \in frames \cap home : \A g \in frames \cap home : f[3] <= g[3]
NewPage(p, v) == KallocFrom(free, Home(p, v))
NewPages(p, W, frames) ==
  [v \in Page |-> IF v \in W THEN KallocFrom(frames, Home(p, v)) ELSE None]
NewSpace(p, W, frames) == {KallocFrom(frames, Home(p, v)) : v \in W \cup {TOP}}

(* References to frame f, but for those of process p to its pages W, which *)
(* deallocuvm() is about to free.                                          *)
MappedElsewhere(f, p, W) ==
  \E q \in Process : \E v \in Page : pages[q][v] = f /\ ~(q = p /\ v \in W)
InTable(f) == \E s \in DOMAIN shm_pages : shm_pages[s].frame = f
MappedTwice(f, p, W) == \E v, w \in W : v # w /\ pages[p][v] = f /\ pages[p][w] = f
StillUsed(f, p, W) ==
  MappedElsewhere(f, p, W) \/ MappedTwice(f, p, W) \/ InTable(f)

FramesOfUser(p, W) == {pages[p][v] : v \in W \ guard[p]} \cap Frame   \* mutant: PTE_U only
FramesOf(p, W) == {pages[p][v] : v \in W} \cap Frame

(* deallocuvm() of pages W of p, with the frames `more` that go as well;   *)
(* the call itself takes `taken`.  Where a page is mapped to address 0,    *)
(* kfree() panics.                                                         *)
Dealloc(p, W, more, taken) ==
  /\ free' = (free \cup FramesOf(p, W) \cup more) \ taken
  /\ misfreed' = {f \in FramesOf(p, W) : StillUsed(f, p, W)}
  /\ shared' = shared \ FramesOf(p, W)
  /\ panic' = IF \E v \in W : pages[p][v] = Address0 THEN "kfree" ELSE None
  /\ UNCHANGED <<lost, misused, kernel, shm_pages>>

-----------------------------------------------------------------------------
(* What exec() makes: the program, then the guard and the stack; in lab 3  *)
(* two pages at the top.                                                   *)
ImageSize == IF kernel = "lab4" THEN PROGRAM + 2 ELSE PROGRAM
Image == 0 .. ImageSize - 1 \cup IF kernel = "lab4" THEN {} ELSE {TOP - 2, TOP - 1}
ImageGuard == IF kernel = "lab4" THEN {PROGRAM} ELSE {}

Init ==
  /\ kernel \in {"lab3", "lab4"}
  /\ LET p == CHOOSE q \in Process : TRUE
         image == [v \in Image \cup {TOP} |-> <<p, v, 1>>] IN
       /\ state = [q \in Process |-> IF q = p THEN "live" ELSE "dead"]
       /\ pgdir = [q \in Process |-> IF q = p THEN image[TOP] ELSE None]
       /\ pages = [q \in Process |-> IF q # p THEN NoPages
            ELSE [v \in Page |-> IF v \in Image THEN image[v] ELSE None]]
       /\ free = Frame \ {image[v] : v \in DOMAIN image}
       /\ sz = [q \in Process |-> IF q = p THEN ImageSize ELSE 0]
       /\ guard = [q \in Process |-> IF q = p THEN ImageGuard ELSE {}]
       /\ stack_pages = [q \in Process |-> IF q = p THEN 1 ELSE 0]
       /\ my_sp = [q \in Process |-> IF q = p /\ kernel = "lab3" THEN TOP - 1 ELSE -1]
  /\ shm_pages = [s \in 1 .. SHM |-> [id |-> 0, frame |-> None, refcnt |-> 0]]
  /\ shared = {} /\ lost = {} /\ misfreed = {} /\ misused = {} /\ panic = None

(* The kernel is followed up to a panic, or to a frame freed while in use. *)
Sane == misfreed = {} /\ panic = None

(* A process does something only while its program and the first page of   *)
(* its stack are there.                                                    *)
StackTop == IF kernel = "lab4" THEN PROGRAM + 1 ELSE TOP - 1
Runs(p) == Sane /\ state[p] = "live" /\ {0, StackTop} \subseteq Mapped(p)

(* Nobody runs after a panic to see what the call had done so far, which   *)
(* is left out.                                                            *)
Panic(message) ==
  /\ panic' = message
  /\ UNCHANGED <<kernel, free, spaceVars, shm_pages, histories>>

-----------------------------------------------------------------------------
(* fork(): copyuvm()                                                       *)

StackPages(p) ==
  IF kernel = "lab4" THEN {} ELSE {v \in Page : v > TOP - 1 - stack_pages[p]}
ToCopyAndOne(p) == 0 .. sz[p] \cup StackPages(p)   \* mutant: i <= sz
ToCopy(p) == 0 .. sz[p] - 1 \cup StackPages(p)
AllThere(p) == ToCopy(p) \cap Page \subseteq Mapped(p)

(* The child has the kernel's pages, from KERNBASE on, before it gets the  *)
(* first copy; in lab 3 the stack is copied after the rest.                *)
CopiedOnce(p) == sz[p] <= TOP /\ 0 .. sz[p] - 1 \cap StackPages(p) = {}

(* In lab 3 copyuvm() ends with clearpteu() on its argument, the parent's. *)
ParentGuard(p) ==
  IF kernel = "lab4" THEN guard[p]
  ELSE guard[p] \cup ({TOP - 1 - stack_pages[p]} \cap Mapped(p))

WritableCopy(p) == {}                             \* mutant: flags are PTE_W | PTE_U
ChildGuard(p) == guard[p] \cap ToCopy(p)

Fork(p, c) ==
  /\ Runs(p) /\ state[c] = "dead"
  /\ AllThere(p) /\ CopiedOnce(p)
  /\ free' = free \ NewSpace(c, ToCopy(p), free)
  /\ pgdir' = [pgdir EXCEPT ![c] = NewPage(c, TOP)]
  /\ pages' = [pages EXCEPT ![c] = NewPages(c, ToCopy(p), free)]
  /\ guard' = [guard EXCEPT ![c] = ChildGuard(p), ![p] = ParentGuard(p)]
  /\ sz' = [sz EXCEPT ![c] = sz[p]]
  /\ stack_pages' = [stack_pages EXCEPT ![c] = stack_pages[p]]
  /\ state' = [state EXCEPT ![c] = "live"]
  /\ UNCHANGED <<kernel, my_sp, shm_pages, histories, panic>>

(* clearpteu() finds nothing below a stack that ends where its page table  *)
(* does.                                                                   *)
ForkPanics(p) ==
  /\ Runs(p) /\ (\E c \in Process : state[c] = "dead")
  /\ \/ ~AllThere(p) /\ \E message \in NotThere : Panic(message)
     \/ AllThere(p) /\ ~CopiedOnce(p) /\ Panic("remap")
     \/ /\ kernel = "lab3" /\ AllThere(p) /\ CopiedOnce(p)
        /\ TOP - 1 - stack_pages[p] \notin Mapped(p) /\ Panic("clearpteu")

(* mappages() finds no page for a page table: copyuvm() gives back all it  *)
(* has got but the frame in its hand.                                      *)
ForkFails(p) ==
  /\ Runs(p) /\ (\E c \in Process : state[c] = "dead") /\ SpareFrame \in free
  /\ free' = free \ {SpareFrame} /\ lost' = lost \cup {SpareFrame}
  /\ UNCHANGED <<kernel, spaceVars, shm_pages, shared, misfreed, misused, panic>>

-----------------------------------------------------------------------------
(* exec().  It gets the frames of the new image before it frees those of   *)
(* the old one, which here give the new ones their names: so that a        *)
(* process does not differ by how many programs it has run.                *)

Freed(p) == FramesOf(p, Mapped(p)) \cup {pgdir[p]}

Exec(p) ==
  /\ Runs(p)
  /\ Dealloc(p, Mapped(p), {pgdir[p]}, NewSpace(p, Image, free \cup Freed(p)))
  /\ pgdir' = [pgdir EXCEPT ![p] = KallocFrom(free \cup Freed(p), Home(p, TOP))]
  /\ pages' = [pages EXCEPT ![p] = NewPages(p, Image, free \cup Freed(p))]
  /\ guard' = [guard EXCEPT ![p] = ImageGuard]
  /\ sz' = [sz EXCEPT ![p] = ImageSize]
  /\ stack_pages' = [stack_pages EXCEPT ![p] = 1]
  /\ my_sp' = [my_sp EXCEPT ![p] = IF kernel = "lab3" THEN TOP - 1 ELSE @]
  /\ UNCHANGED state

(* In lab 3 an exec() whose arguments do not fit fails after it has set    *)
(* stack_pages.                                                            *)
ExecFailsLate(p) ==
  /\ kernel = "lab3" /\ Runs(p)
  /\ stack_pages' = [stack_pages EXCEPT ![p] = 1]
  /\ UNCHANGED <<kernel, free, state, pgdir, pages, sz, guard, my_sp, shm_pages,
                 histories, panic>>

-----------------------------------------------------------------------------
(* sbrk(): growproc().  To grow by several pages is to grow by one several *)
(* times, unless memory runs out: then none of them is left.               *)

Grow(p) ==
  /\ Runs(p) /\ sz[p] + 1 < TOP /\ pages[p][sz[p]] = None
  /\ free' = free \ {NewPage(p, sz[p])}
  /\ pages' = [pages EXCEPT ![p][sz[p]] = NewPage(p, sz[p])]
  /\ sz' = [sz EXCEPT ![p] = @ + 1]
  /\ UNCHANGED <<kernel, state, pgdir, guard, stack_pages, my_sp, shm_pages, histories, panic>>

GrowPanics(p) ==
  Runs(p) /\ sz[p] + 1 < TOP /\ pages[p][sz[p]] # None /\ Panic("remap")

(* Out of memory on the way to size n, allocuvm() deallocates all pages it *)
(* was asked for, whoever had mapped them.                                 *)
Asked(p, n) == sz[p] .. n - 1

GrowFails(p, n) ==
  /\ Runs(p) /\ n < TOP /\ Asked(p, n) \cap Mapped(p) # {}
  /\ Dealloc(p, Asked(p, n), {}, {})
  /\ pages' = [pages EXCEPT ![p] = [v \in Page |-> IF v \in Asked(p, n) THEN None ELSE @[v]]]
  /\ guard' = [guard EXCEPT ![p] = @ \ Asked(p, n)]
  /\ UNCHANGED <<state, pgdir, sz, stack_pages, my_sp>>

Removed(p, n) == n .. sz[p] - 1

(* Down to nothing, growproc() fails but the pages are gone.               *)
Shrink(p, n) ==
  /\ Runs(p) /\ n < sz[p] /\ sz[p] <= TOP
  /\ Dealloc(p, Removed(p, n), {}, {})
  /\ pages' = [pages EXCEPT ![p] = [v \in Page |-> IF v \in Removed(p, n) THEN None ELSE @[v]]]
  /\ guard' = [guard EXCEPT ![p] = @ \ Removed(p, n)]
  /\ sz' = [sz EXCEPT ![p] = IF n = 0 THEN @ ELSE n]
  /\ UNCHANGED <<state, pgdir, stack_pages, my_sp>>

(* Past KERNBASE deallocuvm() comes to a page of the kernel, at address 0. *)
ShrinkPanics(p) == Runs(p) /\ sz[p] > TOP /\ Panic("kfree")

-----------------------------------------------------------------------------
(* exit(), also of a process that is killed or faults, and wait().  The    *)
(* slot of a process that is gone keeps its sz and stack_pages until       *)
(* fork() sets them, and nobody reads them: they are 0 here.  my_sp stays. *)

Exit(p) ==
  /\ Sane /\ state[p] = "live"
  /\ state' = [state EXCEPT ![p] = "zombie"]
  /\ UNCHANGED <<kernel, free, pgdir, pages, sz, guard, stack_pages, my_sp, shm_pages,
                 histories, panic>>

Wait(p) ==
  /\ Sane /\ state[p] = "zombie"
  /\ Dealloc(p, Mapped(p), {pgdir[p]}, {})
  /\ state' = [state EXCEPT ![p] = "dead"]
  /\ pgdir' = [pgdir EXCEPT ![p] = None]
  /\ pages' = [pages EXCEPT ![p] = NoPages]
  /\ guard' = [guard EXCEPT ![p] = {}]
  /\ sz' = [sz EXCEPT ![p] = 0]
  /\ stack_pages' = [stack_pages EXCEPT ![p] = 0]
  /\ UNCHANGED my_sp

MemoryCall(p) ==
  \/ \E c \in Process : Fork(p, c)
  \/ ForkPanics(p) \/ ForkFails(p)
  \/ Exec(p) \/ ExecFailsLate(p)
  \/ Grow(p) \/ GrowPanics(p)
  \/ \E n \in Page : GrowFails(p, n)
  \/ \E n \in 0 .. sz[p] - 1 : Shrink(p, n)
  \/ ShrinkPanics(p)
  \/ Exit(p) \/ Wait(p)
=============================================================================
