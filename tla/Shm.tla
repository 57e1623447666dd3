--------------------------------- MODULE Shm ---------------------------------
(***************************************************************************)
(* Lab 4: shared pages (shm.c).  An entry whose id is 0 is free; nothing   *)
(* keeps a program from asking for id 0.  A page is mapped where the       *)
(* process ends, and belongs to the process like any other from then on.   *)
(***************************************************************************)
EXTENDS Memory

Shares(p) == kernel = "lab4" /\ Runs(p)

First(S) == CHOOSE s \in S : \A t \in S : s <= t
EntriesOf(id) == {s \in DOMAIN shm_pages : shm_pages[s].id = id}

(* mappages() finds a page there: of the process, or past KERNBASE of the  *)
(* kernel.                                                                 *)
Present(p, v) == v \in Page => pages[p][v] # None

(* The page at the end of p is mapped to f (or stays unmapped, if          *)
(* mappages() finds no memory for a page table), and p is a page longer.   *)
MapAtEnd(p, f) ==
  /\ ~Present(p, sz[p])
  /\ \/ pages' = [pages EXCEPT ![p][sz[p]] = f]
     \/ UNCHANGED pages
  /\ sz' = [sz EXCEPT ![p] = @ + 1]

(* What goes wrong in this call is noted.                                  *)
Blame(p, f) ==
  misused' = misused
    \cup (IF f = Address0 THEN {"no frame"} ELSE {})
    \cup (IF pages'[p][sz[p]] = None THEN {"not mapped"} ELSE {})

MappingOf(s) == IF shm_pages[s].frame = None THEN Address0 ELSE shm_pages[s].frame

OpenExisting(p, id) ==
  /\ Shares(p) /\ EntriesOf(id) # {}
  /\ LET s == First(EntriesOf(id)) IN
       /\ shm_pages[s].refcnt < MaxRefs
       /\ MapAtEnd(p, MappingOf(s)) /\ Blame(p, MappingOf(s))
       /\ shm_pages' = [shm_pages EXCEPT ![s].refcnt = @ + 1]
  /\ UNCHANGED <<kernel, free, state, pgdir, guard, stack_pages, my_sp, shared, lost,
                 misfreed, panic>>

(* The entry's count goes up by one, it is not set.                        *)
OpenNew(p, id) ==
  /\ Shares(p) /\ EntriesOf(id) = {} /\ EntriesOf(0) # {}
  /\ LET s == First(EntriesOf(0)) IN
     /\ shm_pages[s].refcnt < MaxRefs
     /\ \/ LET f == KallocFrom(free, ShmHome(s)) IN
          /\ free \cap ShmHome(s) # {}
          /\ free' = free \ {f} /\ shared' = shared \cup {f}
          /\ MapAtEnd(p, f) /\ Blame(p, f)
          /\ shm_pages' = [shm_pages EXCEPT
               ![s] = [id |-> id, frame |-> f, refcnt |-> @.refcnt + 1]]
       \/ /\ MapAtEnd(p, Address0) /\ Blame(p, Address0)
          /\ shm_pages' = [shm_pages EXCEPT
               ![s] = [id |-> id, frame |-> None, refcnt |-> @.refcnt + 1]]
          /\ UNCHANGED <<free, shared>>
  /\ UNCHANGED <<kernel, state, pgdir, guard, stack_pages, my_sp, lost, misfreed, panic>>

OpenPanics(p, id) ==
  /\ Shares(p) /\ Present(p, sz[p]) /\ EntriesOf(id) \cup EntriesOf(0) # {}
  /\ Panic("remap")

(* With the table full nothing is mapped, but the process is longer, also  *)
(* past KERNBASE.                                                          *)
OpenFull(p, id) ==
  /\ Shares(p) /\ sz[p] < MaxSize /\ EntriesOf(id) = {} /\ EntriesOf(0) = {}
  /\ misused' = misused \cup {"not mapped"}
  /\ sz' = [sz EXCEPT ![p] = @ + 1]
  /\ UNCHANGED <<kernel, free, state, pgdir, pages, guard, stack_pages, my_sp, shm_pages,
                 shared, lost, misfreed, panic>>

(* shm_close() does not unmap the page, and any process may call it.       *)
LastOf(id) == {s \in EntriesOf(id) : shm_pages[s].refcnt = 1}
Dropped(id) == IF LastOf(id) = {} THEN None ELSE First(LastOf(id))
Counted(id) == {s \in EntriesOf(id) :
  shm_pages[s].refcnt > 1 /\ (LastOf(id) # {} => s < Dropped(id))}

(* The frame of an entry that goes, if nobody maps it.                     *)
Orphan(id) == {f \in shared : \E s \in LastOf(id) :
  s = Dropped(id) /\ shm_pages[s].frame = f
    /\ ~\E q \in Process, v \in Page : pages[q][v] = f}

Close(p, id) ==
  /\ Shares(p)
  /\ shm_pages' = [s \in DOMAIN shm_pages |->
       CASE s = Dropped(id) -> [id |-> 0, frame |-> None, refcnt |-> 0]
         [] s \in Counted(id) -> [shm_pages[s] EXCEPT !.refcnt = @ - 1]
         [] OTHER -> shm_pages[s]]
  /\ lost' = lost \cup Orphan(id) /\ shared' = shared \ Orphan(id)
  /\ UNCHANGED <<kernel, free, spaceVars, misfreed, misused, panic>>

ShmCall(p) == \E id \in Id :
  \/ OpenExisting(p, id) \/ OpenNew(p, id) \/ OpenPanics(p, id) \/ OpenFull(p, id)
  \/ Close(p, id)
=============================================================================
