-------------------------------- MODULE Stack --------------------------------
(***************************************************************************)
(* Lab 3: the page fault handler that grows the stack (trap.c).  A process *)
(* faults on a page that it does not map or may not use.  my_sp tells a    *)
(* stack from a wild address; only exec() sets it, so that a forked        *)
(* process has what the last user of its slot left there.                  *)
(***************************************************************************)
EXTENDS Memory

Faults(p, v) ==
  /\ kernel = "lab3" /\ Runs(p) /\ v > 0
  /\ v \notin Mapped(p) \/ v \in guard[p]

(* allocuvm() maps v and the page below it, which goes again.              *)
FaultGrows(p, v) ==
  /\ Faults(p, v) /\ v <= my_sp[p]
  /\ {v - 1, v} \cap Mapped(p) = {} /\ stack_pages[p] < MaxStack
  /\ free' = free \ {NewPage(p, v)}
  /\ pages' = [pages EXCEPT ![p][v] = NewPage(p, v)]
  /\ stack_pages' = [stack_pages EXCEPT ![p] = @ + 1]
  /\ UNCHANGED <<kernel, state, pgdir, sz, guard, my_sp, shm_pages, histories, panic>>

FaultPanics(p, v) ==
  /\ Faults(p, v) /\ v <= my_sp[p] /\ {v - 1, v} \cap Mapped(p) # {}
  /\ Panic("remap")

(* Above my_sp only the second half happens: the page below goes.  The     *)
(* process is back where it was, and faults again.                         *)
FaultShrinks(p, v) ==
  /\ Faults(p, v) /\ v > my_sp[p] /\ stack_pages[p] < MaxStack
  /\ Dealloc(p, {v - 1}, {}, {})
  /\ pages' = [pages EXCEPT ![p][v - 1] = None]
  /\ guard' = [guard EXCEPT ![p] = @ \ {v - 1}]
  /\ stack_pages' = [stack_pages EXCEPT ![p] = @ + 1]
  /\ UNCHANGED <<state, pgdir, sz, my_sp>>

(* ... unless the page below is so far from any other that it has no page  *)
(* table.                                                                  *)
FaultFarAway(p, v) ==
  /\ Faults(p, v) /\ v > my_sp[p] /\ v - 1 \notin Mapped(p)
  /\ Panic("clearpteu")

PageFault(p) == \E v \in Page :
  FaultGrows(p, v) \/ FaultPanics(p, v) \/ FaultShrinks(p, v) \/ FaultFarAway(p, v)
=============================================================================
